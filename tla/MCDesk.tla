------------------------------- MODULE MCDesk -------------------------------
EXTENDS Desk, TLC

Found == "f1" :> {"c1", "c2"} @@ "f2" :> {"c2"}

Greeting == [part |-> "body", button |-> 0, number |-> 1]
Claim == [part |-> "body", button |-> 0, number |-> 2]
Link == [part |-> "button", button |-> 0, number |-> 1]
Forms == {{Greeting}, {Greeting, Claim}, {Greeting, Link}}

Choices == {[field |-> "fullName", transformer |-> "identity", fallback |-> "blank"],
            [field |-> "debtAmount", transformer |-> "currency", fallback |-> "blank"],
            [field |-> "debtAmount", transformer |-> "identity_last4", fallback |-> "word"]}

Debtors == {[fullName |-> "word", debtAmount |-> "number"],
            [fullName |-> "blank", debtAmount |-> "number"],
            [fullName |-> "word", debtAmount |-> "zero"]}

Usage ==
  [choice |-> 4, press |-> 1, offline |-> 1, fault |-> 1, change |-> 2,
   mishap |-> 2, again |-> 2, view |-> 3, step |-> 4, trouble |-> 1,
   tab |-> 2, arrive |-> 3]

\* Nothing tells the messages apart: they are named in the order they are stored.
NamedInOrder == version["m2"] > 0 => version["m1"] \in 1..version["m2"]

\* parseRangeHeader against its reference, for every header and size, see Media.
ASSUME RangesAreExact == M!RangeIsExact
=============================================================================
