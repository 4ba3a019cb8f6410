----------------------------- MODULE InboundOnce -----------------------------
(***************************************************************************)
(* What docs/ARCHITECTURE.md promises of an inbound WhatsApp message under  *)
(* "Webhook Idempotency", however often the provider delivers it: it is     *)
(* stored at most once, added to an unread counter at most once and only    *)
(* after it was stored, and announced to the staff at most once and only    *)
(* after it was counted. Inbox implements this specification.              *)
(***************************************************************************)
EXTENDS Naturals

CONSTANT Messages

VARIABLES
  stored,     \* messages that have a row
  counted,    \* how often each message was added to an unread counter
  announced   \* how often each message was announced to the staff

vars == <<stored, counted, announced>>

Init ==
  /\ stored = {}
  /\ counted = [m \in Messages |-> 0]
  /\ announced = [m \in Messages |-> 0]

Store(m) ==
  /\ m \notin stored
  /\ stored' = stored \union {m}
  /\ UNCHANGED <<counted, announced>>

Count(m) ==
  /\ m \in stored /\ counted[m] = 0
  /\ counted' = [counted EXCEPT ![m] = 1]
  /\ UNCHANGED <<stored, announced>>

Announce(m) ==
  /\ counted[m] = 1 /\ announced[m] = 0
  /\ announced' = [announced EXCEPT ![m] = 1]
  /\ UNCHANGED <<stored, counted>>

Next == \E m \in Messages : Store(m) \/ Count(m) \/ Announce(m)

Spec == Init /\ [][Next]_vars
=============================================================================
