---------------------------- MODULE ServicesProofs ----------------------------
(***************************************************************************)
(* Proofs about Services, for all users, sessions, templates and budgets.     *)
(* Presence: type correctness, that the maps of the server agree with its    *)
(* connections, and that the employee list of a browser shows what they say. *)
(* Templates: that a sync misses nothing, that a mapping which was saved     *)
(* stays, and that a refused message is one whose template was changed.      *)
(***************************************************************************)
EXTENDS Services, FiniteSetTheorems, SequenceTheorems, TLAPS

TypeInv == TypeOK /\ Events \subseteq DOMAIN left

\* What was announced of a user is what the maps say, but for those of whom an
\* offline transition awaits its write and those who connected while one did.
AnnounceInv ==
  \A u \in Users \ crossed :
    /\ u \in online => u \in announced /\ ~Saving(u)
    /\ u \in announced /\ u \notin online => Saving(u)

\* The last event of a user on the wire is what was last announced of him, and
\* only a socket that is open has events on the wire.
WireInv ==
  /\ ~wired => wire = <<>>
  /\ \A i \in DOMAIN wire :
       (\A j \in DOMAIN wire : j > i => wire[j].user # wire[i].user)
         => (wire[i].online <=> wire[i].user \in announced)

\* What the browser shows of a user of whom no event is on the wire, as soon as
\* the answer has arrived that may be on its way.
Base == IF fetch = "answered" THEN snapshot ELSE view

BaseInv ==
  \A u \in Users \ (missed \union crossed) :
    u \notin OnTheWay =>
      /\ u \in Base => u \in announced
      /\ u \in announced /\ ~Saving(u) => u \in Base

PresenceInv == TypeInv /\ MapsAgree /\ AnnounceInv /\ WireInv /\ BaseInv

-----------------------------------------------------------------------------
(* Type correctness.                                                         *)

LEMMA Spent ==
  ASSUME NEW e, Events \subseteq DOMAIN left, \A x \in Events : left[x] \in Nat, Spend(e)
  PROVE  /\ Events \subseteq DOMAIN left' /\ \A x \in Events : left'[x] \in Nat
  BY DEF Spend

\* An announcement keeps the types of what it changes.
LEMMA EmitTypes ==
  ASSUME TypeOK, NEW u \in Users, NEW b \in BOOLEAN, Emit(u, b)
  PROVE  /\ announced' \subseteq Users /\ missed' \subseteq Users
         /\ wired' \in BOOLEAN /\ wire' \in Seq(Event)
         /\ view' \subseteq Users /\ fetch' \in {"none", "asked", "answered"}
         /\ snapshot' \subseteq Users
  <1>1. [user |-> u, online |-> b] \in Event
    BY DEF Event
  <1>2. wire' \in Seq(Event)
    BY <1>1 DEF Emit, TypeOK
  <1> QED
    BY <1>2 DEF Emit, TypeOK

LEMMA SilentTypes ==
  ASSUME TypeOK, Silent
  PROVE  /\ announced' \subseteq Users /\ missed' \subseteq Users
         /\ wired' \in BOOLEAN /\ wire' \in Seq(Event)
         /\ view' \subseteq Users /\ fetch' \in {"none", "asked", "answered"}
         /\ snapshot' \subseteq Users
  BY DEF Silent, watcher, TypeOK

LEMMA OfflineTypes ==
  ASSUME TypeOK, NEW u \in Users, NEW via \in Sockets \union {Grace}, BeginOffline(u, via)
  PROVE  /\ online' \subseteq Users /\ timer' \subseteq Users
         /\ tracked' \in [Users -> SUBSET Sockets]
         /\ saves' \subseteq Save /\ ended' \in [Users -> Nat]
  <1>1. [user |-> u, at |-> ended[u] + 1, via |-> via, written |-> FALSE] \in Save
    BY DEF Save, TypeOK
  <1>2. ended' \in [Users -> Nat]
    BY DEF BeginOffline, TypeOK
  <1>3. tracked' \in [Users -> SUBSET Sockets]
    BY DEF BeginOffline, TypeOK
  <1> QED
    BY <1>1, <1>2, <1>3 DEF BeginOffline, TypeOK

LEMMA DropTypes ==
  ASSUME TypeOK, NEW s \in Sockets, Drop(s)
  PROVE  /\ conn' \subseteq Sockets /\ timer' \subseteq Users
         /\ tracked' \in [Users -> SUBSET Sockets]
  BY ConstantsAssumption DEF Drop, TypeOK

LEMMA OnTheWayTyped == TypeOK => OnTheWay \subseteq Users
  <1> SUFFICES ASSUME TypeOK, NEW i \in DOMAIN wire PROVE wire[i].user \in Users
    BY DEF OnTheWay
  <1>1. wire[i] \in Event
    BY ElementOfSeq, LenProperties DEF TypeOK
  <1> QED
    BY <1>1 DEF Event

LEMMA NothingOnWire == << >> \in Seq(Event)
  BY EmptySeq

LEMMA TypeStep == TypeInv /\ Next => TypeInv'
  <1> SUFFICES ASSUME TypeInv, Next PROVE TypeInv'
    OBVIOUS
  <1> USE DEF TypeInv
  <1>e. {"connect", "leave", "fault", "watch"} \subseteq Events
    BY DEF Events
  <1>1. ASSUME NEW s \in Sockets, Connect(s) PROVE TypeInv'
    <2>1. UserOf[s] \in Users
      BY ConstantsAssumption
    <2>2. Silent \/ Emit(UserOf[s], TRUE)
      BY <1>1 DEF Connect
    <2> QED
      BY <1>1, <2>1, <2>2, Spent, EmitTypes, SilentTypes DEF Connect, TypeOK
  <1>2. ASSUME NEW s \in Sockets, Disconnect(s) PROVE TypeInv'
    BY <1>2, Spent, DropTypes, SilentTypes DEF Disconnect, TypeOK
  <1>3. ASSUME NEW s \in Sockets, Logout(s) PROVE TypeInv'
    <2>1. UserOf[s] \in Users
      BY ConstantsAssumption
    <2>2. CASE tracked[UserOf[s]] \ {s} # {}
      <3>1. tracked' \in [Users -> SUBSET Sockets]
        BY <1>3, <2>1, <2>2 DEF Logout, TypeOK
      <3> QED
        BY <1>3, <2>1, <2>2, <3>1, Spent, SilentTypes DEF Logout, TypeOK
    <2>3. CASE tracked[UserOf[s]] \ {s} = {}
      BY <1>3, <2>1, <2>3, Spent, SilentTypes, OfflineTypes DEF Logout, TypeOK
    <2> QED
      BY <2>2, <2>3
  <1>4. ASSUME NEW u \in Users, TimerFires(u) PROVE TypeInv'
    BY <1>4, SilentTypes, OfflineTypes DEF TimerFires, TypeOK
  <1>5. ASSUME NEW v \in saves, WriteLastSeen(v) PROVE TypeInv'
    <2>1. [v EXCEPT !.written = TRUE] \in Save
      BY DEF TypeOK, Save
    <2> QED
      BY <1>5, <2>1, SilentTypes DEF WriteLastSeen, maps, TypeOK
  <1>6. ASSUME NEW v \in saves, FinishOffline(v) PROVE TypeInv'
    <2>1. v.user \in Users
      BY DEF TypeOK, Save
    <2>2. CASE v.via \in conn
      BY <1>6, <2>1, <2>2, EmitTypes, DropTypes DEF FinishOffline, TypeOK
    <2>3. CASE v.via \notin conn
      BY <1>6, <2>1, <2>3, EmitTypes DEF FinishOffline, TypeOK
    <2> QED
      BY <2>2, <2>3
  <1>7. CASE Restart
    <2>1. tracked' \in [Users -> SUBSET Sockets]
      BY <1>7 DEF Restart
    <2> QED
      BY <1>7, <1>e, <2>1, Spent, OnTheWayTyped, NothingOnWire DEF Restart, TypeOK
  <1>8. CASE Wire
    BY <1>8, <1>e, Spent DEF Wire, server, maps, TypeOK
  <1>9. CASE Unwire
    BY <1>9, <1>e, Spent, OnTheWayTyped, NothingOnWire DEF Unwire, server, maps, TypeOK
  <1>10. CASE ReceiveEvent
    <2>1. Head(wire) \in Event /\ Tail(wire) \in Seq(Event)
      BY <1>10, HeadTailProperties DEF ReceiveEvent, TypeOK
    <2>2. Head(wire).user \in Users
      BY <2>1 DEF Event
    <2> QED
      BY <1>10, <2>1, <2>2 DEF ReceiveEvent, Show, server, maps, TypeOK
  <1>11. CASE AskList
    BY <1>11, <1>e, Spent DEF AskList, server, maps, TypeOK
  <1>12. CASE AnswerList
    BY <1>12 DEF AnswerList, server, maps, TypeOK
  <1>13. CASE ReceiveList
    BY <1>13 DEF ReceiveList, server, maps, TypeOK
  <1> QED
    BY <1>1, <1>2, <1>3, <1>4, <1>5, <1>6, <1>7, <1>8, <1>9, <1>10, <1>11, <1>12, <1>13 DEF Next

-----------------------------------------------------------------------------
(* The maps of the server.                                                   *)

MapsFit(u) ==
  /\ tracked[u] \subseteq {s \in conn : UserOf[s] = u}
  /\ tracked[u] # {} => u \in online
  /\ (u \in timer <=> u \in online /\ tracked[u] = {})

LEMMA MapsStep == TypeInv /\ MapsAgree /\ Next => MapsAgree'
  <1> SUFFICES ASSUME TypeInv, MapsAgree, Next, NEW u \in Users
               PROVE  MapsFit(u)'
    BY DEF MapsAgree, MapsFit
  <1>t. /\ UserOf \in [Sockets -> Users] /\ tracked \in [Users -> SUBSET Sockets]
        /\ conn \subseteq Sockets
    BY ConstantsAssumption DEF TypeInv, TypeOK
  <1>m. MapsFit(u)
    BY DEF MapsAgree, MapsFit
  <1> USE DEF MapsFit
  <1>1. ASSUME NEW s \in Sockets, Connect(s) PROVE MapsFit(u)'
    BY <1>1, <1>t, <1>m DEF Connect
  <1>2. ASSUME NEW s \in Sockets, Disconnect(s) PROVE MapsFit(u)'
    BY <1>2, <1>t, <1>m DEF Disconnect, Drop
  <1>3. ASSUME NEW s \in Sockets, Logout(s) PROVE MapsFit(u)'
    BY <1>3, <1>t, <1>m DEF Logout, BeginOffline
  <1>4. ASSUME NEW w \in Users, TimerFires(w) PROVE MapsFit(u)'
    BY <1>4, <1>t, <1>m DEF TimerFires, BeginOffline
  <1>5. ASSUME NEW v \in saves, WriteLastSeen(v) PROVE MapsFit(u)'
    BY <1>5, <1>m DEF WriteLastSeen, maps
  <1>6. ASSUME NEW v \in saves, FinishOffline(v) PROVE MapsFit(u)'
    BY <1>6, <1>t, <1>m DEF FinishOffline, Drop
  <1>7. CASE Restart
    BY <1>7 DEF Restart, Saving
  <1>8. CASE UNCHANGED server
    BY <1>8, <1>m DEF server, maps
  <1> QED
    BY <1>1, <1>2, <1>3, <1>4, <1>5, <1>6, <1>7, <1>8
    DEF Next, Wire, Unwire, ReceiveEvent, AskList, AnswerList, ReceiveList

-----------------------------------------------------------------------------
(* What is announced, what is on the wire and what the browser shows.        *)

\* AnnounceInv for one user.
Told(u) ==
  u \notin crossed =>
    /\ u \in online => u \in announced /\ ~Saving(u)
    /\ u \in announced /\ u \notin online => Saving(u)

\* An offline transition begins with a write that is awaited.
LEMMA OfflineAwaits ==
  ASSUME NEW u, NEW via, NEW x, BeginOffline(u, via)
  PROVE  Saving(x)' <=> (Saving(x) \/ x = u)
  <1> DEFINE v == [user |-> u, at |-> ended[u] + 1, via |-> via, written |-> FALSE]
  <1>1. v.user = u
    OBVIOUS
  <1>2. saves' = saves \union {v}
    BY DEF BeginOffline
  <1> HIDE DEF v
  <1> QED
    BY <1>1, <1>2 DEF Saving

LEMMA AnnounceStep == TypeInv /\ AnnounceInv /\ Next => AnnounceInv'
  <1> SUFFICES ASSUME TypeInv, AnnounceInv, Next, NEW u \in Users PROVE Told(u)'
    BY DEF AnnounceInv, Told
  <1>m. Told(u)
    BY DEF AnnounceInv, Told
  <1>t. UserOf \in [Sockets -> Users]
    BY ConstantsAssumption
  <1> USE DEF Told
  <1>1. ASSUME NEW s \in Sockets, Connect(s) PROVE Told(u)'
    BY <1>1, <1>t, <1>m DEF Connect, Silent, Emit, Saving
  <1>2. ASSUME NEW s \in Sockets, Disconnect(s) PROVE Told(u)'
    BY <1>2, <1>m DEF Disconnect, Silent, Saving
  <1>3. ASSUME NEW s \in Sockets, Logout(s) PROVE Told(u)'
    <2>1. CASE tracked[UserOf[s]] \ {s} # {}
      BY <1>3, <1>m, <2>1 DEF Logout, Silent, Saving
    <2>2. CASE BeginOffline(UserOf[s], s)
      <3>1. Saving(u)' <=> (Saving(u) \/ u = UserOf[s])
        BY <2>2, OfflineAwaits
      <3> QED
        BY <1>3, <1>m, <2>2, <3>1 DEF Logout, BeginOffline, Silent
    <2> QED
      BY <1>3, <2>1, <2>2 DEF Logout
  <1>4. ASSUME NEW w \in Users, TimerFires(w) PROVE Told(u)'
    <2>1. CASE tracked[w] # {}
      BY <1>4, <1>m, <2>1 DEF TimerFires, Silent, Saving
    <2>2. CASE BeginOffline(w, Grace)
      <3>1. Saving(u)' <=> (Saving(u) \/ u = w)
        BY <2>2, OfflineAwaits
      <3> QED
        BY <1>4, <1>m, <2>2, <3>1 DEF TimerFires, BeginOffline, Silent
    <2> QED
      BY <1>4, <2>1, <2>2 DEF TimerFires
  <1>5. ASSUME NEW v \in saves, WriteLastSeen(v) PROVE Told(u)'
    <2>1. [v EXCEPT !.written = TRUE].user = v.user
      BY DEF TypeInv, TypeOK, Save
    <2> QED
      BY <1>5, <1>m, <2>1 DEF WriteLastSeen, maps, Silent, Saving
  <1>6. ASSUME NEW v \in saves, FinishOffline(v) PROVE Told(u)'
    BY <1>6, <1>m DEF FinishOffline, Emit, Saving
  <1>7. CASE Restart
    BY <1>7 DEF Restart, Saving
  <1>8. CASE UNCHANGED server
    BY <1>8, <1>m DEF server, maps, Saving
  <1> QED
    BY <1>1, <1>2, <1>3, <1>4, <1>5, <1>6, <1>7, <1>8
    DEF Next, Wire, Unwire, ReceiveEvent, AskList, AnswerList, ReceiveList

LEMMA EmitKeepsWire ==
  ASSUME TypeInv, WireInv, NEW u \in Users, NEW b \in BOOLEAN, Emit(u, b)
  PROVE  /\ WireInv'
         /\ wired => OnTheWay' = OnTheWay \union {u}
         /\ ~wired => OnTheWay' = OnTheWay /\ u \in missed'
  <1>1. CASE ~wired
    BY <1>1 DEF WireInv, Emit, OnTheWay
  <1>2. CASE wired
    <2> DEFINE e == [user |-> u, online |-> b]
               n == Len(wire)
    <2>1. e \in Event /\ wire \in Seq(Event) /\ wire' = Append(wire, e)
      BY <1>2 DEF Event, Emit, TypeInv, TypeOK
    <2>2. /\ n \in Nat /\ DOMAIN wire = 1..n /\ DOMAIN wire' = 1..(n + 1)
          /\ \A i \in 1..n : wire'[i] = wire[i]
          /\ wire'[n + 1] = e
      BY <2>1
    <2> HIDE DEF n
    <2>3. OnTheWay' = OnTheWay \union {u}
      <3>1. wire'[n + 1].user = u
        BY <2>2
      <3>2. \A i \in 1..(n + 1) : i \in 1..n \/ i = n + 1
        BY <2>2
      <3>3. n + 1 \in 1..(n + 1) /\ 1..n \subseteq 1..(n + 1)
        BY <2>2
      <3>4. OnTheWay' \subseteq OnTheWay \union {u}
        BY <2>2, <3>1, <3>2 DEF OnTheWay
      <3>5. OnTheWay \subseteq OnTheWay'
        BY <2>2, <3>3 DEF OnTheWay
      <3>6. u \in OnTheWay'
        BY <2>2, <3>1, <3>3 DEF OnTheWay
      <3> QED
        BY <3>4, <3>5, <3>6
    <2>4. WireInv'
      <3> SUFFICES ASSUME NEW i \in 1..(n + 1),
                          \A j \in 1..(n + 1) : j > i => wire'[j].user # wire'[i].user
                   PROVE  wire'[i].online <=> wire'[i].user \in announced'
        BY <1>2, <2>2 DEF WireInv, Emit
      <3>1. CASE i = n + 1
        BY <2>2, <3>1 DEF Emit
      <3>2. CASE i # n + 1
        <4>1. i \in 1..n /\ n + 1 \in 1..(n + 1) /\ n + 1 > i
          BY <2>2, <3>2
        <4>2. wire[i].user # u
          BY <2>2, <4>1
        <4>3. \A j \in 1..n : j > i => wire[j].user # wire[i].user
          BY <2>2, <4>1
        <4>4. wire[i].online <=> wire[i].user \in announced
          BY <2>2, <4>1, <4>3 DEF WireInv
        <4> QED
          BY <2>2, <4>1, <4>2, <4>4 DEF Emit
      <3> QED
        BY <3>1, <3>2
    <2> QED
      BY <1>2, <2>3, <2>4
  <1> QED
    BY <1>1, <1>2

LEMMA ReceiveKeepsWire ==
  ASSUME TypeInv, WireInv, ReceiveEvent
  PROVE  /\ WireInv'
         /\ OnTheWay' \subseteq OnTheWay
         /\ OnTheWay \subseteq OnTheWay' \union {Head(wire).user}
         /\ Head(wire).user \notin OnTheWay' =>
              (Head(wire).online <=> Head(wire).user \in announced)
  <1> DEFINE n == Len(wire)
  <1>1. wire \in Seq(Event) /\ wire # <<>> /\ wire' = Tail(wire)
    BY DEF ReceiveEvent, TypeInv, TypeOK
  <1>2. /\ n \in Nat /\ n >= 1 /\ DOMAIN wire = 1..n /\ DOMAIN wire' = 1..(n - 1)
        /\ \A i \in 1..(n - 1) : wire'[i] = wire[i + 1]
        /\ Head(wire) = wire[1]
    BY <1>1, HeadTailProperties, LenProperties
  <1> HIDE DEF n
  <1>3. \A i \in 1..n : i = 1 \/ (i - 1 \in 1..(n - 1) /\ i = (i - 1) + 1)
    BY <1>2
  <1>4. \A i \in 1..(n - 1) : i + 1 \in 1..n
    BY <1>2
  <1>5. OnTheWay' \subseteq OnTheWay
    BY <1>2, <1>4 DEF OnTheWay
  <1>6. OnTheWay \subseteq OnTheWay' \union {wire[1].user}
    <2> SUFFICES ASSUME NEW i \in 1..n, i # 1 PROVE wire[i].user \in OnTheWay'
      BY <1>2 DEF OnTheWay
    <2>1. i - 1 \in 1..(n - 1) /\ i = (i - 1) + 1
      BY <1>3
    <2>2. wire'[i - 1] = wire[i]
      BY <1>2, <2>1
    <2> QED
      BY <1>2, <2>1, <2>2 DEF OnTheWay
  <1>7. announced' = announced /\ wired' = wired
    BY DEF ReceiveEvent, server
  <1>8. WireInv'
    <2>1. wired
      BY <1>1 DEF WireInv
    <2> SUFFICES ASSUME NEW i \in 1..(n - 1),
                        \A j \in 1..(n - 1) : j > i => wire'[j].user # wire'[i].user
                 PROVE  wire'[i].online <=> wire'[i].user \in announced
      BY <1>2, <1>7, <2>1 DEF WireInv
    <2>2. i + 1 \in 1..n /\ wire'[i] = wire[i + 1]
      BY <1>2
    <2>3. ASSUME NEW j \in 1..n, j > i + 1 PROVE wire[j].user # wire[i + 1].user
      <3>1. j - 1 \in 1..(n - 1) /\ j = (j - 1) + 1 /\ j - 1 > i
        BY <1>2, <2>3
      <3>2. wire'[j - 1] = wire[j]
        BY <1>2, <3>1
      <3> QED
        BY <2>2, <3>1, <3>2
    <2> QED
      BY <1>2, <2>2, <2>3 DEF WireInv
  <1>9. ASSUME wire[1].user \notin OnTheWay'
        PROVE  wire[1].online <=> wire[1].user \in announced
    <2>1. ASSUME NEW j \in 1..n, j > 1 PROVE wire[j].user # wire[1].user
      <3>1. j - 1 \in 1..(n - 1) /\ j = (j - 1) + 1
        BY <1>2, <2>1
      <3>2. wire'[j - 1] = wire[j]
        BY <1>2, <3>1
      <3>3. wire[j].user \in OnTheWay'
        BY <1>2, <3>1, <3>2 DEF OnTheWay
      <3> QED
        BY <1>9, <3>3
    <2> QED
      BY <1>2, <2>1 DEF WireInv
  <1> QED
    BY <1>2, <1>5, <1>6, <1>8, <1>9

\* BaseInv for one user.
Shown(u) ==
  u \notin missed /\ u \notin crossed /\ u \notin OnTheWay =>
    /\ u \in Base => u \in announced
    /\ u \in announced /\ ~Saving(u) => u \in Base

\* An announcement shows sooner or later, unless it is missed; for the other
\* users nothing changes.
LEMMA EmitShows ==
  ASSUME TypeInv, WireInv, NEW w \in Users, NEW b \in BOOLEAN, Emit(w, b),
         NEW u \in Users, Shown(u), crossed' \subseteq crossed \union {w},
         crossed \subseteq crossed' \union {w}, u # w => (Saving(u)' <=> Saving(u))
  PROVE  Shown(u)'
  <1>1. /\ wired => OnTheWay' = OnTheWay \union {w}
        /\ ~wired => OnTheWay' = OnTheWay /\ w \in missed'
    BY EmitKeepsWire
  <1>2. Base' = Base
    BY DEF Base, Emit
  <1> QED
    BY <1>1, <1>2 DEF Shown, Emit

\* Without an announcement it matters only whether a write is awaited.
LEMMA SilentShows ==
  ASSUME Silent, NEW u \in Users, Shown(u), crossed \subseteq crossed',
         Saving(u) => Saving(u)'
  PROVE  Shown(u)'
  BY DEF Shown, Silent, watcher, Base, OnTheWay

LEMMA WireStep == TypeInv /\ WireInv /\ Next => WireInv'
  <1> SUFFICES ASSUME TypeInv, WireInv, Next PROVE WireInv'
    OBVIOUS
  <1>1. CASE Silent
    BY <1>1 DEF Silent, watcher, WireInv
  <1>2. CASE \E w \in Users, b \in BOOLEAN : Emit(w, b)
    BY <1>2, EmitKeepsWire
  <1>3. CASE ReceiveEvent
    BY <1>3, ReceiveKeepsWire
  <1>4. CASE Restart \/ Unwire
    BY <1>4 DEF Restart, Unwire, WireInv
  <1>5. CASE Wire \/ AskList \/ AnswerList \/ ReceiveList
    BY <1>5 DEF Wire, AskList, AnswerList, ReceiveList, server, WireInv
  <1>6. ASSUME NEW s \in Sockets, Connect(s) PROVE WireInv'
    <2>1. UserOf[s] \in Users
      BY ConstantsAssumption
    <2> QED
      BY <1>1, <1>2, <1>6, <2>1 DEF Connect
  <1>7. ASSUME NEW v \in saves, FinishOffline(v) PROVE WireInv'
    <2>1. v.user \in Users
      BY DEF TypeInv, TypeOK, Save
    <2> QED
      BY <1>2, <1>7, <2>1 DEF FinishOffline
  <1> QED
    BY <1>1, <1>3, <1>4, <1>5, <1>6, <1>7
    DEF Next, Disconnect, Logout, TimerFires, WriteLastSeen

LEMMA BaseStep == TypeInv /\ AnnounceInv /\ WireInv /\ BaseInv /\ Next => BaseInv'
  <1> SUFFICES ASSUME TypeInv, AnnounceInv, WireInv, BaseInv, Next, NEW u \in Users
               PROVE  Shown(u)'
    BY DEF BaseInv, Shown
  <1>m. Shown(u) /\ Told(u)
    BY DEF BaseInv, Shown, AnnounceInv, Told
  <1>t. UserOf \in [Sockets -> Users]
    BY ConstantsAssumption
  <1>1. ASSUME NEW s \in Sockets, Connect(s) PROVE Shown(u)'
    <2>1. Saving(u)' <=> Saving(u)
      BY <1>1 DEF Connect, Saving
    <2>2. CASE UserOf[s] \in online
      BY <1>1, <1>m, <2>1, <2>2, SilentShows DEF Connect
    <2>3. CASE UserOf[s] \notin online
      <3>1. Emit(UserOf[s], TRUE) /\ UserOf[s] \in Users
        BY <1>1, <1>t, <2>3 DEF Connect
      <3>2. crossed' \subseteq crossed \union {UserOf[s]} /\ crossed \subseteq crossed' \union {UserOf[s]}
        BY <1>1, <2>3 DEF Connect
      <3> QED
        BY <1>m, <2>1, <3>1, <3>2, EmitShows
    <2> QED
      BY <2>2, <2>3
  <1>2. ASSUME NEW s \in Sockets, Disconnect(s) PROVE Shown(u)'
    <2>1. Saving(u)' <=> Saving(u)
      BY <1>2 DEF Disconnect, Saving
    <2> QED
      BY <1>2, <1>m, <2>1, SilentShows DEF Disconnect
  <1>3. ASSUME NEW s \in Sockets, Logout(s) PROVE Shown(u)'
    <2>1. Saving(u) => Saving(u)'
      BY <1>3 DEF Logout, BeginOffline, Saving
    <2> QED
      BY <1>3, <1>m, <2>1, SilentShows DEF Logout
  <1>4. ASSUME NEW w \in Users, TimerFires(w) PROVE Shown(u)'
    <2>1. Saving(u) => Saving(u)'
      BY <1>4 DEF TimerFires, BeginOffline, Saving
    <2> QED
      BY <1>4, <1>m, <2>1, SilentShows DEF TimerFires
  <1>5. ASSUME NEW v \in saves, WriteLastSeen(v) PROVE Shown(u)'
    <2>1. [v EXCEPT !.written = TRUE].user = v.user
      BY DEF TypeInv, TypeOK, Save
    <2>2. Saving(u) => Saving(u)'
      BY <1>5, <2>1 DEF WriteLastSeen, Saving
    <2> QED
      BY <1>5, <1>m, <2>2, SilentShows DEF WriteLastSeen
  <1>6. ASSUME NEW v \in saves, FinishOffline(v) PROVE Shown(u)'
    <2>1. v.user \in Users /\ Emit(v.user, FALSE)
      BY <1>6 DEF FinishOffline, TypeInv, TypeOK, Save
    <2>2. u # v.user => (Saving(u)' <=> Saving(u))
      BY <1>6 DEF FinishOffline, Saving
    <2>3. crossed' \subseteq crossed \union {v.user} /\ crossed \subseteq crossed' \union {v.user}
      BY <1>6 DEF FinishOffline
    <2> QED
      BY <1>m, <2>1, <2>2, <2>3, EmitShows
  <1>7. CASE Restart
    <2>1. Base' = Base
      BY <1>7 DEF Restart, Base
    <2> QED
      BY <1>7, <1>m, <2>1 DEF Restart, Shown
  <1>8. CASE Wire \/ AskList \/ ReceiveList
    <2>1. UNCHANGED <<wire, server, missed>> /\ Base' = Base
      BY <1>8 DEF Wire, AskList, ReceiveList, Base
    <2> QED
      BY <1>m, <2>1 DEF Shown, OnTheWay, Saving, server
  <1>9. CASE Unwire
    <2>1. Base' = Base
      BY <1>9 DEF Unwire, Base
    <2> QED
      BY <1>9, <1>m, <2>1 DEF Unwire, Shown, OnTheWay, Saving, server
  <1>10. CASE ReceiveEvent
    <2> DEFINE h == Head(wire).user
    <2>1. /\ OnTheWay' \subseteq OnTheWay /\ OnTheWay \subseteq OnTheWay' \union {h}
          /\ h \notin OnTheWay' => (Head(wire).online <=> h \in announced)
      BY <1>10, ReceiveKeepsWire
    <2>2. UNCHANGED <<server, fetch, snapshot>>
      BY <1>10 DEF ReceiveEvent
    <2>3. CASE fetch = "answered"
      BY <1>10, <1>m, <2>1, <2>2, <2>3 DEF ReceiveEvent, Shown, Base, Saving, server
    <2>4. CASE fetch # "answered"
      BY <1>10, <1>m, <2>1, <2>2, <2>4 DEF ReceiveEvent, Show, Shown, Base, Saving, server
    <2> QED
      BY <2>3, <2>4
  <1>11. CASE AnswerList
    <2>1. /\ Base' = online /\ OnTheWay' = OnTheWay /\ announced' = announced
          /\ (Saving(u)' <=> Saving(u)) /\ crossed' = crossed
      BY <1>11 DEF AnswerList, Base, OnTheWay, Saving, server
    <2> QED
      BY <1>11, <1>m, <2>1 DEF AnswerList, Shown, Told, server
  <1> QED
    BY <1>1, <1>2, <1>3, <1>4, <1>5, <1>6, <1>7, <1>8, <1>9, <1>10, <1>11 DEF Next

-----------------------------------------------------------------------------
(* The theorems about presence.                                              *)

\* In the other scene presence stands still, but for what is left of the budget.
LEMMA OtherScene ==
  ASSUME PresenceInv, UNCHANGED presenceState,
         left' = left \/ \E e : Spend(e)
  PROVE  PresenceInv'
  <1>1. Events \subseteq DOMAIN left' /\ \A x \in Events : left'[x] \in Nat
    BY Spent DEF PresenceInv, TypeInv, TypeOK
  <1>2. TypeInv'
    BY <1>1 DEF presenceState, maps, watcher, PresenceInv, TypeInv, TypeOK
  <1>3. MapsAgree' /\ AnnounceInv' /\ WireInv' /\ BaseInv'
    BY DEF presenceState, maps, watcher, PresenceInv, MapsAgree, AnnounceInv, WireInv, BaseInv,
           Base, OnTheWay, Saving
  <1> QED
    BY <1>2, <1>3 DEF PresenceInv

\* What the templates do to the budget.
LEMMA TemplatesSpend == T!Next => left' = left \/ \E e : Spend(e)
  <1> SUFFICES ASSUME T!Next PROVE left' = left \/ \E e : Spend(e)
    OBVIOUS
  <1> USE DEF Spend, T!Spend
  <1>1. ASSUME NEW r \in Asks, T!Ask(r) PROVE \E e : Spend(e)
    BY <1>1 DEF T!Ask
  <1>2. CASE T!Timer \/ T!RowFails \/ T!RequestFails \/ T!Restart
    BY <1>2 DEF T!Timer, T!RowFails, T!RequestFails, T!Restart
  <1>3. CASE T!FetchPage \/ T!FetchFails \/ T!Upsert \/ T!Count \/ T!Default \/ T!Finish
    BY <1>3 DEF T!FetchPage, T!FetchFails, T!Upsert, T!Count, T!Default, T!Finish
  <1>4. ASSUME NEW r \in Saves, NEW n \in T!Names, NEW rows \in Choices, T!AskSave(r, n, rows)
        PROVE  \E e : Spend(e)
    BY <1>4 DEF T!AskSave
  <1>5. ASSUME NEW r \in Saves, T!DeleteRows(r) \/ T!CommitRows(r) PROVE left' = left
    BY <1>5 DEF T!DeleteRows, T!CommitRows
  <1>6. ASSUME NEW r \in Sends, NEW n \in T!Names, NEW filled \in Fillings, T!AskSend(r, n, filled)
        PROVE  \E e : Spend(e)
    BY <1>6 DEF T!AskSend
  <1>7. ASSUME NEW r \in Sends, T!Deliver(r) \/ T!Record(r) PROVE left' = left
    BY <1>7 DEF T!Deliver, T!Record
  <1>8. ASSUME NEW n \in T!Names, NEW shape \in Shapes \union {T!Absent}, T!Change(n, shape)
        PROVE  \E e : Spend(e)
    BY <1>8 DEF T!Change
  <1> QED
    BY <1>1, <1>2, <1>3, <1>4, <1>5, <1>6, <1>7, <1>8 DEF T!Next

LEMMA PresenceInitially == ServicesInit => PresenceInv
  <1> SUFFICES ASSUME ServicesInit PROVE PresenceInv
    OBVIOUS
  <1> USE DEF ServicesInit, Init
  <1>1. TypeInv
    BY ConstantsAssumption, NothingOnWire DEF TypeInv, TypeOK
  <1>2. MapsAgree /\ AnnounceInv
    BY DEF MapsAgree, AnnounceInv
  <1>3. WireInv /\ BaseInv
    <2>1. DOMAIN wire = {}
      OBVIOUS
    <2> QED
      BY <2>1 DEF WireInv, BaseInv, Base
  <1> QED
    BY <1>1, <1>2, <1>3 DEF PresenceInv

LEMMA PresenceStep == PresenceInv /\ [ServicesNext]_serviceVars => PresenceInv'
  <1> SUFFICES ASSUME PresenceInv, [ServicesNext]_serviceVars PROVE PresenceInv'
    OBVIOUS
  <1>1. CASE Next
    BY <1>1, TypeStep, MapsStep, AnnounceStep, WireStep, BaseStep DEF PresenceInv
  <1>2. CASE T!Next /\ UNCHANGED presenceState
    BY <1>2, TemplatesSpend, OtherScene
  <1>3. CASE UNCHANGED serviceVars
    BY <1>3, OtherScene DEF serviceVars
  <1> QED
    BY <1>1, <1>2, <1>3 DEF ServicesNext

LEMMA PresenceAlways == ServicesSpec => []PresenceInv
  BY PresenceInitially, PresenceStep, PTL DEF ServicesSpec

\* Presence: every variable has its type. (presence.service)
THEOREM TypeCorrect == ServicesSpec => []TypeOK
  <1>1. PresenceInv => TypeOK
    BY DEF PresenceInv, TypeInv
  <1> QED
    BY <1>1, PresenceAlways, PTL

\* The maps of presence.service agree with the connections of the process, and a
\* grace period runs for exactly the users who are taken for online without a
\* socket: however connections, disconnects, logouts and timers cross, nobody
\* stays online without something that will take him offline.
THEOREM MapsAreTrue == ServicesSpec => []MapsAgree
  <1>1. PresenceInv => MapsAgree
    BY DEF PresenceInv
  <1> QED
    BY <1>1, PresenceAlways, PTL

\* What the server has announced of a user is what its maps say, once none of his
\* offline transitions awaits its write, unless he connected while one did or the
\* process restarted. (emitPresenceEvent, markUserOffline)
THEOREM AnnouncementsAreTrue == ServicesSpec => []AnnouncedIsTracked
  <1>1. PresenceInv => AnnouncedIsTracked
    BY DEF PresenceInv, AnnounceInv, AnnouncedIsTracked
  <1> QED
    BY <1>1, PresenceAlways, PTL

\* With nothing on its way, the employee list of a browser shows who is online,
\* but for users of whom it missed an event. (updateEmployeePresence and
\* attachEmployeePresence)
THEOREM BrowserIsCurrent == ServicesSpec => []ViewIsCurrent
  <1>1. PresenceInv => ViewIsCurrent
    <2> SUFFICES ASSUME PresenceInv, wire = <<>>, fetch = "none",
                        NEW u \in Users \ (missed \union crossed), ~Saving(u)
                 PROVE  u \in view <=> u \in online
      BY DEF ViewIsCurrent
    <2>1. DOMAIN wire = {}
      OBVIOUS
    <2>2. u \notin OnTheWay
      BY <2>1 DEF OnTheWay
    <2> QED
      BY <2>2 DEF PresenceInv, BaseInv, Base, AnnounceInv
  <1> QED
    BY <1>1, PresenceAlways, PTL

-----------------------------------------------------------------------------
(* Pages of the listing: the rank of a place among the places of a set.       *)

\* The instance of Templates counts as this module does.
LEMMA SameCardinality ==
  ASSUME NEW S
  PROVE  T!Cardinality(S) = Cardinality(S)
  BY DEF T!Cardinality, Cardinality

Rank(S, i) == Cardinality({j \in S : j <= i})

\* Ranks grow, from 1 to the size of the set.
LEMMA RankGrows ==
  ASSUME NEW S \in SUBSET Nat, IsFiniteSet(S), NEW i \in S
  PROVE  /\ Rank(S, i) \in 1..Cardinality(S)
         /\ \A m \in S : i < m => Rank(S, i) < Rank(S, m)
  <1> DEFINE below == {j \in S : j <= i}
  <1>n. \A j \in S : j \in Nat
    OBVIOUS
  <1>1. /\ IsFiniteSet(below) /\ Cardinality(below) \in Nat
        /\ Cardinality(below) <= Cardinality(S) /\ Cardinality(S) \in Nat
    BY FS_Subset, FS_CardinalityType
  <1>2. Cardinality(below) # 0
    <2>1. i \in below
      BY <1>n
    <2> QED
      BY <1>1, <2>1, FS_EmptySet
  <1>3. ASSUME NEW m \in S, i < m PROVE Rank(S, i) < Rank(S, m)
    <2> DEFINE more == {j \in S : j <= m}
    <2>1. IsFiniteSet(more) /\ Cardinality(more) \in Nat
      BY FS_Subset, FS_CardinalityType
    <2>2. below \subseteq more /\ m \in more /\ m \notin below
      <3>1. i \in Nat /\ m \in Nat /\ \A j \in S : j \in Nat
        OBVIOUS
      <3>2. \A j \in S : j <= i => j <= m
        BY <1>3, <3>1
      <3>3. below \subseteq more
        BY <3>2
      <3>4. m <= m /\ ~(m <= i)
        BY <1>3, <3>1
      <3> QED
        BY <3>3, <3>4
    <2>3. Cardinality(below) <= Cardinality(more) /\ below # more
      BY <2>1, <2>2, FS_Subset
    <2>4. Cardinality(more) # Cardinality(below)
      BY <2>1, <2>2, <2>3, FS_Subset
    <2> HIDE DEF below, more
    <2>5. Cardinality(below) < Cardinality(more)
      BY <1>1, <2>1, <2>3, <2>4
    <2> QED
      BY <2>5 DEF Rank, below, more
  <1>4. Rank(S, i) \in 1..Cardinality(S)
    BY <1>1, <1>2 DEF Rank
  <1> QED
    BY <1>3, <1>4

\* Every rank is taken.
LEMMA RankTaken ==
  ASSUME NEW S \in SUBSET Nat, IsFiniteSet(S), NEW k \in 1..Cardinality(S)
  PROVE  \E i \in S : Rank(S, i) = k
  <1> DEFINE f == [i \in S |-> Rank(S, i)]
             ranks == 1..Cardinality(S)
  <1>1. Cardinality(S) \in Nat
    BY FS_CardinalityType
  <1>2. IsFiniteSet(ranks) /\ Cardinality(ranks) = Cardinality(S)
    BY <1>1, FS_Interval
  <1>3. f \in [S -> ranks]
    BY RankGrows
  <1>4. ASSUME NEW i \in S, NEW m \in S, i # m PROVE f[i] # f[m]
    <2>1. i \in Nat /\ m \in Nat /\ (i < m \/ m < i)
      BY <1>4
    <2>2. Rank(S, i) \in Nat /\ Rank(S, m) \in Nat
      BY <1>1, RankGrows
    <2>3. Rank(S, i) # Rank(S, m)
      BY <2>1, <2>2, RankGrows
    <2> QED
      BY <2>3
  <1>5. f \in Injection(S, ranks)
    BY <1>3, <1>4 DEF Injection, IsInjective
  <1>6. f \in Surjection(S, ranks)
    BY <1>2, <1>5, FS_Injection
  <1> QED
    BY <1>6 DEF Surjection

\* A set has a last place.
LEMMA LastTaken ==
  ASSUME NEW S \in SUBSET Nat, IsFiniteSet(S), S # {}
  PROVE  \E i \in S : \A j \in S : j <= i
  <1>1. Cardinality(S) \in Nat /\ Cardinality(S) # 0
    BY FS_CardinalityType, FS_EmptySet
  <1>2. PICK i \in S : Rank(S, i) = Cardinality(S)
    BY <1>1, RankTaken
  <1>3. ASSUME NEW j \in S, i < j PROVE FALSE
    <2>1. Rank(S, i) < Rank(S, j) /\ Rank(S, j) \in 1..Cardinality(S)
      BY <1>3, RankGrows
    <2> QED
      BY <1>1, <1>2, <2>1
  <1>4. \A j \in S : j \in Nat
    OBVIOUS
  <1> QED
    BY <1>3, <1>4

Offers == Shapes \union {T!Absent}
Listing == [name : T!Names, shape : Shapes]

LEMMA PageIsListed ==
  ASSUME NEW page \in SUBSET DOMAIN Order,
         \A i \in page : meta[Order[i]] \in Shapes
  PROVE  /\ T!Listed(page) \in Seq(Listing)
         /\ \A k \in DOMAIN T!Listed(page) :
              T!Listed(page)[k].shape = meta[T!Listed(page)[k].name]
         /\ \A i \in page : \E k \in DOMAIN T!Listed(page) : T!Listed(page)[k].name = Order[i]
  <1>1. DOMAIN Order = 1..Len(Order) /\ Len(Order) \in Nat
    BY ServicesAssumption, LenProperties DEF T!TemplateConstants
  <1>2. page \in SUBSET Nat /\ IsFiniteSet(page)
    <2>1. IsFiniteSet(1..Len(Order)) /\ 1..Len(Order) \subseteq Nat
      BY <1>1, FS_Interval
    <2>2. page \in SUBSET (1..Len(Order))
      BY <1>1
    <2> QED
      BY <2>1, <2>2, FS_Subset
  <1> DEFINE n == Cardinality(page)
             at(k) == CHOOSE i \in page : Cardinality({j \in page : j <= i}) = k
             list == [k \in 1..n |-> [name |-> Order[at(k)], shape |-> meta[Order[at(k)]]]]
  <1>3. T!Listed(page) = list
    BY SameCardinality DEF T!Listed
  <1>4. n \in Nat
    BY <1>2, FS_CardinalityType
  <1>5. ASSUME NEW k \in 1..n PROVE at(k) \in page /\ Rank(page, at(k)) = k
    <2>1. \E i \in page : Cardinality({j \in page : j <= i}) = k
      BY <1>2, RankTaken DEF Rank
    <2> QED
      BY <2>1 DEF Rank
  <1>6. \A i \in page : Order[i] \in T!Names
    BY DEF T!Names
  <1>7. ASSUME NEW k \in 1..n PROVE list[k] \in Listing /\ list[k].shape = meta[list[k].name]
    <2>1. at(k) \in page
      BY <1>5
    <2>2. Order[at(k)] \in T!Names /\ meta[Order[at(k)]] \in Shapes
      BY <1>6, <2>1
    <2>3. list[k] = [name |-> Order[at(k)], shape |-> meta[Order[at(k)]]]
      OBVIOUS
    <2> HIDE DEF at, list
    <2> QED
      BY <2>2, <2>3 DEF Listing
  <1>8. ASSUME NEW i \in page PROVE \E k \in 1..n : list[k].name = Order[i]
    <2> DEFINE k == Rank(page, i)
    <2>1. k \in 1..n
      BY <1>2, RankGrows
    <2>2. at(k) \in page /\ Rank(page, at(k)) = k
      BY <1>5, <2>1
    <2>3. at(k) = i
      <3>1. at(k) \in Nat /\ i \in Nat /\ Rank(page, i) \in Nat
        BY <1>2, <1>4, <2>1, <2>2
      <3>2. ~(at(k) < i) /\ ~(i < at(k))
        BY <1>2, <2>2, <3>1, RankGrows
      <3> QED
        BY <3>1, <3>2
    <2> QED
      BY <2>1, <2>3
  <1>9. DOMAIN list = 1..n /\ list = [k \in 1..n |-> list[k]]
    OBVIOUS
  <1> HIDE DEF list, at
  <1>10. list \in [1..n -> Listing]
    BY <1>7, <1>9
  <1>11. list \in Seq(Listing)
    BY <1>4, <1>10
  <1> QED
    BY <1>3, <1>7, <1>8, <1>9, <1>11

\* A page is the first places that are left and have a template; with a page
\* that is empty nothing is left.
LEMMA PagesCover ==
  ASSUME meta \in [T!Names -> Offers], sync.cursor \in Nat
  PROVE  /\ T!Rest \in SUBSET DOMAIN Order /\ T!Page \subseteq T!Rest
         /\ \A i \in T!Rest : meta[Order[i]] \in Shapes
         /\ T!Page # {} =>
              /\ T!LastOf(T!Page) \in T!Page
              /\ \A i \in T!Rest : i <= T!LastOf(T!Page) => i \in T!Page
  <1>1. DOMAIN Order = 1..Len(Order) /\ Len(Order) \in Nat
    BY ServicesAssumption, LenProperties DEF T!TemplateConstants
  <1>2. T!Rest \in SUBSET DOMAIN Order /\ T!Page \subseteq T!Rest
    BY DEF T!Rest, T!Page
  <1>3. \A i \in T!Rest : meta[Order[i]] \in Shapes
    BY DEF T!Rest, T!Names, Offers
  <1>4. T!Rest \in SUBSET Nat /\ IsFiniteSet(T!Rest)
    <2>1. IsFiniteSet(1..Len(Order)) /\ 1..Len(Order) \subseteq Nat
      BY <1>1, FS_Interval
    <2>2. T!Rest \in SUBSET (1..Len(Order))
      BY <1>1, <1>2
    <2> QED
      BY <2>1, <2>2, FS_Subset
  <1>5. T!Page = {i \in T!Rest : Rank(T!Rest, i) <= PageSize}
    BY SameCardinality DEF T!Page, Rank
  <1>6. ASSUME T!Page # {}
        PROVE  /\ T!LastOf(T!Page) \in T!Page
               /\ \A i \in T!Rest : i <= T!LastOf(T!Page) => i \in T!Page
    <2>1. T!Page \in SUBSET Nat /\ IsFiniteSet(T!Page)
      BY <1>2, <1>4, FS_Subset
    <2>2. \E i \in T!Page : \A j \in T!Page : j <= i
      BY <1>6, <2>1, LastTaken
    <2>3. T!LastOf(T!Page) \in T!Page
      BY <2>2 DEF T!LastOf
    <2> DEFINE l == T!LastOf(T!Page)
    <2> HIDE DEF l
    <2>4. l \in T!Rest /\ Rank(T!Rest, l) <= PageSize
      BY <1>5, <2>3 DEF l
    <2>5. ASSUME NEW i \in T!Rest, i <= l PROVE i \in T!Page
      <3>1. Rank(T!Rest, i) \in 1..Cardinality(T!Rest) /\ Rank(T!Rest, l) \in 1..Cardinality(T!Rest)
        BY <1>4, <2>4, RankGrows
      <3>2. Cardinality(T!Rest) \in Nat /\ PageSize \in Nat
        BY <1>4, FS_CardinalityType, ServicesAssumption DEF T!TemplateConstants
      <3>3. i \in Nat /\ l \in Nat
        BY <1>4, <2>4
      <3>4. CASE i = l
        BY <1>5, <2>4, <3>4
      <3>5. CASE i < l
        <4>1. Rank(T!Rest, i) < Rank(T!Rest, l)
          BY <1>4, <2>4, <3>5, RankGrows
        <4>2. Rank(T!Rest, i) <= PageSize
          BY <2>4, <3>1, <3>2, <4>1
        <4> QED
          BY <1>5, <4>2
      <3> QED
        BY <2>5, <3>3, <3>4, <3>5
    <2> QED
      BY <2>3, <2>5 DEF l
  <1> QED
    BY <1>2, <1>3, <1>6

-----------------------------------------------------------------------------
(* The templates: types.                                                     *)

SyncFits(s) ==
  /\ DOMAIN s = {"at", "cursor", "attempt", "got", "row", "clean"}
  /\ s.at \in {"off", "fetch", "row", "count", "default"}
  /\ s.cursor \in Nat /\ s.row \in Nat \ {0}
  /\ s.got \in Seq(Listing)
  /\ s.at = "fetch" => s.row = 1

SendRecord ==
  [at : {"idle", "ready", "record", "over"}, name : T!Names \union {Order[1]}, row : Offers,
   filled : SUBSET T!Keys, trust : Offers]

TemplateTypes ==
  /\ meta \in [T!Names -> Offers] /\ table \in [T!Names -> Offers]
  /\ DOMAIN mapping = T!Names /\ DOMAIN chosen = T!Names
  /\ SyncFits(sync)
  /\ sync.at \in {"count", "default"} => sync.row \in DOMAIN sync.got
  /\ heard \in [T!Names -> SUBSET Offers]
  /\ DOMAIN save = Saves
  /\ \A r \in Saves :
       /\ DOMAIN save[r] = {"at", "name", "rows", "seen"}
       /\ save[r].at \in {"delete", "commit"} => save[r].rows \in Choices
  /\ send \in [Sends -> SendRecord]
  /\ \A r \in Sends : send[r].at = "ready" => send[r].name \in T!Names

LEMMA EndTypes ==
  ASSUME NEW b, T!Ends(b)
  PROVE  SyncFits(sync') /\ sync'.at = "off" /\ sync'.clean = b
  <1>1. << >> \in Seq(Listing)
    BY EmptySeq
  <1> QED
    BY <1>1 DEF T!Ends, T!Off, SyncFits

LEMMA BeginTypes ==
  ASSUME T!Begins
  PROVE  SyncFits(sync') /\ sync'.at = "fetch" /\ sync'.cursor = 0 /\ sync'.got = << >>
  <1>1. << >> \in Seq(Listing)
    BY EmptySeq
  <1> QED
    BY <1>1 DEF T!Begins, T!Off, SyncFits

LEMMA NextRowTypes ==
  ASSUME SyncFits(sync), NEW b, T!NextRow(b)
  PROVE  /\ SyncFits(sync') /\ sync'.at = "row" /\ sync'.row = sync.row + 1
         /\ sync'.got = sync.got /\ sync'.clean = b
  BY DEF SyncFits, T!NextRow

LEMMA CurrentListed ==
  ASSUME TemplateTypes, sync.row <= Len(sync.got) \/ sync.at \in {"count", "default"}
  PROVE  /\ sync.row \in DOMAIN sync.got
         /\ T!Current = sync.got[sync.row] /\ T!Current \in Listing
         /\ T!Current.name \in T!Names /\ T!Current.shape \in Shapes
  <1>1. sync.got \in Seq(Listing) /\ sync.row \in Nat \ {0}
    BY DEF TemplateTypes, SyncFits
  <1>2. sync.row \in DOMAIN sync.got
    BY <1>1, LenProperties DEF TemplateTypes
  <1>3. T!Current \in Listing
    BY <1>1, <1>2, LenProperties, ElementOfSeq DEF T!Current
  <1> QED
    BY <1>2, <1>3 DEF T!Current, Listing

SaveFits(s) ==
  /\ DOMAIN s = {"at", "name", "rows", "seen"}
  /\ s.at \in {"delete", "commit"} => s.rows \in Choices

LEMMA PageTypes ==
  ASSUME TemplateTypes, T!FetchPage
  PROVE  SyncFits(sync') /\ sync'.at \in {"fetch", "row"}
  <1>1. SyncFits(sync)
    BY DEF TemplateTypes
  <1>2. /\ T!Page \in SUBSET DOMAIN Order
        /\ \A i \in T!Page : meta[Order[i]] \in Shapes
        /\ T!Page # {} => T!LastOf(T!Page) \in T!Page
    BY <1>1, PagesCover DEF TemplateTypes, SyncFits
  <1>3. T!Listed(T!Page) \in Seq(Listing)
    BY <1>2, PageIsListed
  <1>4. sync.got \o T!Listed(T!Page) \in Seq(Listing)
    BY <1>1, <1>3, ConcatProperties DEF SyncFits
  <1>5. DOMAIN Order \subseteq Nat
    BY ServicesAssumption, LenProperties DEF T!TemplateConstants
  <1>6. T!Page # {} => T!LastOf(T!Page) \in Nat
    BY <1>2, <1>5
  <1> QED
    BY <1>1, <1>4, <1>6 DEF SyncFits, T!FetchPage, T!At

LEMMA TemplateTypesStep == TemplateTypes /\ T!Next => TemplateTypes'
  <1> SUFFICES ASSUME TemplateTypes, T!Next PROVE TemplateTypes'
    OBVIOUS
  <1>t. /\ meta \in [T!Names -> Offers] /\ table \in [T!Names -> Offers]
        /\ DOMAIN mapping = T!Names /\ DOMAIN chosen = T!Names /\ SyncFits(sync)
        /\ heard \in [T!Names -> SUBSET Offers] /\ DOMAIN save = Saves
        /\ \A r \in Saves : SaveFits(save[r])
    BY DEF TemplateTypes, SaveFits
  <1>r. \A n \in T!Names : meta[n] \in Offers
    BY <1>t
  <1>1. ASSUME T!Begins, UNCHANGED <<meta, table, mapping, save, send, chosen>>
        PROVE  TemplateTypes'
    <2>1. heard' \in [T!Names -> SUBSET Offers]
      BY <1>1, <1>r DEF T!Begins
    <2> QED
      BY <1>1, <1>t, <2>1, BeginTypes DEF TemplateTypes
  <1>2. ASSUME NEW b, T!Ends(b), UNCHANGED <<meta, table, mapping, save, send, chosen, heard>>
        PROVE  TemplateTypes'
    BY <1>2, <1>t, EndTypes DEF TemplateTypes
  <1>3. ASSUME NEW b, T!NextRow(b), UNCHANGED <<meta, table, save, send, chosen, heard>>,
               DOMAIN mapping' = DOMAIN mapping
        PROVE  TemplateTypes'
    BY <1>3, <1>t, NextRowTypes DEF TemplateTypes
  <1>4. ASSUME UNCHANGED <<meta, table, mapping, sync, save, send, chosen, heard>>
        PROVE  TemplateTypes'
    BY <1>4 DEF TemplateTypes
  <1>5. ASSUME NEW r \in Asks, T!Ask(r) PROVE TemplateTypes'
    BY <1>1, <1>4, <1>5 DEF T!Ask
  <1>6. CASE T!Timer
    BY <1>1, <1>4, <1>6 DEF T!Timer
  <1>7. CASE T!FetchPage
    BY <1>7, <1>t, PageTypes DEF T!FetchPage, T!history, TemplateTypes
  <1>8. CASE T!FetchFails
    <2>1. CASE sync' = [sync EXCEPT !.attempt = @ + 1]
      <3>1. SyncFits(sync') /\ sync'.at = "fetch"
        BY <1>8, <1>t, <2>1 DEF T!FetchFails, T!At, SyncFits
      <3> QED
        BY <1>8, <1>t, <3>1 DEF T!FetchFails, T!history, TemplateTypes
    <2>2. CASE T!Ends(FALSE)
      BY <1>2, <1>8, <2>2 DEF T!FetchFails, T!history
    <2> QED
      BY <1>8, <2>1, <2>2 DEF T!FetchFails
  <1>9. CASE T!Upsert
    <2>1. /\ sync.row \in DOMAIN sync.got /\ T!Current.name \in T!Names
          /\ T!Current.shape \in Offers
      BY <1>9, CurrentListed DEF T!Upsert, Offers
    <2>2. table' \in [T!Names -> Offers]
      BY <1>9, <1>t, <2>1 DEF T!Upsert
    <2>3. SyncFits(sync') /\ sync'.row = sync.row /\ sync'.got = sync.got
      BY <1>9, <1>t DEF T!Upsert, SyncFits
    <2> QED
      BY <1>9, <1>t, <2>1, <2>2, <2>3 DEF T!Upsert, T!history, TemplateTypes
  <1>10. CASE T!Count
    <2>1. CASE sync' = [sync EXCEPT !.at = "default"]
      <3>1. SyncFits(sync') /\ sync'.row = sync.row /\ sync'.got = sync.got
        BY <1>t, <2>1 DEF SyncFits
      <3>2. sync.row \in DOMAIN sync.got
        BY <1>10 DEF T!Count, T!At, TemplateTypes
      <3> QED
        BY <1>10, <1>t, <3>1, <3>2 DEF T!Count, T!history, TemplateTypes
    <2>2. CASE T!NextRow(sync.clean)
      BY <1>3, <1>10, <2>2 DEF T!Count, T!history
    <2> QED
      BY <1>10, <2>1, <2>2 DEF T!Count
  <1>11. CASE T!Default
    BY <1>3, <1>11 DEF T!Default, T!history
  <1>12. CASE T!RowFails
    BY <1>3, <1>12 DEF T!RowFails, T!history
  <1>13. CASE T!Finish
    BY <1>2, <1>13 DEF T!Finish, T!history
  <1>14. ASSUME UNCHANGED <<meta, table, sync, send, heard>>, DOMAIN mapping' = DOMAIN mapping,
                DOMAIN chosen' = DOMAIN chosen,
                DOMAIN save' = Saves, \A r \in Saves : SaveFits(save'[r])
         PROVE  TemplateTypes'
    BY <1>14 DEF TemplateTypes, SaveFits
  <1>s. SaveFits(T!NotSaving) /\ SaveFits([T!NotSaving EXCEPT !.at = "done"])
    BY DEF SaveFits, T!NotSaving
  <1>15. ASSUME NEW r \in Saves, NEW n \in T!Names, NEW rows \in Choices, T!AskSave(r, n, rows)
         PROVE  TemplateTypes'
    <2>1. SaveFits([T!NotSaving EXCEPT !.at = "delete", !.name = n, !.rows = rows])
      BY DEF SaveFits, T!NotSaving
    <2>2. DOMAIN save' = Saves /\ \A x \in Saves : SaveFits(save'[x])
      BY <1>15, <1>t, <2>1 DEF T!AskSave
    <2> QED
      BY <1>14, <1>15, <2>2 DEF T!AskSave, T!history
  <1>16. ASSUME NEW r \in Saves, T!DeleteRows(r) PROVE TemplateTypes'
    <2>1. SaveFits([save[r] EXCEPT !.at = "commit", !.seen = mapping[save[r].name]])
      BY <1>16, <1>t DEF T!DeleteRows, SaveFits
    <2>2. DOMAIN save' = Saves /\ \A x \in Saves : SaveFits(save'[x])
      BY <1>16, <1>t, <2>1 DEF T!DeleteRows
    <2> QED
      BY <1>14, <1>16, <2>2 DEF T!DeleteRows, T!history
  <1>17. ASSUME NEW r \in Saves, T!CommitRows(r) PROVE TemplateTypes'
    <2>1. DOMAIN save' = Saves /\ \A x \in Saves : SaveFits(save'[x])
      BY <1>17, <1>t, <1>s DEF T!CommitRows
    <2>2. DOMAIN mapping' = DOMAIN mapping /\ DOMAIN chosen' = DOMAIN chosen
      BY <1>17 DEF T!CommitRows
    <2> QED
      BY <1>14, <1>17, <2>1, <2>2 DEF T!CommitRows
  <1>18. ASSUME UNCHANGED <<meta, table, sync, mapping, chosen, heard, save>>,
                send' \in [Sends -> SendRecord],
                \A r \in Sends : send'[r].at = "ready" => send'[r].name \in T!Names
         PROVE  TemplateTypes'
    BY <1>18 DEF TemplateTypes
  <1>o. send \in [Sends -> SendRecord] /\ \A r \in Sends : send[r].at = "ready" => send[r].name \in T!Names
    BY DEF TemplateTypes
  <1>p. ASSUME NEW a \in {"idle", "record", "over"}
        PROVE  /\ [T!NotSending EXCEPT !.at = a] \in SendRecord
               /\ [T!NotSending EXCEPT !.at = a].at = a
    BY DEF T!NotSending, SendRecord, Offers
  <1>19. ASSUME NEW r \in Sends, NEW n \in T!Names, NEW filled \in Fillings, T!AskSend(r, n, filled)
         PROVE  TemplateTypes'
    <2> DEFINE trust == IF T!At("off") /\ sync.clean /\ n \notin changed THEN meta[n] ELSE T!Absent
               s == [at |-> "ready", name |-> n, row |-> table[n],
                     filled |-> filled \intersect table[n].keys, trust |-> trust]
    <2>1. table[n] \in Shapes
      <3>1. table[n] \in Offers /\ table[n] # T!Absent
        BY <1>19, <1>t DEF T!AskSend, T!Sendable, T!Absent
      <3> QED
        BY <3>1 DEF Offers
    <2>2. table[n].keys \subseteq T!Keys
      BY <2>1 DEF T!Keys
    <2>3. trust \in Offers
      BY <1>r DEF Offers
    <2>4. send' = [send EXCEPT ![r] = s]
      BY <1>19 DEF T!AskSend
    <2>5. s \in SendRecord /\ s.name \in T!Names
      <3> HIDE DEF trust
      <3> QED
        BY <2>1, <2>2, <2>3 DEF SendRecord, Offers
    <2> HIDE DEF s
    <2> QED
      BY <1>o, <1>18, <1>19, <2>4, <2>5 DEF T!AskSend, T!history
  <1>20. ASSUME NEW r \in Sends, T!Deliver(r) PROVE TemplateTypes'
    <2>1. PICK a \in {"record", "over"} : send' = [send EXCEPT ![r] = [T!NotSending EXCEPT !.at = a]]
      BY <1>20 DEF T!Deliver
    <2> QED
      BY <1>o, <1>p, <1>18, <1>20, <2>1 DEF T!Deliver
  <1>21. ASSUME NEW r \in Sends, T!Record(r) PROVE TemplateTypes'
    <2>1. send' = [send EXCEPT ![r].at = "over"]
      BY <1>21 DEF T!Record
    <2>2. send' \in [Sends -> SendRecord]
      BY <1>o, <2>1 DEF SendRecord
    <2> QED
      BY <1>o, <1>18, <1>21, <2>1, <2>2 DEF T!Record, T!history, SendRecord
  <1>22. ASSUME NEW n \in T!Names, NEW shape \in Shapes \union {T!Absent}, T!Change(n, shape)
         PROVE  TemplateTypes'
    <2>1. meta' \in [T!Names -> Offers] /\ heard' \in [T!Names -> SUBSET Offers]
      BY <1>22, <1>t DEF T!Change, Offers
    <2> QED
      BY <1>22, <2>1 DEF T!Change, TemplateTypes
  <1>23. CASE T!RequestFails
    <2>1. ASSUME NEW r \in Saves, UNCHANGED send,
                 save' = [save EXCEPT ![r] = [T!NotSaving EXCEPT !.at = "done"]]
          PROVE  TemplateTypes'
      <3>1. DOMAIN save' = Saves /\ \A x \in Saves : SaveFits(save'[x])
        BY <1>t, <1>s, <2>1
      <3> QED
        BY <1>14, <1>23, <2>1, <3>1 DEF T!RequestFails, T!history
    <2>2. ASSUME NEW r \in Sends, UNCHANGED save,
                 send' = [send EXCEPT ![r] = [T!NotSending EXCEPT !.at = "over"]]
          PROVE  TemplateTypes'
      BY <1>o, <1>p, <1>18, <1>23, <2>2 DEF T!RequestFails, T!history
    <2> QED
      BY <1>23, <2>1, <2>2 DEF T!RequestFails
  <1>24. CASE T!Restart
    <2>1. T!NotSending = [T!NotSending EXCEPT !.at = "idle"]
      BY DEF T!NotSending
    <2>2. send' \in [Sends -> SendRecord] /\ \A r \in Sends : send'[r].at = "idle"
      BY <1>24, <1>p, <2>1 DEF T!Restart
    <2>3. DOMAIN save' = Saves /\ \A x \in Saves : SaveFits(save'[x])
      BY <1>24, <1>s DEF T!Restart
    <2>4. SyncFits(sync') /\ sync'.at = "off"
      BY <1>24, EndTypes DEF T!Restart
    <2> QED
      BY <1>24, <1>t, <2>2, <2>3, <2>4 DEF T!Restart, T!history, TemplateTypes, SaveFits
  <1> QED
    BY <1>5, <1>6, <1>7, <1>8, <1>9, <1>10, <1>11, <1>12, <1>13, <1>15, <1>16, <1>17, <1>19,
       <1>20, <1>21, <1>22, <1>23, <1>24 DEF T!Next

-----------------------------------------------------------------------------
(* The templates: what a sync has heard, listed and written.                 *)

\* What the provider has now was heard of by the sync that runs, and it is all
\* that was heard of a name that was not changed.
HeardInv ==
  /\ sync.at # "off" => \A n \in T!Names : meta[n] \in heard[n]
  /\ (sync.at # "off" \/ sync.clean) => \A n \in T!Names \ changed : heard[n] = {meta[n]}

Gone(n) == T!Absent \in heard[n]
Fetched(n) == \E k \in DOMAIN sync.got : sync.got[k].name = n
Recent(k) == table[sync.got[k].name] \in heard[sync.got[k].name]
Written(k) == k < sync.row \/ (k = sync.row /\ sync.at \in {"count", "default"})

\* The sync has fetched the templates up to its cursor, and all of them before it
\* writes; what it has fetched and what it has written without a failure was heard.
ListInv ==
  /\ sync.at # "off" => \A k \in DOMAIN sync.got : sync.got[k].shape \in heard[sync.got[k].name]
  /\ sync.at = "fetch" =>
       \A i \in DOMAIN Order : i <= sync.cursor => Gone(Order[i]) \/ Fetched(Order[i])
  /\ sync.at \in {"row", "count", "default"} =>
       /\ \A n \in T!Names : Gone(n) \/ Fetched(n)
       /\ sync.clean => \A k \in DOMAIN sync.got : Written(k) => Recent(k)
  /\ T!SyncedIsRecent

LEMMA HeardStep == TemplateTypes /\ HeardInv /\ T!Next => HeardInv'
  <1> SUFFICES ASSUME TemplateTypes, HeardInv, T!Next PROVE HeardInv'
    OBVIOUS
  <1>1. ASSUME T!Begins, UNCHANGED meta PROVE HeardInv'
    BY <1>1 DEF T!Begins, HeardInv
  <1>2. ASSUME UNCHANGED <<meta, heard, changed>>, sync'.at # "off" => sync.at # "off",
               sync'.at = "off" /\ sync'.clean => sync.at # "off" \/ sync.clean
        PROVE  HeardInv'
    BY <1>2 DEF HeardInv
  <1>3. ASSUME NEW r \in Asks, T!Ask(r) PROVE HeardInv'
    BY <1>1, <1>2, <1>3 DEF T!Ask
  <1>4. CASE T!Timer
    BY <1>1, <1>2, <1>4 DEF T!Timer
  <1>5. CASE T!FetchPage
    BY <1>2, <1>5, PageTypes DEF T!FetchPage, T!At, T!history
  <1>6. CASE T!FetchFails
    <2>1. sync.at = "fetch" /\ UNCHANGED <<meta, heard, changed>>
      BY <1>6 DEF T!FetchFails, T!At, T!history
    <2> QED
      BY <1>2, <2>1
  <1>7. CASE T!Upsert \/ T!Count \/ T!Default \/ T!RowFails \/ T!Finish
    <2>1. sync.at # "off" /\ UNCHANGED <<meta, heard, changed>>
      BY <1>7 DEF T!Upsert, T!Count, T!Default, T!RowFails, T!Finish, T!At, T!history
    <2> QED
      BY <1>2, <2>1
  <1>8. ASSUME UNCHANGED <<meta, heard, changed, sync>> PROVE HeardInv'
    BY <1>2, <1>8
  <1>9. ASSUME NEW n \in T!Names, NEW shape \in Shapes \union {T!Absent}, T!Change(n, shape)
        PROVE  HeardInv'
    BY <1>9 DEF T!Change, T!At, HeardInv, TemplateTypes
  <1>10. CASE T!Restart
    <2>1. sync'.at = "off" /\ sync'.clean = FALSE
      BY <1>10, EndTypes DEF T!Restart
    <2> QED
      BY <1>2, <1>10, <2>1 DEF T!Restart, T!history
  <1> QED
    BY <1>3, <1>4, <1>5, <1>6, <1>7, <1>8, <1>9, <1>10
    DEF T!Next, T!AskSave, T!DeleteRows, T!CommitRows, T!AskSend, T!Deliver, T!Record,
        T!RequestFails, T!history

\* A page lists the templates that the provider has between the old and the new
\* cursor, and the last page all that are left.
LEMMA ListingStep ==
  ASSUME TemplateTypes, HeardInv, ListInv, T!FetchPage
  PROVE  ListInv'
  <1>1. /\ SyncFits(sync) /\ sync.at = "fetch" /\ meta \in [T!Names -> Offers]
        /\ sync.cursor \in Nat
    BY DEF T!FetchPage, T!At, TemplateTypes, SyncFits
  <1> DEFINE page == T!Page
             more == T!Listed(page)
  <1>2. /\ T!Rest \in SUBSET DOMAIN Order /\ page \subseteq T!Rest
        /\ \A i \in T!Rest : meta[Order[i]] \in Shapes
        /\ page # {} => \A i \in T!Rest : i <= T!LastOf(page) => i \in page
    BY <1>1, PagesCover
  <1>3. /\ more \in Seq(Listing)
        /\ \A k \in DOMAIN more : more[k].shape = meta[more[k].name]
        /\ \A i \in page : \E k \in DOMAIN more : more[k].name = Order[i]
    BY <1>2, PageIsListed
  <1>4. /\ sync'.got = sync.got \o more
        /\ \/ page # {} /\ sync'.cursor = T!LastOf(page) /\ sync'.at = "fetch"
           \/ page = T!Rest /\ sync'.at = "row" /\ sync'.row = sync.row
        /\ heard' = heard /\ table' = table
    BY <1>1 DEF T!FetchPage, T!history, SyncFits
  <1> HIDE DEF page, more
  <1> DEFINE l == Len(sync.got)
             m == Len(more)
  <1>5. /\ l \in Nat /\ m \in Nat /\ DOMAIN sync.got = 1..l /\ DOMAIN more = 1..m
        /\ DOMAIN sync'.got = 1..(l + m)
        /\ \A k \in 1..(l + m) : sync'.got[k] = IF k <= l THEN sync.got[k] ELSE more[k - l]
    <2>1. sync.got \in Seq(Listing)
      BY <1>1 DEF SyncFits
    <2>2. sync.got \o more \in Seq(Listing)
      BY <1>3, <2>1, ConcatProperties
    <2> QED
      BY <1>3, <1>4, <2>1, <2>2, ConcatProperties, LenProperties
  <1> HIDE DEF l, m
  <1>6. ASSUME NEW k \in DOMAIN sync'.got
        PROVE  sync'.got[k].shape \in heard[sync'.got[k].name]
    <2>1. CASE k <= l
      <3>1. k \in DOMAIN sync.got /\ sync'.got[k] = sync.got[k]
        BY <1>5, <2>1
      <3> QED
        BY <1>1, <3>1 DEF ListInv
    <2>2. CASE ~(k <= l)
      <3>1. k - l \in DOMAIN more /\ sync'.got[k] = more[k - l]
        BY <1>5, <2>2
      <3>2. more[k - l] \in Listing
        BY <1>3, <1>5, <3>1, ElementOfSeq
      <3>3. more[k - l].name \in T!Names
        BY <3>2 DEF Listing
      <3> QED
        BY <1>1, <1>3, <3>1, <3>3 DEF HeardInv
    <2> QED
      BY <2>1, <2>2
  <1>7. ASSUME NEW n, Fetched(n) PROVE Fetched(n)'
    <2>1. PICK k \in DOMAIN sync.got : sync.got[k].name = n
      BY <1>7 DEF Fetched
    <2>2. k \in DOMAIN sync'.got /\ sync'.got[k] = sync.got[k]
      BY <1>5, <2>1
    <2> QED
      BY <2>1, <2>2 DEF Fetched
  <1>8. ASSUME NEW i \in page PROVE Fetched(Order[i])'
    <2>1. PICK k \in DOMAIN more : more[k].name = Order[i]
      BY <1>3
    <2>2. l + k \in DOMAIN sync'.got /\ ~(l + k <= l) /\ (l + k) - l = k
      BY <1>5, <2>1
    <2>3. sync'.got[l + k] = more[k]
      BY <1>5, <2>2
    <2> QED
      BY <2>1, <2>2, <2>3 DEF Fetched
  <1>9. ASSUME NEW i \in DOMAIN Order, i > sync.cursor, i \notin T!Rest PROVE Gone(Order[i])
    <2>1. meta[Order[i]] = T!Absent
      BY <1>9 DEF T!Rest
    <2>2. Order[i] \in T!Names
      BY DEF T!Names
    <2> QED
      BY <1>1, <2>1, <2>2 DEF HeardInv, Gone
  <1>n. \A i \in DOMAIN Order : i \in Nat
    BY ServicesAssumption, LenProperties DEF T!TemplateConstants
  <1>10. ASSUME NEW i \in DOMAIN Order, i <= sync.cursor PROVE Gone(Order[i]) \/ Fetched(Order[i])'
    BY <1>1, <1>7, <1>10 DEF ListInv
  <1>11. CASE sync'.at = "fetch"
    <2>1. page # {} /\ sync'.cursor = T!LastOf(page)
      BY <1>4, <1>11
    <2> SUFFICES ASSUME NEW i \in DOMAIN Order, i <= T!LastOf(page)
                 PROVE  Gone(Order[i]) \/ Fetched(Order[i])'
      BY <1>4, <1>6, <1>11, <2>1 DEF ListInv, Gone, T!SyncedIsRecent, T!At
    <2>2. i \in T!Rest => i \in page
      BY <1>2, <2>1
    <2> QED
      BY <1>1, <1>n, <1>8, <1>9, <1>10, <2>2
  <1>12. CASE sync'.at = "row"
    <2>1. page = T!Rest
      BY <1>4, <1>12
    <2>2. ASSUME NEW n \in T!Names PROVE Gone(n) \/ Fetched(n)'
      <3>1. PICK i \in DOMAIN Order : Order[i] = n
        BY DEF T!Names
      <3> QED
        BY <1>1, <1>n, <1>8, <1>9, <1>10, <2>1, <3>1
    <2>3. \A k \in DOMAIN sync'.got : ~Written(k)'
      BY <1>1, <1>4, <1>5, <1>12, <2>1 DEF Written, SyncFits
    <2> QED
      BY <1>4, <1>6, <1>12, <2>2, <2>3 DEF ListInv, Gone, T!SyncedIsRecent, T!At
  <1> QED
    BY <1>4, <1>11, <1>12

LEMMA ListStep == TemplateTypes /\ HeardInv /\ ListInv /\ T!Next => ListInv'
  <1> SUFFICES ASSUME TemplateTypes, HeardInv, ListInv, T!Next PROVE ListInv'
    OBVIOUS
  <1>t. /\ SyncFits(sync) /\ table \in [T!Names -> Offers] /\ heard \in [T!Names -> SUBSET Offers]
        /\ sync.got \in Seq(Listing) /\ sync.row \in Nat
    BY DEF TemplateTypes, SyncFits
  <1>n. /\ \A i \in DOMAIN Order : i \in Nat /\ i > 0
        /\ DOMAIN sync.got = 1..Len(sync.got) /\ Len(sync.got) \in Nat
        /\ \A k \in DOMAIN sync.got : k \in Nat /\ sync.got[k].name \in T!Names
    <2>1. \A i \in DOMAIN Order : i \in Nat /\ i > 0
      BY ServicesAssumption, LenProperties DEF T!TemplateConstants
    <2>2. DOMAIN sync.got = 1..Len(sync.got) /\ Len(sync.got) \in Nat
      BY <1>t, LenProperties
    <2>3. \A k \in DOMAIN sync.got : sync.got[k] \in Listing
      BY <1>t, <2>2, ElementOfSeq
    <2> QED
      BY <2>1, <2>2, <2>3 DEF Listing
  <1> USE DEF T!At
  <1>1. ASSUME T!Begins PROVE ListInv'
    BY <1>1, <1>n, BeginTypes DEF ListInv, T!SyncedIsRecent
  <1>2. ASSUME UNCHANGED <<sync, heard, table>> PROVE ListInv'
    BY <1>2 DEF ListInv, T!SyncedIsRecent, Gone, Fetched, Written, Recent
  <1>3. ASSUME T!Ends(FALSE) PROVE ListInv'
    BY <1>3, EndTypes DEF ListInv, T!SyncedIsRecent
  <1>4. ASSUME NEW b, T!NextRow(b), UNCHANGED <<heard, table>>, sync.at \in {"row", "count", "default"},
               b => sync.clean /\ sync.at \in {"count", "default"}
        PROVE  ListInv'
    <2>1. /\ sync'.at = "row" /\ sync'.row = sync.row + 1
          /\ sync'.got = sync.got /\ sync'.clean = b
      BY <1>4, <1>t, NextRowTypes
    <2>2. ASSUME b, NEW k \in DOMAIN sync.got, Written(k)' PROVE Written(k)
      <3>1. k < sync.row + 1 /\ k \in Nat
        BY <1>n, <2>1, <2>2 DEF Written
      <3> QED
        BY <1>4, <1>t, <2>2, <3>1 DEF Written
    <2> QED
      BY <1>4, <2>1, <2>2 DEF ListInv, T!SyncedIsRecent, Gone, Fetched, Recent
  <1>5. ASSUME NEW r \in Asks, T!Ask(r) PROVE ListInv'
    BY <1>1, <1>2, <1>5 DEF T!Ask
  <1>6. CASE T!Timer
    BY <1>1, <1>2, <1>6 DEF T!Timer
  <1>7. CASE T!FetchFails
    <2>1. CASE sync' = [sync EXCEPT !.attempt = @ + 1]
      <3>1. /\ sync'.at = sync.at /\ sync'.row = sync.row /\ sync'.got = sync.got
            /\ sync'.clean = sync.clean /\ sync'.cursor = sync.cursor
        BY <1>t, <2>1 DEF SyncFits
      <3>2. UNCHANGED <<heard, table>>
        BY <1>7 DEF T!FetchFails, T!history
      <3> QED
        BY <3>1, <3>2 DEF ListInv, T!SyncedIsRecent, Gone, Fetched, Written, Recent
    <2> QED
      BY <1>3, <1>7, <2>1 DEF T!FetchFails
  <1>8. CASE T!Upsert
    <2> DEFINE n == T!Current.name
    <2>1. /\ sync.row \in DOMAIN sync.got /\ T!Current = sync.got[sync.row] /\ n \in T!Names
      BY <1>8, CurrentListed DEF T!Upsert
    <2>2. /\ sync.at = "row" /\ sync'.at = "count" /\ sync'.row = sync.row
          /\ sync'.got = sync.got /\ sync'.clean = sync.clean
          /\ heard' = heard /\ table' = [table EXCEPT ![n] = T!Current.shape]
      BY <1>8, <1>t DEF T!Upsert, T!history, SyncFits
    <2> HIDE DEF n
    <2>3. T!Current.shape \in heard[n]
      BY <2>1, <2>2 DEF ListInv, n
    <2>4. ASSUME sync.clean, NEW k \in DOMAIN sync.got, Written(k)' PROVE Recent(k)'
      <3>1. CASE sync.got[k].name = n
        BY <1>t, <2>1, <2>2, <2>3, <3>1 DEF Recent
      <3>2. CASE sync.got[k].name # n
        <4>1. k # sync.row
          BY <2>1, <3>2 DEF n
        <4>2. Written(k)
          BY <2>2, <2>4, <4>1 DEF Written
        <4>3. Recent(k)
          BY <2>2, <2>4, <4>2 DEF ListInv
        <4> QED
          BY <1>t, <1>n, <2>2, <3>2, <4>3 DEF Recent
      <3> QED
        BY <3>1, <3>2
    <2> QED
      BY <2>2, <2>4 DEF ListInv, T!SyncedIsRecent, Gone, Fetched
  <1>9. CASE T!Count
    <2>1. CASE sync' = [sync EXCEPT !.at = "default"]
      <3>1. /\ sync.at = "count" /\ sync'.at = "default" /\ sync'.row = sync.row
            /\ sync'.got = sync.got /\ sync'.clean = sync.clean /\ UNCHANGED <<heard, table>>
        BY <1>9, <1>t, <2>1 DEF T!Count, T!history, SyncFits
      <3> QED
        BY <3>1 DEF ListInv, T!SyncedIsRecent, Gone, Fetched, Written, Recent
    <2> QED
      BY <1>4, <1>9, <2>1 DEF T!Count, T!history
  <1>10. CASE T!Default
    BY <1>4, <1>10 DEF T!Default, T!history
  <1>11. CASE T!RowFails
    <2>1. T!NextRow(FALSE) /\ UNCHANGED <<heard, table>> /\ sync.at \in {"row", "count", "default"}
      BY <1>11 DEF T!RowFails, T!history
    <2> QED
      BY <1>4, <2>1
  <1>12. CASE T!Finish
    <2>1. /\ sync.at = "row" /\ sync.row > Len(sync.got) /\ UNCHANGED <<heard, table>>
          /\ sync'.at = "off" /\ sync'.clean = sync.clean
      BY <1>12, EndTypes DEF T!Finish, T!history
    <2>2. ASSUME sync.clean, NEW n \in T!Names PROVE Gone(n) \/ table[n] \in heard[n]
      <3>1. CASE Fetched(n)
        <4>1. PICK k \in DOMAIN sync.got : sync.got[k].name = n
          BY <3>1 DEF Fetched
        <4>2. Written(k)
          BY <1>t, <1>n, <2>1 DEF Written
        <4> QED
          BY <2>1, <2>2, <4>1, <4>2 DEF ListInv, Recent
      <3> QED
        BY <2>1, <3>1 DEF ListInv
    <2> QED
      BY <2>1, <2>2 DEF ListInv, T!SyncedIsRecent, Gone
  <1>13. ASSUME NEW n \in T!Names, NEW shape \in Shapes \union {T!Absent}, T!Change(n, shape)
         PROVE  ListInv'
    <2>1. UNCHANGED <<sync, table>> /\ \A x \in T!Names : heard[x] \subseteq heard'[x]
      BY <1>13, <1>t DEF T!Change
    <2>2. CASE sync.at = "off"
      BY <1>2, <1>13, <2>2 DEF T!Change
    <2>3. CASE sync.at # "off"
      <3>1. \A i \in DOMAIN Order : Order[i] \in T!Names
        BY DEF T!Names
      <3>2. \A x \in T!Names : (Gone(x) => Gone(x)') /\ (Fetched(x) <=> Fetched(x)')
        BY <2>1 DEF Gone, Fetched
      <3>3. \A k \in DOMAIN sync.got : (Recent(k) => Recent(k)') /\ (Written(k)' <=> Written(k))
        BY <1>n, <2>1 DEF Recent, Written
      <3> QED
        BY <1>n, <2>1, <2>3, <3>1, <3>2, <3>3 DEF ListInv, T!SyncedIsRecent
    <2> QED
      BY <2>2, <2>3
  <1>14. CASE T!Restart
    BY <1>3, <1>14 DEF T!Restart
  <1> QED
    BY <1>2, <1>5, <1>6, <1>7, <1>8, <1>9, <1>10, <1>11, <1>12, <1>13, <1>14, ListingStep
    DEF T!Next, T!AskSave, T!DeleteRows, T!CommitRows, T!AskSend, T!Deliver, T!Record,
        T!RequestFails, T!history

-----------------------------------------------------------------------------
(* The templates: the mappings and the sends.                                *)

\* A mapping that was saved is touched by the sync only if the sync had looked
\* before.
MapInv ==
  /\ T!ChosenMappingKept
  /\ sync.at = "default" /\ chosen[T!Current.name] # << >> => T!Current.name \in raced

LEMMA MapStep == TemplateTypes /\ MapInv /\ T!Next => MapInv'
  <1> SUFFICES ASSUME TemplateTypes, MapInv, T!Next PROVE MapInv'
    OBVIOUS
  <1>t. DOMAIN mapping = T!Names /\ DOMAIN chosen = T!Names /\ SyncFits(sync)
    BY DEF TemplateTypes
  <1> USE DEF T!At
  <1>1. ASSUME UNCHANGED <<mapping, chosen, raced>>,
               sync'.at = "default" => sync.at = "default" /\ T!Current' = T!Current
        PROVE  MapInv'
    BY <1>1 DEF MapInv, T!ChosenMappingKept
  <1>2. ASSUME UNCHANGED <<mapping, chosen, raced, sync>> PROVE MapInv'
    BY <1>1, <1>2 DEF T!Current
  <1>3. ASSUME UNCHANGED <<mapping, chosen, raced>>, sync'.at # "default" PROVE MapInv'
    BY <1>1, <1>3
  <1>4. ASSUME NEW r \in Asks, T!Ask(r) PROVE MapInv'
    BY <1>2, <1>3, <1>4, BeginTypes DEF T!Ask
  <1>5. CASE T!Timer
    BY <1>2, <1>3, <1>5, BeginTypes DEF T!Timer
  <1>6. CASE T!FetchPage
    BY <1>3, <1>6, PageTypes DEF T!FetchPage, T!history
  <1>7. CASE T!FetchFails
    <2>1. sync'.at # "default"
      BY <1>7, <1>t, EndTypes DEF T!FetchFails, SyncFits
    <2> QED
      BY <1>3, <1>7, <2>1 DEF T!FetchFails, T!history
  <1>8. CASE T!Upsert
    <2>1. sync'.at # "default"
      BY <1>8, <1>t DEF T!Upsert, SyncFits
    <2> QED
      BY <1>3, <1>8, <2>1 DEF T!Upsert, T!history
  <1>9. CASE T!Count
    <2>1. CASE T!NextRow(sync.clean)
      BY <1>3, <1>9, <1>t, <2>1, NextRowTypes DEF T!Count, T!history
    <2>2. CASE sync' = [sync EXCEPT !.at = "default"] /\ mapping[T!Current.name] = << >>
      <3>1. sync'.row = sync.row /\ sync'.got = sync.got /\ UNCHANGED <<mapping, chosen, raced>>
        BY <1>9, <1>t, <2>2 DEF T!Count, T!history, SyncFits
      <3>2. T!Current' = T!Current
        BY <3>1 DEF T!Current
      <3>3. T!Current.name \in T!Names
        BY <1>9, CurrentListed DEF T!Count
      <3>4. chosen[T!Current.name] # << >> => T!Current.name \in raced
        BY <2>2, <3>3 DEF MapInv, T!ChosenMappingKept
      <3> QED
        BY <3>1, <3>2, <3>4 DEF MapInv, T!ChosenMappingKept
    <2> QED
      BY <1>9, <2>1, <2>2 DEF T!Count
  <1>10. CASE T!Default
    <2> DEFINE n == T!Current.name
    <2>1. n \in T!Names /\ sync.at = "default"
      BY <1>10, CurrentListed DEF T!Default
    <2>2. /\ \A x \in T!Names : x # n => mapping'[x] = mapping[x]
          /\ \A k \in DOMAIN mapping[n] : k \in DOMAIN mapping'[n] /\ mapping'[n][k] = mapping[n][k]
      BY <1>10, <1>t, <2>1 DEF T!Default
    <2>3. UNCHANGED <<chosen, raced>> /\ sync'.at # "default"
      BY <1>10, <1>t, NextRowTypes DEF T!Default, T!history
    <2> HIDE DEF n
    <2>4. chosen[n] # << >> => n \in raced
      BY <2>1 DEF MapInv, n
    <2> QED
      BY <2>1, <2>2, <2>3, <2>4 DEF MapInv, T!ChosenMappingKept
  <1>11. CASE T!RowFails
    BY <1>3, <1>11, <1>t, NextRowTypes DEF T!RowFails, T!history
  <1>12. CASE T!Finish
    BY <1>3, <1>12, EndTypes DEF T!Finish, T!history
  <1>13. CASE T!Restart
    BY <1>3, <1>13, EndTypes DEF T!Restart, T!history
  <1>14. ASSUME NEW r \in Saves, T!CommitRows(r) PROVE MapInv'
    <2> DEFINE n == save[r].name
               w == save[r].rows
               now == mapping[n]
               stay == {k \in DOMAIN now : k \notin DOMAIN save[r].seen \/ save[r].seen[k] # now[k]}
               counted == sync.at = "default" /\ T!Current.name = n
    <2>1. sync' = sync /\ T!Current' = T!Current
      BY <1>14 DEF T!CommitRows, T!Current
    <2>2. CASE stay \intersect DOMAIN w # {}
      <3>1. UNCHANGED <<mapping, chosen, raced>>
        BY <1>14, <2>2 DEF T!CommitRows
      <3> QED
        BY <1>1, <2>1, <3>1
    <2>3. CASE stay \intersect DOMAIN w = {}
      <3>1. /\ mapping' = [mapping EXCEPT ![n] =
                 [k \in stay \union DOMAIN w |-> IF k \in stay THEN now[k] ELSE w[k]]]
            /\ chosen' = [chosen EXCEPT ![n] = w]
            /\ raced' = IF stay = {} /\ ~counted THEN raced \ {n} ELSE raced \union {n}
        BY <1>14, <2>3 DEF T!CommitRows
      <3>2. w = [k \in DOMAIN w |-> w[k]]
        <4>1. w \in Choices
          BY <1>14 DEF T!CommitRows, TemplateTypes
        <4> QED
          BY <4>1, ServicesAssumption DEF T!TemplateConstants
      <3> HIDE DEF n, w, now, stay, counted
      <3>3. n \in T!Names =>
              /\ chosen'[n] = w
              /\ \A k \in DOMAIN w : k \in DOMAIN mapping'[n] /\ mapping'[n][k] = w[k]
              /\ stay = {} => mapping'[n] = w
        BY <1>t, <2>3, <3>1, <3>2
      <3>4. \A x \in T!Names : x # n => mapping'[x] = mapping[x] /\ chosen'[x] = chosen[x]
        BY <1>t, <3>1
      <3>5. T!ChosenMappingKept'
        <4> SUFFICES ASSUME NEW x \in T!Names, chosen'[x] # << >>
                     PROVE  /\ \A k \in DOMAIN chosen'[x] :
                                  k \in DOMAIN mapping'[x] /\ mapping'[x][k] = chosen'[x][k]
                            /\ x \notin raced' => mapping'[x] = chosen'[x]
          BY DEF T!ChosenMappingKept
        <4>1. CASE x = n
          BY <3>1, <3>3, <4>1
        <4>2. CASE x # n
          BY <3>1, <3>4, <4>2 DEF MapInv, T!ChosenMappingKept
        <4> QED
          BY <4>1, <4>2
      <3>6. ASSUME sync.at = "default", chosen'[T!Current.name] # << >> PROVE T!Current.name \in raced'
        <4>1. T!Current.name \in T!Names
          BY <3>6, CurrentListed
        <4>2. CASE T!Current.name = n
          BY <3>1, <3>6, <4>2 DEF counted
        <4>3. CASE T!Current.name # n
          BY <3>1, <3>4, <3>6, <4>1, <4>3 DEF MapInv
        <4> QED
          BY <4>2, <4>3
      <3> QED
        BY <2>1, <3>5, <3>6 DEF MapInv
    <2> QED
      BY <2>2, <2>3
  <1> QED
    BY <1>2, <1>4, <1>5, <1>6, <1>7, <1>8, <1>9, <1>10, <1>11, <1>12, <1>13, <1>14
    DEF T!Next, T!AskSave, T!DeleteRows, T!AskSend, T!Deliver, T!Record, T!Change,
        T!RequestFails, T!history

\* A send that trusts the sync was asked for with the template that the provider
\* has shown, and with all of its variables.
SendInv ==
  /\ T!RefusedIsStale
  /\ \A r \in Sends : send[r].at = "ready" /\ send[r].trust # T!Absent =>
       /\ send[r].row = send[r].trust
       /\ send[r].row.status = "APPROVED" /\ send[r].row.keys \subseteq send[r].filled

LEMMA SendStep ==
  TemplateTypes /\ HeardInv /\ T!SyncedIsRecent /\ SendInv /\ T!Next => SendInv'
  <1> SUFFICES ASSUME TemplateTypes, HeardInv, T!SyncedIsRecent, SendInv, T!Next PROVE SendInv'
    OBVIOUS
  <1>t. /\ send \in [Sends -> SendRecord] /\ heard \in [T!Names -> SUBSET Offers]
        /\ meta \in [T!Names -> Offers]
    BY DEF TemplateTypes
  <1>1. ASSUME UNCHANGED <<send, blamed>> PROVE SendInv'
    BY <1>1 DEF SendInv, T!RefusedIsStale
  <1>2. ASSUME blamed' = blamed,
               \A r \in Sends : send'[r] = send[r] \/ send'[r].at # "ready"
        PROVE  SendInv'
    BY <1>2 DEF SendInv, T!RefusedIsStale
  <1>3. ASSUME NEW r \in Sends, NEW n \in T!Names, NEW filled \in Fillings, T!AskSend(r, n, filled)
        PROVE  SendInv'
    <2> DEFINE trust == IF sync.at = "off" /\ sync.clean /\ n \notin changed
                        THEN meta[n] ELSE T!Absent
    <2>1. /\ send'[r].row = table[n] /\ send'[r].filled = filled \intersect table[n].keys
          /\ send'[r].trust = trust /\ \A x \in Sends : x # r => send'[x] = send[x]
          /\ blamed' = blamed
      BY <1>3, <1>t DEF T!AskSend, T!At, T!history
    <2>2. table[n].status = "APPROVED" /\ table[n].keys \subseteq filled
      BY <1>3 DEF T!AskSend, T!Sendable
    <2>3. trust # T!Absent => table[n] = trust
      <3> SUFFICES ASSUME sync.at = "off", sync.clean, n \notin changed, meta[n] # T!Absent
                   PROVE  table[n] = meta[n]
        OBVIOUS
      <3>1. heard[n] = {meta[n]}
        BY DEF HeardInv
      <3>2. T!Absent \in heard[n] \/ table[n] \in heard[n]
        BY DEF T!SyncedIsRecent, T!At
      <3> QED
        BY <3>1, <3>2
    <2> HIDE DEF trust
    <2> QED
      BY <2>1, <2>2, <2>3 DEF SendInv, T!RefusedIsStale
  <1>4. ASSUME NEW r \in Sends, T!Deliver(r) PROVE SendInv'
    <2> DEFINE s == send[r]
               here == meta[s.name]
               taken == here.status = "APPROVED" /\ here.keys = s.row.keys /\ here.keys \subseteq s.filled
    <2>1. s.at = "ready"
      BY <1>4 DEF T!Deliver
    <2>2. s.trust = here /\ here # T!Absent => taken
      BY <2>1 DEF SendInv
    <2>3. blamed' = IF ~taken /\ s.trust = here /\ here # T!Absent THEN blamed \union {r} ELSE blamed
      BY <1>4 DEF T!Deliver
    <2>4. blamed' = blamed
      BY <2>2, <2>3
    <2>5. \A x \in Sends : send'[x] = send[x] \/ send'[x].at # "ready"
      BY <1>4, <1>t DEF T!Deliver, T!NotSending
    <2> QED
      BY <1>2, <2>4, <2>5
  <1>5. ASSUME NEW r \in Sends, T!Record(r) PROVE SendInv'
    <2>1. \A x \in Sends : send'[x] = send[x] \/ send'[x].at # "ready"
      BY <1>5, <1>t DEF T!Record, SendRecord
    <2> QED
      BY <1>2, <1>5, <2>1 DEF T!Record, T!history
  <1>6. CASE T!RequestFails
    <2>1. \A x \in Sends : send'[x] = send[x] \/ send'[x].at # "ready"
      BY <1>6, <1>t DEF T!RequestFails, T!NotSending
    <2> QED
      BY <1>2, <1>6, <2>1 DEF T!RequestFails, T!history
  <1>7. CASE T!Restart
    <2>1. \A x \in Sends : send'[x].at # "ready"
      BY <1>7 DEF T!Restart, T!NotSending
    <2> QED
      BY <1>2, <1>7, <2>1 DEF T!Restart, T!history
  <1> QED
    BY <1>1, <1>3, <1>4, <1>5, <1>6, <1>7
    DEF T!Next, T!Ask, T!Timer, T!RowFails, T!FetchPage, T!FetchFails, T!Upsert, T!Count,
        T!Default, T!Finish, T!AskSave, T!DeleteRows, T!CommitRows, T!Change, T!history

-----------------------------------------------------------------------------
(* The theorems about the templates.                                         *)

TemplateInv == TemplateTypes /\ HeardInv /\ ListInv /\ MapInv /\ SendInv

LEMMA TemplatesInitially == ServicesInit => TemplateInv
  <1> SUFFICES ASSUME ServicesInit PROVE TemplateInv
    OBVIOUS
  <1> USE DEF ServicesInit, T!Init
  <1>1. SyncFits(sync) /\ sync.at = "off" /\ sync.clean = FALSE
    <2>1. << >> \in Seq(Listing)
      BY EmptySeq
    <2> QED
      BY <2>1 DEF T!Off, SyncFits
  <1>2. Held \in [T!Names -> Offers]
    BY ServicesAssumption DEF T!TemplateConstants, Offers
  <1>3. T!NotSending \in SendRecord /\ T!NotSending.at = "idle"
    BY DEF T!NotSending, SendRecord, Offers
  <1>4. DOMAIN T!NotSaving = {"at", "name", "rows", "seen"} /\ T!NotSaving.at = "idle"
    BY DEF T!NotSaving
  <1>5. TemplateTypes
    BY <1>1, <1>2, <1>3, <1>4 DEF TemplateTypes, Offers
  <1>6. HeardInv
    BY <1>1 DEF HeardInv
  <1>7. ListInv
    BY <1>1 DEF ListInv, T!SyncedIsRecent, T!At
  <1>8. MapInv
    BY <1>1 DEF MapInv, T!ChosenMappingKept
  <1>9. SendInv
    BY <1>3 DEF SendInv, T!RefusedIsStale
  <1> QED
    BY <1>5, <1>6, <1>7, <1>8, <1>9 DEF TemplateInv

LEMMA TemplatesStep == TemplateInv /\ [ServicesNext]_serviceVars => TemplateInv'
  <1> SUFFICES ASSUME TemplateInv, [ServicesNext]_serviceVars PROVE TemplateInv'
    OBVIOUS
  <1>1. CASE T!Next
    BY <1>1, TemplateTypesStep, HeardStep, ListStep, MapStep, SendStep DEF TemplateInv, ListInv
  <1>2. CASE UNCHANGED templateState
    <2>1. TemplateTypes' /\ HeardInv'
      BY <1>2 DEF templateState, TemplateInv, TemplateTypes, HeardInv
    <2>2. ListInv'
      BY <1>2 DEF templateState, TemplateInv, ListInv, T!SyncedIsRecent, T!At, Gone, Fetched,
                  Written, Recent
    <2>3. MapInv' /\ SendInv'
      BY <1>2 DEF templateState, TemplateInv, MapInv, SendInv, T!ChosenMappingKept,
                  T!RefusedIsStale, T!Current
    <2> QED
      BY <2>1, <2>2, <2>3 DEF TemplateInv
  <1> QED
    BY <1>1, <1>2 DEF ServicesNext, serviceVars

LEMMA TemplatesAlways == ServicesSpec => []TemplateInv
  BY TemplatesInitially, TemplatesStep, PTL DEF ServicesSpec

\* A sync that reported no failure has written every template that the provider
\* had throughout, as the provider had it during that sync, however long the
\* listing is and wherever its pages end. (syncTemplatesFromMeta)
THEOREM SyncsAreRecent == ServicesSpec => []SyncedIsRecent
  <1>1. TemplateInv => SyncedIsRecent
    BY DEF TemplateInv, ListInv, SyncedIsRecent
  <1> QED
    BY <1>1, TemplatesAlways, PTL

\* No sync and no other save takes a row of a mapping that an administrator has
\* saved, and only who had looked before adds one. (applyDefaultMappingProfile
\* and saveTemplateMapping)
THEOREM ChosenMappingsStay == ServicesSpec => []ChosenMappingKept
  <1>1. TemplateInv => ChosenMappingKept
    BY DEF TemplateInv, MapInv, ChosenMappingKept
  <1> QED
    BY <1>1, TemplatesAlways, PTL

\* The provider refuses no template message that was asked for after a clean sync
\* unless it has changed the template since that sync began. (sendTemplateMessage)
THEOREM RefusalsAreStale == ServicesSpec => []RefusedIsStale
  <1>1. TemplateInv => RefusedIsStale
    BY DEF TemplateInv, SendInv, RefusedIsStale
  <1> QED
    BY <1>1, TemplatesAlways, PTL

=============================================================================
