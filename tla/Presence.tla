------------------------------ MODULE Presence ------------------------------
(***************************************************************************)
(* Who is online: the sockets that the API process tracks per user, the     *)
(* grace timer it starts when the last one closes, the last-seen write that *)
(* an offline announcement waits for, and the employee list of a browser    *)
(* that follows the announcements.                                         *)
(*                                                                         *)
(* The three maps of presence.service live in one process (the deployment   *)
(* runs one instance), and code between two awaits is one action.          *)
(***************************************************************************)
EXTENDS Naturals, Sequences

CONSTANTS
  Users,    \* the users whose presence is followed
  Sockets,  \* their browser sessions
  UserOf,   \* the user of each session
  Budget    \* how often each event outside the program may happen

Grace == "grace"

\* Sessions connect and leave, the process restarts, and the
\* watching browser loses or opens its socket or asks for its list.
Events == {"connect", "leave", "fault", "watch"}

ASSUME ConstantsAssumption ==
  /\ UserOf \in [Sockets -> Users]
  /\ Grace \notin Sockets
  /\ Events \subseteq DOMAIN Budget /\ \A e \in Events : Budget[e] \in Nat

VARIABLES
  conn,      \* sockets that are connected
  online,    \* keys of onlineSocketIdsByUser
  tracked,   \* its values: the socket ids of each user, {} without a key
  timer,     \* keys of offlineTimersByUser: grace periods under way
  saves,     \* calls of markUserOffline that await the last-seen write
  ended,     \* per user: how often he went offline
  announced, \* users whose last presence event says online
  crossed,   \* history: users announced against the maps, and why excused
  wired,     \* the watching browser's socket is connected
  wire,      \* presence events on their way to it, in order
  view,      \* users its cached employee list shows as online
  fetch,     \* its request for the list: "none", "asked" or "answered"
  snapshot,  \* the answer on its way
  missed,    \* history: users about whom the list may be out of date
  left       \* what remains of Budget

maps == <<online, tracked, timer>>
watcher == <<wired, wire, view, fetch, snapshot, missed>>
vars == <<conn, maps, saves, ended, announced, crossed, watcher, left>>

\* A pending offline transition: its user, the time it began, the socket that
\* logged out or the grace timer, and whether the write has been answered.
Save == [user : Users, at : Nat, via : Sockets \union {Grace}, written : BOOLEAN]
Event == [user : Users, online : BOOLEAN]

Spend(e) == left[e] > 0 /\ left' = [left EXCEPT ![e] = @ - 1]
Saving(u) == \E v \in saves : v.user = u
OnTheWay == {wire[i].user : i \in DOMAIN wire}

-----------------------------------------------------------------------------
(* emitPresenceEvent: the event reaches the browsers that are connected. A    *)
(* list request that was answered before is now out of date.                  *)

Emit(u, isOnline) ==
  /\ announced' = IF isOnline THEN announced \union {u} ELSE announced \ {u}
  /\ wire' = IF wired THEN Append(wire, [user |-> u, online |-> isOnline]) ELSE wire
  /\ missed' = IF wired THEN missed ELSE missed \union {u}
  /\ UNCHANGED <<wired, view, fetch, snapshot>>

Silent == UNCHANGED <<announced, watcher>>

-----------------------------------------------------------------------------
(* presence.service. *)

\* markSocketOnline. A user who was offline is announced; if the write of his
\* last offline transition is still awaited, its announcement comes later.
Connect(s) ==
  LET u == UserOf[s]
  IN /\ s \notin conn /\ Spend("connect")
     /\ conn' = conn \union {s}
     /\ online' = online \union {u}
     /\ tracked' = [tracked EXCEPT ![u] = @ \union {s}]
     /\ timer' = timer \ {u}
     /\ IF u \in online THEN Silent /\ UNCHANGED crossed
        ELSE /\ Emit(u, TRUE)
             /\ crossed' = IF Saving(u) THEN crossed \union {u} ELSE crossed \ {u}
     /\ UNCHANGED <<saves, ended>>

\* markSocketDisconnected: the last socket of a user who is tracked starts a
\* grace period.
Drop(s) ==
  LET u == UserOf[s]
      rest == tracked[u] \ {s}
  IN /\ conn' = conn \ {s}
     /\ IF u \in online
        THEN /\ tracked' = [tracked EXCEPT ![u] = rest]
             /\ timer' = IF rest = {} THEN timer \union {u} ELSE timer
        ELSE UNCHANGED <<tracked, timer>>

\* The connection breaks or the page is closed.
Disconnect(s) ==
  /\ s \in conn /\ Spend("leave")
  /\ Drop(s)
  /\ Silent /\ UNCHANGED <<online, saves, ended, crossed>>

\* markUserOffline up to its await.
BeginOffline(u, via) ==
  /\ online' = online \ {u}
  /\ tracked' = [tracked EXCEPT ![u] = {}]
  /\ timer' = timer \ {u}
  /\ ended' = [ended EXCEPT ![u] = @ + 1]
  /\ saves' = saves \union
       {[user |-> u, at |-> ended[u] + 1, via |-> via, written |-> FALSE]}

TimerSkipsTracked(u) ==  \* faulty variant: an empty set of sockets counts as online
  /\ u \in timer
  /\ IF u \in online
     THEN timer' = timer \ {u} /\ UNCHANGED <<online, tracked, saves, ended>>
     ELSE BeginOffline(u, Grace)
  /\ Silent /\ UNCHANGED <<conn, crossed, left>>

\* The grace period ends; a user who came back is left alone.
TimerFires(u) ==
  /\ u \in timer
  /\ IF tracked[u] # {}
     THEN timer' = timer \ {u} /\ UNCHANGED <<online, tracked, saves, ended>>
     ELSE BeginOffline(u, Grace)
  /\ Silent /\ UNCHANGED <<conn, crossed, left>>

\* handleSocketLogout, at the message presence:logout, which a browser may send
\* more than once. With other sessions left the user stays online and the
\* socket is closed at once.
Logout(s) ==
  LET u == UserOf[s]
  IN /\ s \in conn /\ Spend("leave")
     /\ IF tracked[u] \ {s} # {}
        THEN /\ conn' = conn \ {s}
             /\ tracked' = [tracked EXCEPT ![u] = @ \ {s}]
             /\ timer' = timer \ {u}
             /\ UNCHANGED <<online, saves, ended>>
        ELSE BeginOffline(u, s) /\ UNCHANGED conn
     /\ Silent /\ UNCHANGED crossed

\* saveLastSeenAt: the write is answered. One that failed is logged, and nothing
\* else differs.
WriteLastSeen(v) ==
  /\ v \in saves /\ ~v.written
  /\ saves' = (saves \ {v}) \union {[v EXCEPT !.written = TRUE]}
  /\ Silent /\ UNCHANGED <<conn, maps, ended, crossed, left>>

\* The rest of markUserOffline: the user is announced as offline, whether or not
\* he has come back, and a socket that logged out is closed.
FinishOffline(v) ==
  /\ v \in saves /\ v.written
  /\ saves' = saves \ {v}
  /\ Emit(v.user, FALSE)
  /\ crossed' = IF v.user \in online THEN crossed ELSE crossed \ {v.user}
  /\ IF v.via \in conn THEN Drop(v.via) ELSE UNCHANGED <<conn, tracked, timer>>
  /\ UNCHANGED <<online, ended, left>>

\* The process restarts: the maps, the timers and the pending writes are gone
\* and every socket is closed. Nobody announces those who do not come back.
Restart ==
  /\ Spend("fault")
  /\ conn' = {} /\ online' = {} /\ timer' = {} /\ saves' = {}
  /\ tracked' = [u \in Users |-> {}]
  /\ crossed' = crossed \union announced
  /\ wired' = FALSE /\ wire' = <<>>
  /\ fetch' = IF fetch = "asked" THEN "none" ELSE fetch
  /\ missed' = missed \union OnTheWay
  /\ UNCHANGED <<ended, announced, view, snapshot>>

-----------------------------------------------------------------------------
(* The watching browser: SocketProvider and the page of the employees.        *)

server == <<conn, maps, saves, ended, announced, crossed>>

Wire ==
  /\ ~wired /\ Spend("watch")
  /\ wired' = TRUE
  /\ UNCHANGED <<server, wire, view, fetch, snapshot, missed>>

\* Events that have not arrived are lost, and nothing is fetched again when
\* the browser reconnects.
Unwire ==
  /\ wired /\ Spend("watch")
  /\ wired' = FALSE /\ wire' = <<>>
  /\ missed' = missed \union OnTheWay
  /\ UNCHANGED <<server, view, fetch, snapshot>>

ShowOnline(u, isOnline) ==  \* faulty variant: the event's name is ignored
  view' = view \union {u}

Show(u, isOnline) == view' = IF isOnline THEN view \union {u} ELSE view \ {u}

\* updateEmployeePresence. If a list is on its way it will overwrite this.
ReceiveEvent ==
  /\ wire # <<>>
  /\ wire' = Tail(wire)
  /\ Show(Head(wire).user, Head(wire).online)
  /\ missed' = IF fetch = "answered" THEN missed \union {Head(wire).user} ELSE missed
  /\ UNCHANGED <<server, wired, fetch, snapshot, left>>

AskList ==
  /\ fetch = "none" /\ Spend("watch")
  /\ fetch' = "asked"
  /\ UNCHANGED <<server, wired, wire, view, snapshot, missed>>

\* attachEmployeePresence and getPresenceForUserIds: the maps are read after
\* the last-seen times. What was missed before is in the answer.
AnswerList ==
  /\ fetch = "asked"
  /\ fetch' = "answered" /\ snapshot' = online
  /\ missed' = {}
  /\ UNCHANGED <<server, wired, wire, view, left>>

ReceiveList ==
  /\ fetch = "answered"
  /\ fetch' = "none" /\ view' = snapshot /\ snapshot' = {}
  /\ UNCHANGED <<server, wired, wire, missed, left>>

-----------------------------------------------------------------------------
Init ==
  /\ conn = {} /\ online = {} /\ timer = {} /\ saves = {}
  /\ tracked = [u \in Users |-> {}]
  /\ ended = [u \in Users |-> 0]
  /\ announced = {} /\ crossed = {}
  /\ wired = TRUE /\ wire = <<>>
  /\ view = {} /\ fetch = "none" /\ snapshot = {} /\ missed = {}
  /\ left = Budget

Next ==
  \/ \E s \in Sockets : Connect(s) \/ Disconnect(s) \/ Logout(s)
  \/ \E u \in Users : TimerFires(u)
  \/ \E v \in saves : WriteLastSeen(v) \/ FinishOffline(v)
  \/ Restart
  \/ Wire \/ Unwire \/ ReceiveEvent
  \/ AskList \/ AnswerList \/ ReceiveList

Spec == Init /\ [][Next]_vars

\* Timers fire, writes are answered, events and answers arrive. Nobody has to
\* connect, and no call has to fail.
Fairness ==
  /\ \A u \in Users : WF_vars(TimerFires(u))
  /\ WF_vars(\E v \in saves : WriteLastSeen(v) \/ FinishOffline(v))
  /\ WF_vars(ReceiveEvent) /\ WF_vars(AnswerList) /\ WF_vars(ReceiveList)

FairSpec == Spec /\ Fairness

-----------------------------------------------------------------------------
TypeOK ==
  /\ conn \subseteq Sockets
  /\ online \subseteq Users /\ timer \subseteq Users
  /\ tracked \in [Users -> SUBSET Sockets]
  /\ saves \subseteq Save
  /\ ended \in [Users -> Nat]
  /\ announced \subseteq Users /\ crossed \subseteq Users
  /\ wired \in BOOLEAN /\ wire \in Seq(Event)
  /\ view \subseteq Users /\ fetch \in {"none", "asked", "answered"}
  /\ snapshot \subseteq Users /\ missed \subseteq Users
  /\ \A e \in Events : left[e] \in Nat

\* The maps agree with the connections: what is tracked is connected and
\* belongs to its user, and a grace period runs exactly for the users who are
\* taken for online without a socket. Nobody stays online for ever because a
\* disconnect, a logout and a reconnect crossed.
MapsAgree ==
  \A u \in Users :
    /\ tracked[u] \subseteq {s \in conn : UserOf[s] = u}
    /\ tracked[u] # {} => u \in online
    /\ u \in timer <=> u \in online /\ tracked[u] = {}

\* What was last announced of a user is what the maps say, once no offline
\* transition of his is under way, unless he connected while one was or the
\* process restarted.
AnnouncedIsTracked ==
  \A u \in Users \ crossed : ~Saving(u) => (u \in announced <=> u \in online)

\* With nothing on its way, the list of the browser shows what is tracked,
\* unless an event was lost to a closed socket, or arrived before the answer
\* of a request that had been read earlier.
ViewIsCurrent ==
  wire = <<>> /\ fetch = "none" =>
    \A u \in Users \ (missed \union crossed) :
      ~Saving(u) => (u \in view <=> u \in online)

\* Whoever loses his last socket is announced as offline, or comes back, or is
\* lost to a restart.
LeaverIsAnnounced ==
  \A u \in Users :
    u \in online /\ tracked[u] = {}
      ~> u \notin announced \/ tracked[u] # {} \/ u \in crossed
=============================================================================
