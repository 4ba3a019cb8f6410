------------------------------ MODULE LiveInbox ------------------------------
(***************************************************************************)
(* How a stored inbound message reaches the open browsers of the staff: a   *)
(* worker publishes events about it on a Redis channel, every API instance  *)
(* receives them and claims each before it emits it to the sockets, and a   *)
(* browser merges what it receives with lists it fetches over HTTP.        *)
(*                                                                         *)
(* One conversation. Inbox says how a message is stored and counted; here   *)
(* that is the single step Store.                                          *)
(***************************************************************************)
EXTENDS Naturals, FiniteSets, SequencesExt

CONSTANTS
  Messages,   \* inbound messages of the conversation
  Instances,  \* API processes subscribed to the channel
  Tabs,       \* browsers in the audience of the conversation
  PageSize,   \* messages that one request for the conversation returns
  Budget      \* how often each event outside the program may happen

\* "fault": a Redis call or a request fails, or an API process restarts.
\* "tab": a browser opens or loses its socket, fetches again or navigates.
Events == {"fault", "tab"}

\* What the constants have to be.
LiveConstants ==
  /\ PageSize \in Nat \ {0} /\ Instances # {}
  /\ \A e \in Events : Budget[e] \in Nat

\* What notifyInboundMessage publishes of a message, with the message and the
\* conversation as it then was. conversation:updated and inbox:updated are
\* handled alike and stand here as one; message:received is handled like
\* conversation:new_message but never rings, and changes nothing after it.
Kinds == <<"new_message", "updated">>

Event == [kind : {Kinds[k] : k \in DOMAIN Kinds}, message : Messages]

VARIABLES
  version,   \* per message: its rank in the conversation, 0 before it is stored
  due,       \* messages whose worker has yet to publish their events
  bus,       \* per instance: events received and not yet looked at
  claimed,   \* events whose Redis key taradi:realtime:dedupe:<id> is set
  wired,     \* browsers whose socket is connected
  wire,      \* per browser: events on their way to it
  loaded,    \* browsers that have fetched the conversation
  cache,     \* per browser: the messages it shows
  listed,    \* per browser: rank of the conversation summary in its list
  fetch,     \* per browser: its request, "none", "asked" or "answered"
  snapshot,  \* per browser: the answer on its way
  merged,    \* per browser: cacheUpdatedMessageIds
  notified,  \* per browser: notifiedInboundMessageIds
  rung,      \* history: per browser and message, how often it was notified
  visits,    \* history: per browser, how often it changed the page
  doubted,   \* history: messages of which a claim failed
  missed,    \* history: per browser, messages it may lack, and why excused
  lossy,     \* history: browsers that missed or overwrote some event
  overlapped,  \* history: a message was stored before another was emitted
  left       \* what remains of Budget

api == <<due, bus, claimed>>
socket == <<wired, wire>>
screen == <<loaded, cache, listed, merged, notified, rung, visits>>
request == <<fetch, snapshot>>
history == <<doubted, missed, lossy, overlapped>>
liveState == <<version, api, socket, screen, request, history>>

Nothing == [items |-> {}, listed |-> 0]
Spend(e) == left[e] > 0 /\ left' = [left EXCEPT ![e] = @ - 1]

Stored == {m \in Messages : version[m] > 0}
Latest == Cardinality(Stored)

\* listConversationMessages: the oldest messages come first, and only one page
\* is ever asked for.
Page == {m \in Stored : version[m] <= PageSize}

\* An event that no browser of the set will get.
Lose(tabs, messages) ==
  /\ missed' = [t \in Tabs |-> IF t \in tabs THEN missed[t] \union messages ELSE missed[t]]
  /\ lossy' = IF messages = {} THEN lossy ELSE lossy \union tabs

-----------------------------------------------------------------------------
(* The worker: notifyInboundMessage and the event bus.                        *)

\* Events of m are still to be published, claimed or emitted.
UnderWay(m) ==
  \/ m \in due
  \/ \E i \in Instances : \E k \in DOMAIN bus[i] : bus[i][k].message = m

Store(m) ==
  /\ version[m] = 0
  /\ version' = [version EXCEPT ![m] = Latest + 1]
  /\ due' = due \union {m}
  /\ overlapped' = (overlapped \/ \E n \in Messages : UnderWay(n))
  /\ UNCHANGED <<bus, claimed, socket, screen, request, doubted, missed, lossy, left>>

Receivers(m, kinds) ==
  [i \in Instances |-> bus[i] \o [k \in DOMAIN kinds |-> [kind |-> kinds[k], message |-> m]]]

Publish(m) ==
  /\ m \in due
  /\ due' = due \ {m}
  /\ bus' = Receivers(m, Kinds)
  /\ UNCHANGED <<version, claimed, socket, screen, request, history, left>>

\* safePublishRealtimeEvent: a publication that fails is logged and forgotten.
PublishFails(m) ==
  /\ m \in due /\ Spend("fault")
  /\ due' = due \ {m}
  /\ \E k \in DOMAIN Kinds : bus' = Receivers(m, RemoveAt(Kinds, k))
  /\ Lose(Tabs, {m})
  /\ UNCHANGED <<version, claimed, socket, screen, request, doubted, overlapped>>

-----------------------------------------------------------------------------
(* An API instance: subscribeRealtimeEvents, createRealtimeEventHandler.      *)

Shift(i) == bus' = [bus EXCEPT ![i] = Tail(@)]

\* emitRealtimeEnvelope: the adapter carries the event to the sockets of every
\* instance, once to each.
Emit(e) ==
  /\ wire' = [t \in Tabs |-> IF t \in wired THEN Append(wire[t], e) ELSE wire[t]]
  /\ Lose(Tabs \ wired, {e.message})

ClaimAny(i) ==  \* faulty variant: the key is set without NX
  /\ bus[i] # <<>> /\ Shift(i)
  /\ claimed' = claimed \union {Head(bus[i])}
  /\ Emit(Head(bus[i]))
  /\ UNCHANGED <<version, due, wired, screen, request, doubted, overlapped, left>>

\* claimRealtimeEvent, SET NX, and the emission that follows at once. The event
\* of a lost claim is dropped.
Claim(i) ==
  /\ bus[i] # <<>> /\ Shift(i)
  /\ claimed' = claimed \union {Head(bus[i])}
  /\ IF Head(bus[i]) \in claimed THEN UNCHANGED <<wire, missed, lossy>>
     ELSE Emit(Head(bus[i]))
  /\ UNCHANGED <<version, due, wired, screen, request, doubted, overlapped, left>>

\* Redis does not answer, or the key of an event that was claimed has expired after
\* a minute: the event is emitted all the same.
ClaimFails(i) ==
  /\ bus[i] # <<>> /\ Shift(i) /\ Spend("fault")
  /\ Emit(Head(bus[i]))
  /\ doubted' = doubted \union {Head(bus[i]).message}
  /\ UNCHANGED <<version, due, claimed, wired, screen, request, overlapped>>

\* The process restarts, perhaps right after a claim: what it had claimed, and
\* what no other instance has received, is emitted by nobody.
Dies(i) ==
  \E taken \in {{}, {bus[i][k] : k \in DOMAIN bus[i] \intersect {1}} \ claimed} :
    LET pending == {bus[i][k] : k \in DOMAIN bus[i]} \ (claimed \union taken)
        kept == {e \in pending : \E j \in Instances \ {i} :
                   \E k \in DOMAIN bus[j] : bus[j][k] = e}
    IN /\ Spend("fault")
       /\ bus' = [bus EXCEPT ![i] = <<>>] /\ claimed' = claimed \union taken
       /\ Lose(Tabs, {e.message : e \in (pending \ kept) \union taken})
       /\ UNCHANGED <<version, due, socket, screen, request, doubted, overlapped>>

-----------------------------------------------------------------------------
(* A browser: SocketProvider and the queries of the inbox.                    *)

server == <<version, api>>

Connect(t) ==
  /\ t \notin wired /\ Spend("tab")
  /\ wired' = wired \union {t}
  /\ UNCHANGED <<server, wire, screen, request, history>>

\* What was on its way is lost, and a reconnection fetches nothing.
Disconnect(t) ==
  /\ t \in wired /\ Spend("tab")
  /\ wired' = wired \ {t}
  /\ wire' = [wire EXCEPT ![t] = <<>>]
  /\ Lose({t}, {wire[t][k].message : k \in DOMAIN wire[t]})
  /\ UNCHANGED <<server, screen, request, doubted, overlapped>>

\* A change of path runs the effect again: the handlers start with empty sets.
Navigate(t) ==
  /\ Spend("tab")
  /\ merged' = [merged EXCEPT ![t] = {}] /\ notified' = [notified EXCEPT ![t] = {}]
  /\ visits' = [visits EXCEPT ![t] = @ + 1]
  /\ UNCHANGED <<server, socket, loaded, cache, listed, rung, request, history>>

\* What an event overwrites is lost when an older answer arrives after it.
Overtake(t, m) ==
  IF fetch[t] = "answered" THEN Lose({t}, {m}) ELSE UNCHANGED <<missed, lossy>>

MergeSummaryOnly(t, m) ==  \* faulty variant: the list of messages is not extended
  /\ merged' = [merged EXCEPT ![t] = @ \union {m}]
  /\ IF t \in loaded /\ m \notin merged[t]
     THEN listed' = [listed EXCEPT ![t] = version[m]] /\ UNCHANGED cache
     ELSE UNCHANGED <<cache, listed>>

\* applyIncomingMessage, once per message: nothing is added to a list that was
\* never fetched.
Merge(t, m) ==
  /\ merged' = [merged EXCEPT ![t] = @ \union {m}]
  /\ IF t \in loaded /\ m \notin merged[t]
     THEN /\ cache' = [cache EXCEPT ![t] = @ \union {m}]
          /\ listed' = [listed EXCEPT ![t] = version[m]]
     ELSE UNCHANGED <<cache, listed>>

\* handleIncomingConversationMessage: merged, then shown or sounded once.
ReceiveNew(t) ==
  LET m == Head(wire[t]).message
  IN /\ wire[t] # <<>> /\ Head(wire[t]).kind = "new_message"
     /\ wire' = [wire EXCEPT ![t] = Tail(@)]
     /\ Merge(t, m)
     /\ rung' = IF m \in notified[t] THEN rung ELSE [rung EXCEPT ![t][m] = @ + 1]
     /\ notified' = [notified EXCEPT ![t] = @ \union {m}]
     /\ Overtake(t, m)
     /\ UNCHANGED <<server, wired, loaded, visits, request, doubted, overlapped, left>>

\* handleConversationUpdated and handleInboxUpdated replace the summary.
ReceiveUpdate(t) ==
  LET m == Head(wire[t]).message
  IN /\ wire[t] # <<>> /\ Head(wire[t]).kind = "updated"
     /\ wire' = [wire EXCEPT ![t] = Tail(@)]
     /\ listed' = IF t \in loaded THEN [listed EXCEPT ![t] = version[m]] ELSE listed
     /\ Overtake(t, m)
     /\ UNCHANGED <<server, wired, loaded, cache, merged, notified, rung, visits,
                    request, doubted, overlapped, left>>

Receive(t) == ReceiveNew(t) \/ ReceiveUpdate(t)

\* The page is opened, or a receipt or an action of the user invalidates the
\* queries: a request under way is given up for a new one.
Ask(t) ==
  /\ Spend("tab")
  /\ fetch' = [fetch EXCEPT ![t] = "asked"] /\ snapshot' = [snapshot EXCEPT ![t] = Nothing]
  /\ UNCHANGED <<server, socket, screen, history>>

Answer(t) ==
  /\ fetch[t] = "asked"
  /\ fetch' = [fetch EXCEPT ![t] = "answered"]
  /\ snapshot' = [snapshot EXCEPT ![t] = [items |-> Page, listed |-> Latest]]
  /\ UNCHANGED <<server, socket, screen, history, left>>

\* The request is over.
Settles(t) ==
  fetch' = [fetch EXCEPT ![t] = "none"] /\ snapshot' = [snapshot EXCEPT ![t] = Nothing]

FetchFails(t) ==
  /\ fetch[t] # "none" /\ Spend("fault") /\ Settles(t)
  /\ UNCHANGED <<server, socket, screen, history>>

\* The answer replaces what was shown.
Load(t) ==
  /\ fetch[t] = "answered" /\ Settles(t)
  /\ loaded' = loaded \union {t}
  /\ cache' = [cache EXCEPT ![t] = snapshot[t].items]
  /\ listed' = [listed EXCEPT ![t] = snapshot[t].listed]
  /\ missed' = [missed EXCEPT ![t] = @ \ snapshot[t].items]
  /\ UNCHANGED <<server, socket, merged, notified, rung, visits,
                 doubted, lossy, overlapped, left>>

-----------------------------------------------------------------------------
Init ==
  /\ version = [m \in Messages |-> 0] /\ due = {}
  /\ bus = [i \in Instances |-> <<>>] /\ claimed = {}
  /\ wired = Tabs /\ wire = [t \in Tabs |-> <<>>]
  /\ loaded = {} /\ cache = [t \in Tabs |-> {}] /\ listed = [t \in Tabs |-> 0]
  /\ fetch = [t \in Tabs |-> "asked"]
  /\ snapshot = [t \in Tabs |-> Nothing]
  /\ merged = [t \in Tabs |-> {}] /\ notified = [t \in Tabs |-> {}]
  /\ rung = [t \in Tabs |-> [m \in Messages |-> 0]]
  /\ visits = [t \in Tabs |-> 0]
  /\ doubted = {} /\ missed = [t \in Tabs |-> {}] /\ lossy = {} /\ overlapped = FALSE
  /\ left = Budget

Next ==
  \/ \E m \in Messages : Store(m) \/ Publish(m) \/ PublishFails(m)
  \/ \E i \in Instances : Claim(i) \/ ClaimFails(i) \/ Dies(i)
  \/ \E t \in Tabs :
       \/ Connect(t) \/ Disconnect(t) \/ Navigate(t) \/ Receive(t)
       \/ Ask(t) \/ Answer(t) \/ FetchFails(t) \/ Load(t)

-----------------------------------------------------------------------------
TypeOK ==
  /\ version \in [Messages -> Nat] /\ \A m \in Messages : version[m] <= Latest
  /\ \A m, n \in Stored : version[m] = version[n] => m = n
  /\ due \subseteq Stored
  /\ bus \in [Instances -> Seq(Event)] /\ claimed \subseteq Event
  /\ wired \subseteq Tabs /\ wire \in [Tabs -> Seq(Event)] /\ loaded \subseteq Tabs
  /\ \A t \in Tabs : t \notin wired => wire[t] = <<>>
  /\ cache \in [Tabs -> SUBSET Stored] /\ listed \in [Tabs -> 0..Latest]
  /\ fetch \in [Tabs -> {"none", "asked", "answered"}]
  /\ snapshot \in [Tabs -> [items : SUBSET Stored, listed : 0..Latest]]
  /\ merged \in [Tabs -> SUBSET Stored] /\ notified \in [Tabs -> SUBSET Stored]
  /\ rung \in [Tabs -> [Messages -> Nat]] /\ visits \in [Tabs -> Nat]
  /\ doubted \subseteq Stored /\ missed \in [Tabs -> SUBSET Stored]
  /\ lossy \subseteq Tabs /\ overlapped \in BOOLEAN

\* A browser rings once for a message, although every instance receives its
\* events and the browser forgets on each change of page what it has notified.
\* Only when Redis failed to answer a claim, or its key had expired before another
\* instance came to the event, may it ring again, once per page.
RingsOnce ==
  \A t \in Tabs, m \in Messages :
    rung[t][m] <= 1 + (IF m \in doubted THEN visits[t] ELSE 0)

Settled(t) == wire[t] = <<>> /\ fetch[t] = "none" /\ \A m \in Messages : ~UnderWay(m)

\* With nothing on its way, a browser that has loaded the conversation shows
\* each message of the page, unless one of its events was lost or was
\* overwritten by an answer that had been read before; and if none was, its list
\* shows the conversation as the last message left it, unless the events of two
\* messages were under way together.
ShownOrMissed ==
  \A t \in loaded : Settled(t) =>
    /\ Page \ missed[t] \subseteq cache[t]
    /\ t \notin lossy /\ ~overlapped => listed[t] = Latest
=============================================================================
