-------------------------------- MODULE Media --------------------------------
(***************************************************************************)
(* The files of media messages: a webhook that downloads what a customer    *)
(* sent before it stores the message, an upload that is saved before its     *)
(* message is stored, the call that fetches a missing file later, the stream *)
(* that serves a file, and the bubble of the page that loads it into an      *)
(* object URL of the browser. Files are named by the order of their creation.*)
(***************************************************************************)
EXTENDS Integers, Sequences

CONSTANTS
  Inbound,   \* media messages of customers
  Uploads,   \* media messages of the staff
  Allowed,   \* those whose type and size are allowed
  Sizes,     \* sizes of files, for ranges
  Budget     \* how often each event may happen

Pieces == Inbound \union Uploads
MediaEvents == {"mishap", "again", "view"}
NoFile == 0

\* What the constants have to be.
MediaConstants ==
  /\ Inbound \intersect Uploads = {} /\ Allowed \subseteq Uploads /\ Sizes \subseteq Nat
  /\ \A e \in MediaEvents : Budget[e] \in Nat

VARIABLES
  files,    \* the files on disk: whose media, and whether all of it is there
  stored,   \* the messages that have a row
  mediaUrl, \* per message: the file its row names
  tasks,    \* requests under way: for which message, their step, their file
  known,    \* per message: the mediaUrl that the page knows, if it shows the message
  bubble,   \* the bubble that is looked at: its message, its state, its object URL
  fetches,  \* its requests: whether it still wants them, and the bytes once answered
  objects,  \* object URLs that are alive: what each holds
  made,     \* object URLs made so far
  left      \* what remains of Budget

page == <<known, bubble, fetches, objects, made>>
mediaState == <<files, stored, mediaUrl, tasks, page>>

Uses(e) == left[e] > 0 /\ left' = [left EXCEPT ![e] = @ - 1]

Hidden == [of |-> "none", url |-> NoFile, state |-> "idle", object |-> 0]
Replace(t, u) == tasks' = (tasks \ {t}) \union {u}

-----------------------------------------------------------------------------
(* Ranges of a file: parseRangeHeader. A header names a first and a last byte, *)
(* either of which may be left out.                                            *)

Absent == -1
Headers == {h \in [first : (0..5) \union {Absent}, last : (0..5) \union {Absent}] :
              h.first # Absent \/ h.last # Absent}

LastN(n, size) == IF size > n THEN size - n ELSE 0

Range(h, size) ==
  LET start == IF h.first # Absent THEN h.first ELSE LastN(h.last, size)
      end == IF h.first = Absent \/ h.last = Absent THEN size - 1 ELSE h.last
  IN IF end < start \/ start >= size THEN [code |-> 416, start |-> 0, end |-> 0]
     ELSE [code |-> 206, start |-> start, end |-> IF end < size THEN end ELSE size - 1]

-----------------------------------------------------------------------------
(* Saving. *)

Begin(m, kind, step) ==
  tasks' = tasks \union {[of |-> m, kind |-> kind, at |-> step, file |-> NoFile]}

\* The webhook of a message that has no row yet.
InboundArrives(m) ==
  /\ m \in Inbound \ stored /\ \A t \in tasks : t.of # m
  /\ \A i \in DOMAIN files : files[i].of # m
  /\ Begin(m, "inbound", "fetch")
  /\ UNCHANGED <<files, stored, mediaUrl, page, left>>

\* It is delivered twice, or its failed job runs again.
InboundAgain(m) ==
  /\ m \in Inbound \ stored /\ Uses("again") /\ Begin(m, "inbound", "fetch")
  /\ UNCHANGED <<files, stored, mediaUrl, page>>

\* validateUploadedMedia.
TypeAllowed(m) == m \in Allowed

\* The upload of a member of the staff; what is too large or of another type is
\* refused before anything is saved.
UploadArrives(m) ==
  /\ m \in Uploads \ stored /\ TypeAllowed(m) /\ \A t \in tasks : t.of # m
  /\ \A i \in DOMAIN files : files[i].of # m
  /\ Begin(m, "upload", "save")
  /\ UNCHANGED <<files, stored, mediaUrl, page, left>>

\* downloadMissingMedia reads the row; of two calls at once both download.
AskMissing(m) ==
  /\ m \in stored \intersect Inbound /\ mediaUrl[m] = NoFile
  /\ Uses("again") /\ Begin(m, "missing", "fetch")
  /\ UNCHANGED <<files, stored, mediaUrl, page>>

\* downloadMedia: the metadata, then the bytes.
Fetch(t) ==
  /\ t.at = "fetch" /\ Replace(t, [t EXCEPT !.at = "save"])
  /\ UNCHANGED <<files, stored, mediaUrl, page, left>>

SaveUnawaited(t) ==  \* faulty variant: the file is not waited for
  /\ t.at = "save"
  /\ files' = Append(files, [of |-> t.of, whole |-> FALSE])
  /\ Replace(t, [t EXCEPT !.at = "store", !.file = Len(files) + 1])
  /\ UNCHANGED <<stored, mediaUrl, page, left>>

\* saveMediaBuffer: a new name, opened exclusively, then written.
Save(t) ==
  /\ t.at = "save"
  /\ files' = Append(files, [of |-> t.of, whole |-> FALSE])
  /\ Replace(t, [t EXCEPT !.at = "write", !.file = Len(files) + 1])
  /\ UNCHANGED <<stored, mediaUrl, page, left>>

Write(t) ==
  /\ t.at = "write" /\ files' = [files EXCEPT ![t.file].whole = TRUE]
  /\ Replace(t, [t EXCEPT !.at = "store"])
  /\ UNCHANGED <<stored, mediaUrl, page, left>>

\* Anything up to the save fails, or the type of a download is not allowed: the
\* inbound message is stored without a file, the two other requests fail.
SaveFails(t) ==
  /\ t.at \in {"fetch", "save", "write"} /\ Uses("mishap")
  /\ IF t.kind = "inbound" THEN Replace(t, [t EXCEPT !.at = "store", !.file = NoFile])
     ELSE tasks' = tasks \ {t}
  /\ UNCHANGED <<files, stored, mediaUrl, page>>

\* The row is created, once for each identifier of the provider.
StoreMessage(t) ==
  /\ t.at = "store" /\ t.kind # "missing" /\ tasks' = tasks \ {t}
  /\ IF t.of \in stored THEN UNCHANGED <<stored, mediaUrl>>
     ELSE stored' = stored \union {t.of} /\ mediaUrl' = [mediaUrl EXCEPT ![t.of] = t.file]
  /\ UNCHANGED <<files, page, left>>

\* downloadMissingMedia updates the row, whatever it names by then.
StoreMissing(t) ==
  /\ t.at = "store" /\ t.kind = "missing" /\ tasks' = tasks \ {t}
  /\ mediaUrl' = [mediaUrl EXCEPT ![t.of] = t.file]
  /\ UNCHANGED <<files, stored, page, left>>

\* The process dies, or the database fails: a file may stay that no row names.
StoreFails(t) ==
  /\ Uses("mishap") /\ tasks' = tasks \ {t}
  /\ UNCHANGED <<files, stored, mediaUrl, page>>

Work == \E t \in tasks : Fetch(t) \/ Save(t) \/ Write(t) \/ StoreMessage(t) \/ StoreMissing(t)

-----------------------------------------------------------------------------
(* The bubble of the page: useAuthenticatedMedia. *)

\* The clean-up of the effect aborts the request and revokes its object URL.
Unwanted == {[f EXCEPT !.wanted = FALSE] : f \in fetches}

\* The effect: without a file there is nothing to load.
Loads(m, url) ==
  /\ objects' = [o \in DOMAIN objects \ {bubble.object} |-> objects[o]]
  /\ bubble' = [of |-> m, url |-> url, object |-> 0,
                state |-> IF url = NoFile THEN (IF m \in Inbound THEN "pending" ELSE "error")
                          ELSE "loading"]
  /\ fetches' = Unwanted \union
       IF url = NoFile THEN {} ELSE {[wanted |-> TRUE, answered |-> FALSE, bytes |-> NoFile]}

\* The message is scrolled into view, the page having fetched it.
Show(m) ==
  /\ m \in stored /\ bubble.of # m /\ Uses("view")
  /\ known' = [known EXCEPT ![m] = mediaUrl[m]] /\ Loads(m, mediaUrl[m])
  /\ UNCHANGED <<files, stored, mediaUrl, tasks, made>>

\* The list is fetched again: the effect runs if the row names another file.
Refetch ==
  LET m == bubble.of
  IN /\ m # "none" /\ known[m] # mediaUrl[m]
     /\ known' = [known EXCEPT ![m] = mediaUrl[m]] /\ Loads(m, mediaUrl[m])
     /\ UNCHANGED <<files, stored, mediaUrl, tasks, made, left>>

Retry ==
  /\ bubble.state = "error" /\ Uses("view") /\ Loads(bubble.of, bubble.url)
  /\ UNCHANGED <<files, stored, mediaUrl, tasks, known, made>>

Hide ==
  /\ bubble.of # "none" /\ Uses("view")
  /\ objects' = [o \in DOMAIN objects \ {bubble.object} |-> objects[o]]
  /\ bubble' = Hidden /\ fetches' = Unwanted
  /\ UNCHANGED <<files, stored, mediaUrl, tasks, known, made>>

\* getMessageMediaStream reads the row and serves the file it names now; a
\* request that is no longer wanted is for a message that is not shown any more.
StreamMedia(f) ==
  /\ f.wanted /\ ~f.answered
  /\ fetches' = (fetches \ {f}) \union
                  {[f EXCEPT !.answered = TRUE, !.bytes = mediaUrl[bubble.of]]}
  /\ UNCHANGED <<files, stored, mediaUrl, tasks, known, bubble, objects, made, left>>

StreamFails(f) ==
  /\ ~f.answered /\ Uses("mishap") /\ fetches' = fetches \ {f}
  /\ bubble' = IF f.wanted THEN [bubble EXCEPT !.state = "error"] ELSE bubble
  /\ UNCHANGED <<files, stored, mediaUrl, tasks, known, objects, made>>

ArrivesAnyway(f) ==  \* faulty variant: the answer of an aborted request is taken
  /\ f.answered /\ fetches' = fetches \ {f}
  /\ made' = made + 1 /\ objects' = [o \in DOMAIN objects \union {made'} |->
                                       IF o = made' THEN f.bytes ELSE objects[o]]
  /\ bubble' = [bubble EXCEPT !.object = made', !.state = "ready"]
  /\ UNCHANGED <<files, stored, mediaUrl, tasks, known, left>>

Arrives(f) ==
  /\ f.answered /\ fetches' = fetches \ {f}
  /\ IF f.wanted
     THEN /\ made' = made + 1
          /\ objects' = [o \in DOMAIN objects \union {made'} |->
                           IF o = made' THEN f.bytes ELSE objects[o]]
          /\ bubble' = [bubble EXCEPT !.object = made', !.state = "ready"]
     ELSE UNCHANGED <<made, objects, bubble>>
  /\ UNCHANGED <<files, stored, mediaUrl, tasks, known, left>>

MediaInit ==
  /\ files = <<>> /\ stored = {} /\ mediaUrl = [m \in Pieces |-> NoFile] /\ tasks = {}
  /\ known = [m \in Pieces |-> NoFile] /\ bubble = Hidden /\ fetches = {}
  /\ objects = [o \in {} |-> 0] /\ made = 0 /\ left = Budget

MediaNext ==
  \/ \E m \in Inbound : InboundArrives(m) \/ InboundAgain(m) \/ AskMissing(m)
  \/ \E m \in Uploads : UploadArrives(m)
  \/ Work \/ \E t \in tasks : SaveFails(t) \/ StoreFails(t)
  \/ \E m \in Pieces : Show(m)
  \/ Refetch \/ Retry \/ Hide
  \/ \E f \in fetches : StreamMedia(f) \/ StreamFails(f) \/ Arrives(f)

-----------------------------------------------------------------------------
\* A row that names a file names a whole one with the media of its message,
\* however downloads fail, repeat, overlap or die between their steps.
UrlIsWhole ==
  \A m \in Pieces : mediaUrl[m] # NoFile => files[mediaUrl[m]] = [of |-> m, whole |-> TRUE]

\* A bubble shows what its message says, from an object URL that is alive, and
\* no other object URL is: none leaks, whatever is shown, hidden, fetched again
\* or answered late.
BubbleIsItsMessage ==
  /\ DOMAIN objects = IF bubble.state = "ready" THEN {bubble.object} ELSE {}
  /\ bubble.state = "ready" =>
       files[objects[bubble.object]] = [of |-> bubble.of, whole |-> TRUE]

\* A range answer holds exactly the bytes that were asked for and exist, and it is
\* 416 exactly when there are none: for each header and size.
RangeIsExact ==
  \A size \in Sizes, h \in Headers :
    LET asked == IF h.first = Absent THEN LastN(h.last, size)..size
                 ELSE h.first..(IF h.last = Absent THEN size ELSE h.last)
        there == asked \intersect (0..(size - 1))
        r == Range(h, size)
    IN IF there = {} THEN r.code = 416 ELSE r.code = 206 /\ r.start..r.end = there
=============================================================================
