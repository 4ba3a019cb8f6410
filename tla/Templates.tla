------------------------------- MODULE Templates -------------------------------
(***************************************************************************)
(* The message templates: the provider keeps them, a table of ours follows.  *)
(* A sync fetches all pages, then writes one row after the other and gives a *)
(* new template its default mapping; whoever asks for a sync while one runs  *)
(* waits for that one. Meanwhile the provider changes its templates, the     *)
(* administrators save mappings and the staff send by what the table says.   *)
(* One API process: other instances of it would sync beside this one.        *)
(***************************************************************************)
EXTENDS Naturals, Sequences, FiniteSets

CONSTANTS
  Order,        \* names of templates, as the provider lists them
  PageSize,     \* templates of one page
  Shapes,       \* what a template may look like: its status and its variables
  Held,         \* the provider's templates at the start
  Profile,      \* defaultMappingProfiles: per name, a field for each variable
  Asks,         \* requests for a sync
  Saves,        \* requests to save a mapping
  Choices,      \* the mappings that an administrator may save
  Sends,        \* requests to send a template
  Fillings,     \* the variables that a request fills
  MaxAttempts,  \* TEMPLATE_MAX_ATTEMPTS
  Budget        \* how often each event may happen

Names == {Order[i] : i \in DOMAIN Order}
Absent == [status |-> "ABSENT", keys |-> {}]
Keys == UNION {s.keys : s \in Shapes}
Events == {"request", "change", "timer", "fault"}

\* What the constants have to be.
TemplateConstants ==
  /\ \A i, j \in DOMAIN Order : Order[i] = Order[j] => i = j
  /\ PageSize \in Nat \ {0} /\ MaxAttempts \in Nat \ {0}
  /\ Held \in [Names -> Shapes \union {Absent}] /\ Absent \notin Shapes
  /\ Order \in Seq(Names)
  /\ DOMAIN Profile \subseteq Names
  /\ \A rows \in Choices : rows = [k \in DOMAIN rows |-> rows[k]]
  /\ \A e \in Events : Budget[e] \in Nat

VARIABLES
  meta,     \* the provider's templates
  table,    \* WhatsappTemplate: what the last syncs have written
  mapping,  \* WhatsappTemplateVariableMapping: per name, fields by variable
  sync,     \* the sync that runs, if activeSyncPromise is set
  ask, save, send,
  heard,    \* history: what the provider had of each name while the last sync ran
  changed,  \* history: names that the provider has changed since that sync began
  chosen,   \* history: the mapping that was last saved, per name
  crossed,  \* history: names whose mapping was saved beside a writer that had looked before
  blamed,   \* history: sends refused although a sync had just shown the template
  left      \* what remains of Budget

history == <<heard, changed, chosen, crossed, blamed>>
templateState == <<meta, table, mapping, sync, ask, save, send, history>>

Off == [at |-> "off", cursor |-> 0, attempt |-> 1, got |-> << >>, row |-> 1, clean |-> FALSE]
NotSaving == [at |-> "idle", name |-> Order[1], rows |-> << >>, seen |-> << >>]
NotSending == [at |-> "idle", name |-> Order[1], row |-> Absent, filled |-> {}, trust |-> Absent]

Spend(e) == left[e] > 0 /\ left' = [left EXCEPT ![e] = @ - 1]
At(place) == sync.at = place

-----------------------------------------------------------------------------
(* syncTemplatesFromMeta. *)

Begins ==
  /\ sync' = [Off EXCEPT !.at = "fetch", !.clean = TRUE]
  /\ heard' = [n \in Names |-> {meta[n]}] /\ changed' = {}

\* A request: it joins the sync that runs, or starts one.
Ask(r) ==
  /\ ask[r] = "idle" /\ Spend("request") /\ ask' = [ask EXCEPT ![r] = "waiting"]
  /\ IF At("off") THEN Begins ELSE UNCHANGED <<sync, heard, changed>>
  /\ UNCHANGED <<meta, table, mapping, save, send, chosen, crossed, blamed>>

\* startTemplateAutoSync: the timers.
Timer ==
  /\ Spend("timer")
  /\ IF At("off") THEN Begins ELSE UNCHANGED <<sync, heard, changed>>
  /\ UNCHANGED <<meta, table, mapping, ask, save, send, chosen, crossed, blamed>>

\* The promise settles: everybody who waits is answered, the next one starts anew.
Ends(clean) ==
  /\ sync' = [Off EXCEPT !.clean = clean]
  /\ ask' = [r \in Asks |-> IF ask[r] = "waiting" THEN "answered" ELSE ask[r]]

\* Places of the listing after the cursor at which there is a template now.
Rest == {i \in DOMAIN Order : i > sync.cursor /\ meta[Order[i]] # Absent}
Page == {i \in Rest : Cardinality({j \in Rest : j <= i}) <= PageSize}
LastOf(page) == CHOOSE i \in page : \A j \in page : j <= i
Listed(page) == [k \in 1..Cardinality(page) |->
                   LET i == CHOOSE i \in page : Cardinality({j \in page : j <= i}) = k
                   IN [name |-> Order[i], shape |-> meta[Order[i]]]]

\* fetchAllMessageTemplates: the next page, until one is empty or the last of
\* them comes without a cursor.
FetchPage ==
  /\ At("fetch")
  /\ \/ Page # {} /\ sync' = [sync EXCEPT !.cursor = LastOf(Page), !.attempt = 1,
                                !.got = @ \o Listed(Page)]
     \/ Page = Rest /\ sync' = [sync EXCEPT !.at = "row", !.got = @ \o Listed(Page)]
  /\ UNCHANGED <<meta, table, mapping, ask, save, send, history, left>>

FetchFailsForever ==  \* faulty variant: after the last attempt the first one follows
  /\ At("fetch") /\ sync' = [sync EXCEPT !.attempt = IF @ < MaxAttempts THEN @ + 1 ELSE 1]
  /\ UNCHANGED <<meta, table, mapping, ask, save, send, history, left>>

FetchFailsQuietly ==  \* faulty variant: what has been fetched is written
  /\ At("fetch") /\ sync' = [sync EXCEPT !.at = "row"]
  /\ UNCHANGED <<meta, table, mapping, ask, save, send, history, left>>

\* classifyMetaTemplateError: an error may carry the marks of several categories
\* (a limit that the provider reports as an OAuthException); the first one counts.
Categories == <<"authentication", "permission", "configuration", "transient">>
CategoryOf(marks) ==
  IF marks = {} THEN "permanent"
  ELSE Categories[CHOOSE i \in marks : \A j \in marks : i <= j]

\* A page fails. A transient error is tried again; after the last attempt, or
\* for any other error, the sync has failed and writes nothing.
FetchFails ==
  /\ At("fetch")
  /\ \E marks \in SUBSET DOMAIN Categories :
       IF CategoryOf(marks) = "transient" /\ sync.attempt < MaxAttempts
       THEN sync' = [sync EXCEPT !.attempt = @ + 1] /\ UNCHANGED ask
       ELSE Ends(FALSE)
  /\ UNCHANGED <<meta, table, mapping, save, send, history, left>>

Current == sync.got[sync.row]
NextRow(clean) == sync' = [sync EXCEPT !.at = "row", !.row = @ + 1, !.clean = clean]

\* upsertTemplateFromMeta: the row of that name is updated or created. A name stands
\* for name and language, and for the provider's id, by which a row is found as well:
\* the provider gives a template that is deleted and added again a new id, and never
\* an id to another name.
Upsert ==
  /\ At("row") /\ sync.row <= Len(sync.got)
  /\ table' = [table EXCEPT ![Current.name] = Current.shape]
  /\ sync' = [sync EXCEPT !.at = "count"]
  /\ UNCHANGED <<meta, mapping, ask, save, send, history, left>>

CountNothing ==  \* faulty variant: the defaults are added to any mapping
  /\ At("count")
  /\ IF Current.name \in DOMAIN Profile THEN sync' = [sync EXCEPT !.at = "default"] ELSE NextRow(sync.clean)
  /\ UNCHANGED <<meta, table, mapping, ask, save, send, history, left>>

\* applyDefaultMappingProfile: a template without any mapping, if it has a profile...
Count ==
  /\ At("count")
  /\ IF Current.name \in DOMAIN Profile /\ mapping[Current.name] = << >>
     THEN sync' = [sync EXCEPT !.at = "default"] ELSE NextRow(sync.clean)
  /\ UNCHANGED <<meta, table, mapping, ask, save, send, history, left>>

\* ...gets the default for each of its variables; duplicates are skipped.
Default ==
  LET n == Current.name
      fresh == (Current.shape.keys \intersect DOMAIN Profile[n]) \ DOMAIN mapping[n]
  IN /\ At("default") /\ NextRow(sync.clean)
     /\ mapping' = [mapping EXCEPT ![n] = [k \in DOMAIN @ \union fresh |->
                                             IF k \in fresh THEN Profile[n][k] ELSE @[k]]]
     /\ UNCHANGED <<meta, table, ask, save, send, history, left>>

\* A statement fails: the row is counted as failed, and the next one follows.
RowFails ==
  /\ \/ At("row") /\ sync.row <= Len(sync.got)
     \/ At("count") \/ At("default")
  /\ Spend("fault") /\ NextRow(FALSE)
  /\ UNCHANGED <<meta, table, mapping, ask, save, send, history>>

Finish ==
  /\ At("row") /\ sync.row > Len(sync.got) /\ Ends(sync.clean)
  /\ UNCHANGED <<meta, table, mapping, save, send, history, left>>

SyncStep == FetchPage \/ FetchFails \/ Upsert \/ Count \/ Default \/ Finish

-----------------------------------------------------------------------------
(* saveTemplateMapping: the variables are checked against the template as it  *)
(* is read; then one transaction deletes the rows that it sees and inserts.  *)

AskSave(r, n, rows) ==
  /\ save[r].at = "idle" /\ Spend("request")
  /\ table[n] # Absent /\ DOMAIN rows \subseteq table[n].keys
  /\ save' = [save EXCEPT ![r] = [NotSaving EXCEPT !.at = "delete", !.name = n, !.rows = rows]]
  /\ UNCHANGED <<meta, table, mapping, sync, ask, send, history>>

DeleteRows(r) ==
  /\ save[r].at = "delete"
  /\ save' = [save EXCEPT ![r].at = "commit", ![r].seen = mapping[save[r].name]]
  /\ UNCHANGED <<meta, table, mapping, sync, ask, send, history, left>>

\* Rows that were committed after the deletion has looked stay; one with the
\* same variable makes the transaction fail.
CommitRows(r) ==
  LET s == save[r]
      now == mapping[s.name]
      stay == {k \in DOMAIN now : k \notin DOMAIN s.seen \/ s.seen[k] # now[k]}
      counted == At("default") /\ Current.name = s.name  \* a sync has looked before
  IN /\ s.at = "commit" /\ save' = [save EXCEPT ![r] = [NotSaving EXCEPT !.at = "done"]]
     /\ IF stay \intersect DOMAIN s.rows # {} THEN UNCHANGED <<mapping, chosen, crossed>>
        ELSE /\ mapping' = [mapping EXCEPT ![s.name] =
                  [k \in stay \union DOMAIN s.rows |-> IF k \in stay THEN now[k] ELSE s.rows[k]]]
             /\ chosen' = [chosen EXCEPT ![s.name] = s.rows]
             /\ crossed' = IF stay = {} /\ ~counted THEN crossed \ {s.name} ELSE crossed \union {s.name}
     /\ UNCHANGED <<meta, table, sync, ask, send, heard, changed, blamed, left>>

-----------------------------------------------------------------------------
(* sendTemplateMessage. *)

FilledAnyhow(row, filled) == row.status = "APPROVED"  \* faulty variant: no parameter is asked for

\* findApprovedTemplate and assertTemplateParameters.
Sendable(row, filled) == row.status = "APPROVED" /\ row.keys \subseteq filled

AskSend(r, n, filled) ==
  /\ send[r].at = "idle" /\ Spend("request") /\ Sendable(table[n], filled)
  /\ send' = [send EXCEPT ![r] =
       [at |-> "ready", name |-> n, row |-> table[n], filled |-> filled \intersect table[n].keys,
        trust |-> IF At("off") /\ sync.clean /\ n \notin changed THEN meta[n] ELSE Absent]]
  /\ UNCHANGED <<meta, table, mapping, sync, ask, save, history>>

\* The provider takes an approved template with exactly its variables. What it
\* takes is recorded then, and only then.
Deliver(r) ==
  LET s == send[r]
      now == meta[s.name]
      taken == now.status = "APPROVED" /\ now.keys = s.row.keys /\ now.keys \subseteq s.filled
  IN /\ s.at = "ready"
     /\ send' = [send EXCEPT ![r] = [NotSending EXCEPT !.at = IF taken THEN "record" ELSE "over"]]
     /\ blamed' = IF ~taken /\ s.trust = now /\ now # Absent THEN blamed \union {r} ELSE blamed
     /\ UNCHANGED <<meta, table, mapping, sync, ask, save, heard, changed, chosen, crossed, left>>

Record(r) ==
  /\ send[r].at = "record" /\ send' = [send EXCEPT ![r].at = "over"]
  /\ UNCHANGED <<meta, table, mapping, sync, ask, save, history, left>>

-----------------------------------------------------------------------------
\* The provider approves, rejects, edits, deletes or adds a template.
Change(n, shape) ==
  /\ shape # meta[n] /\ Spend("change")
  /\ meta' = [meta EXCEPT ![n] = shape]
  /\ changed' = changed \union {n}
  /\ heard' = IF At("off") THEN heard ELSE [heard EXCEPT ![n] = @ \union {shape}]
  /\ UNCHANGED <<table, mapping, sync, ask, save, send, chosen, crossed, blamed>>

\* A request of the staff fails between two of its statements.
RequestFails ==
  /\ Spend("fault")
  /\ \/ \E r \in Saves : /\ save[r].at \in {"delete", "commit"} /\ UNCHANGED send
                         /\ save' = [save EXCEPT ![r] = [NotSaving EXCEPT !.at = "done"]]
     \/ \E r \in Sends : /\ send[r].at \in {"ready", "record"} /\ UNCHANGED save
                         /\ send' = [send EXCEPT ![r] = [NotSending EXCEPT !.at = "over"]]
  /\ UNCHANGED <<meta, table, mapping, sync, ask, history>>

Restart ==
  /\ Spend("fault") /\ Ends(FALSE)
  /\ save' = [r \in Saves |-> NotSaving] /\ send' = [r \in Sends |-> NotSending]
  /\ UNCHANGED <<meta, table, mapping, history>>

Init ==
  /\ meta = Held
  /\ table = [n \in Names |-> Absent]
  /\ mapping = [n \in Names |-> << >>]
  /\ sync = Off
  /\ ask = [r \in Asks |-> "idle"]
  /\ save = [r \in Saves |-> NotSaving]
  /\ send = [r \in Sends |-> NotSending]
  /\ heard = [n \in Names |-> {}] /\ changed = {}
  /\ chosen = [n \in Names |-> << >>]
  /\ crossed = {} /\ blamed = {} /\ left = Budget

Next ==
  \/ \E r \in Asks : Ask(r)
  \/ Timer \/ RowFails
  \/ FetchPage \/ FetchFails \/ Upsert \/ Count \/ Default \/ Finish
  \/ \E r \in Saves :
       \/ \E n \in Names, rows \in Choices : AskSave(r, n, rows)
       \/ DeleteRows(r) \/ CommitRows(r)
  \/ \E r \in Sends :
       \/ \E n \in Names, filled \in Fillings : AskSend(r, n, filled)
       \/ Deliver(r) \/ Record(r)
  \/ \E n \in Names, shape \in Shapes \union {Absent} : Change(n, shape)
  \/ RequestFails \/ Restart

-----------------------------------------------------------------------------
\* After a sync that reported no failure, every template that the provider had
\* throughout is in the table, as the provider had it at some moment of that
\* sync: no page is lost and nothing older is written, whatever is changed,
\* fails or is asked for meanwhile.
SyncedIsRecent ==
  At("off") /\ sync.clean =>
    \A n \in Names : Absent \in heard[n] \/ table[n] \in heard[n]

\* A mapping that an administrator has saved stays: no sync and no other save
\* takes a row of it, and nothing is added, but for what was written by
\* somebody who had looked before it was saved.
ChosenMappingKept ==
  \A n \in Names : chosen[n] # << >> =>
    /\ \A k \in DOMAIN chosen[n] : k \in DOMAIN mapping[n] /\ mapping[n][k] = chosen[n][k]
    /\ n \notin crossed => mapping[n] = chosen[n]

\* The provider refuses no message of a template that it has not changed since
\* the last sync began, if that sync reported no failure before the message was
\* asked for: the table is right, and every variable is filled before the call.
RefusedIsStale == blamed = {}

\* Whoever asks for a sync is answered, even if he asked in the middle of one
\* and the provider fails again and again.
SyncAnswers == \A r \in Asks : ask[r] = "waiting" ~> ask[r] # "waiting"
=============================================================================
