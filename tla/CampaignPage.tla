------------------------------ MODULE CampaignPage ------------------------------
(***************************************************************************)
(* The page on which an administrator puts a campaign together: a template,  *)
(* customers picked one by one or all that a filter matches, a preview that  *)
(* follows the choice through a timer and a request that the next choice     *)
(* aborts, the statement of consent and the button that sends the choice.    *)
(* An action is one callback of the browser with the effects it triggers.    *)
(***************************************************************************)
EXTENDS Naturals, FiniteSets

CONSTANTS
  Customers,
  Filters,   \* what may be searched for
  Matches,   \* the customers that a filter matches
  Fit,       \* customers whom the preview finds eligible
  Approved,  \* the approved templates
  Complete,  \* those whose variables are all mapped
  Budget     \* how often each event may happen

Nothing == "nothing"
Events == {"choice", "press", "offline", "fault"}

ASSUME ConstantsAssumption ==
  /\ Matches \in [Filters -> SUBSET Customers] /\ Fit \subseteq Customers
  /\ Nothing \notin Approved \union Filters /\ Complete \subseteq Approved
  /\ \A e \in Events : Budget[e] \in Nat

VARIABLES
  form,      \* what is chosen
  listed,    \* the filter of the page of customers that is shown
  mapped,    \* templates whose mapping status has arrived
  preview,   \* the preview that is shown: what it is of, how many it estimates
  kept,      \* previewPayloadKeyRef: what the last preview that arrived was of
  loading, failed,
  flights,   \* timers and requests of previews
  consent,
  mutation,  \* the request to create a campaign that is under way
  online,
  asked,     \* history: what the server was asked to create
  left       \* what remains of Budget

shown == <<preview, kept, loading, failed, flights>>
vars == <<form, listed, mapped, shown, consent, mutation, online, asked, left>>

Spend(e) == left[e] > 0 /\ left' = [left EXCEPT ![e] = @ - 1]

-----------------------------------------------------------------------------
(* What follows from the choice. *)

Toggled(S, x) == IF x \in S THEN S \ {x} ELSE S \union {x}

\* buildSelectionPayload.
Payload(f) ==
  [template |-> f.template, all |-> f.all, ids |-> IF f.all THEN {} ELSE f.ids,
   except |-> f.except, filter |-> IF f.all THEN f.filter ELSE Nothing]

NoPayload == [template |-> Nothing, all |-> FALSE, ids |-> {}, except |-> {}, filter |-> Nothing]
NoPreview == [of |-> NoPayload, estimate |-> 0]
Idle == [at |-> "idle", of |-> NoPayload, seen |-> NoPayload, waited |-> FALSE]

\* estimatedSelectedCustomers > 0: for a filter it is counted on the page of
\* customers that is shown, which may still be that of the last filter.
HasSelection(f, l) ==
  IF f.all THEN Cardinality(Matches[l]) > Cardinality(f.except) ELSE f.ids # {}

\* canLoadPreview.
Loadable(f, l, m) == f.template \in m \intersect Complete /\ HasSelection(f, l)

\* previewPayload: what a preview is wanted of.
WantedOf(f, l, m) == IF Loadable(f, l, m) THEN Payload(f) ELSE NoPayload
Wanted == WantedOf(form, listed, mapped)

\* Whom the server selects for a payload, and what a preview of it says.
Selected(p) == (IF p.all THEN Matches[p.filter] ELSE p.ids) \ p.except
Answered(p) == [of |-> p, estimate |-> Cardinality(Selected(p) \intersect Fit)]

NotAborted ==  \* faulty variant: a request that is no longer wanted goes on
  {g \in flights : g.at = "request"}

\* The clean-up of the effect: the timer is cleared, the request is aborted.
Aborted == {[g EXCEPT !.live = FALSE] : g \in {h \in flights : h.at = "request"}}

\* The effect of the preview runs for what is wanted now. A choice whose preview
\* arrived last is not asked for again.
Follow(p) ==
  \/ /\ p = NoPayload
     /\ preview' = NoPreview /\ kept' = NoPayload /\ loading' = FALSE /\ failed' = FALSE
     /\ flights' = Aborted
  \/ /\ p # NoPayload /\ p = kept
     /\ loading' = FALSE /\ flights' = Aborted
     /\ UNCHANGED <<preview, kept, failed>>
  \/ /\ p # NoPayload /\ p # kept
     /\ preview' = NoPreview /\ loading' = TRUE /\ failed' = FALSE
     /\ flights' = Aborted \union {[of |-> p, at |-> "timer", live |-> TRUE]}
     /\ UNCHANGED kept

\* The effect depends on the payload, whose identity a new choice always changes.
FollowIfNew(p) == IF p = Wanted THEN UNCHANGED shown ELSE Follow(p)

Chooses(f) ==
  /\ Spend("choice") /\ form' = f
  /\ Follow(WantedOf(f, listed, mapped))
  /\ UNCHANGED <<listed, mapped, consent, mutation, online, asked>>

-----------------------------------------------------------------------------
(* The choices. *)

SelectTemplate(t) ==
  /\ t # form.template /\ Chooses([form EXCEPT !.template = t])

ToggleCustomer(c) ==
  /\ c \in Matches[listed]
  /\ Chooses(IF form.all THEN [form EXCEPT !.except = Toggled(@, c)]
             ELSE [form EXCEPT !.ids = Toggled(@, c)])

\* The whole page is taken, or taken out if it was taken as a whole.
ToggleCurrentPage ==
  LET page == Matches[listed]
      checked == IF form.all THEN page \intersect form.except = {} ELSE page \subseteq form.ids
  IN /\ page # {}
     /\ Chooses(IF form.all
                THEN [form EXCEPT !.except = IF checked THEN @ \union page ELSE @ \ page]
                ELSE [form EXCEPT !.ids = IF checked THEN @ \ page ELSE @ \union page])

SelectAllSearchResults ==
  /\ Matches[listed] # {}
  /\ Chooses([form EXCEPT !.all = TRUE, !.ids = {}, !.except = {}])

ClearCustomerSelection ==
  /\ HasSelection(form, listed)
  /\ Chooses([form EXCEPT !.all = FALSE, !.ids = {}, !.except = {}])

\* The search or a filter, once typing has paused.
ChangeFilter(x) ==
  /\ x # form.filter /\ Chooses([form EXCEPT !.filter = x])

Choice ==
  \/ \E t \in Approved : SelectTemplate(t)
  \/ \E c \in Customers : ToggleCustomer(c)
  \/ \E x \in Filters : ChangeFilter(x)
  \/ ToggleCurrentPage \/ SelectAllSearchResults \/ ClearCustomerSelection

\* The page of customers, or the mapping of the template, arrives.
PageArrives ==
  /\ listed # form.filter /\ listed' = form.filter
  /\ FollowIfNew(WantedOf(form, form.filter, mapped))
  /\ UNCHANGED <<form, mapped, consent, mutation, online, asked, left>>

MappingArrives ==
  /\ form.template \in Approved \ mapped
  /\ mapped' = mapped \union {form.template}
  /\ FollowIfNew(WantedOf(form, listed, mapped \union {form.template}))
  /\ UNCHANGED <<form, listed, consent, mutation, online, asked, left>>

-----------------------------------------------------------------------------
(* The preview. *)

\* The timer of half a second runs out.
AskPreview ==
  /\ \E g \in flights : /\ g.at = "timer"
                        /\ flights' = (flights \ {g}) \union {[g EXCEPT !.at = "request"]}
  /\ UNCHANGED <<form, listed, mapped, preview, kept, loading, failed, consent, mutation, online,
                 asked, left>>

\* The answer of an aborted request is dropped.
PreviewArrives ==
  /\ \E g \in flights :
       /\ g.at = "request" /\ flights' = flights \ {g}
       /\ IF g.live
          THEN /\ kept' = g.of /\ preview' = Answered(g.of)
               /\ failed' = FALSE /\ loading' = FALSE
          ELSE UNCHANGED <<preview, kept, loading, failed>>
  /\ UNCHANGED <<form, listed, mapped, consent, mutation, online, asked, left>>

PreviewFails ==
  /\ Spend("fault")
  /\ \E g \in flights :
       /\ g.at = "request" /\ g.live /\ flights' = flights \ {g}
       /\ kept' = NoPayload /\ preview' = NoPreview /\ failed' = TRUE /\ loading' = FALSE
  /\ UNCHANGED <<form, listed, mapped, consent, mutation, online, asked>>

-----------------------------------------------------------------------------
(* The campaign. *)

Confirm ==
  /\ ~consent /\ consent' = TRUE
  /\ UNCHANGED <<form, listed, mapped, shown, mutation, online, asked, left>>

\* prepareValidationError is null.
MayPrepare ==
  /\ HasSelection(form, listed) /\ form.template \in mapped \intersect Complete
  /\ ~loading /\ ~failed
  /\ preview # NoPreview /\ preview.estimate > 0
  /\ consent

\* The button. Without a network the mutation is paused.
PrepareCampaign ==
  /\ mutation.at = "idle" /\ MayPrepare /\ Spend("press")
  /\ mutation' = [at |-> IF online THEN "sent" ELSE "paused", of |-> Payload(form),
                  seen |-> preview.of, waited |-> ~online]
  /\ UNCHANGED <<form, listed, mapped, shown, consent, online, asked>>

GoOffline ==
  /\ online /\ Spend("offline") /\ online' = FALSE
  /\ UNCHANGED <<form, listed, mapped, shown, consent, mutation, asked>>

\* A paused mutation goes on with the function of the last rendering: it sends
\* what is chosen by then.
GoOnline ==
  /\ ~online /\ online' = TRUE
  /\ mutation' = IF mutation.at = "paused"
                 THEN [mutation EXCEPT !.at = "sent", !.of = Payload(form)] ELSE mutation
  /\ UNCHANGED <<form, listed, mapped, shown, consent, asked, left>>

\* The server takes the request, and the answer arrives or is lost: for the page
\* the request has failed then, and the button may be pressed again, with a new
\* idempotency key.
CampaignAsked ==
  /\ mutation.at = "sent"
  /\ asked' = asked \union {[of |-> mutation.of, seen |-> mutation.seen, waited |-> mutation.waited]}
  /\ mutation' = Idle
  /\ UNCHANGED <<form, listed, mapped, shown, consent, online, left>>

Init ==
  /\ form = [template |-> Nothing, all |-> FALSE, ids |-> {}, except |-> {},
             filter |-> CHOOSE x \in Filters : TRUE]
  /\ listed = form.filter /\ mapped = {}
  /\ preview = NoPreview /\ kept = NoPayload /\ loading = FALSE /\ failed = FALSE
  /\ flights = {} /\ consent = FALSE /\ mutation = Idle /\ online = TRUE
  /\ asked = {} /\ left = Budget

Arrives == PageArrives \/ MappingArrives \/ AskPreview \/ PreviewArrives

Next ==
  \/ Choice \/ PageArrives \/ MappingArrives
  \/ AskPreview \/ PreviewArrives \/ PreviewFails
  \/ Confirm \/ PrepareCampaign \/ GoOffline \/ GoOnline \/ CampaignAsked

Spec == Init /\ [][Next]_vars

\* Timers run out, and the server answers.
FairSpec == Spec /\ WF_vars(Arrives)

-----------------------------------------------------------------------------
\* A campaign is asked for exactly as the preview showed it that was on the page
\* when the button was pressed, with the same template and the same customers,
\* however choices, timers, aborted requests and late pages follow each other;
\* but for a request that had to wait for the network.
AskedAsPreviewed == \A c \in asked : c.waited \/ c.of = c.seen

\* While the page says that the preview is being prepared it is: the preview
\* appears, it fails, or nothing is chosen any more of which there is one.
PreviewComes ==
  (Wanted # NoPayload /\ preview = NoPreview /\ ~failed) ~>
    (preview # NoPreview \/ failed \/ Wanted = NoPayload)
=============================================================================
