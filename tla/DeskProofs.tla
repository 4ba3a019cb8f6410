------------------------------- MODULE DeskProofs -------------------------------
(***************************************************************************)
(* Proofs about Desk, for all templates, customers, files, browsers and      *)
(* processes and every budget: what the campaign page asks for, what a       *)
(* letter says, which file a row names and a bubble shows, when the          *)
(* microphone is open, what rings and is shown in the inbox, and when a      *)
(* refusal ends. Each scene has an invariant of its own, which no other      *)
(* scene disturbs.                                                           *)
(***************************************************************************)
EXTENDS Desk, FiniteSetTheorems, SequenceTheorems, TLAPS

\* A step plays in one scene and leaves the state of the others alone.
LEMMA OneScene ==
  ASSUME [DeskNext]_deskVars
  PROVE  /\ Next \/ UNCHANGED pageState
         /\ L!LettersNext \/ UNCHANGED letterVars
         /\ M!MediaNext \/ UNCHANGED mediaVars
         /\ C!ComposerNext \/ UNCHANGED composerVars
         /\ I!Next \/ UNCHANGED liveState
         /\ R!LimitNext \/ UNCHANGED limitState
  BY DEF DeskNext, deskVars

-----------------------------------------------------------------------------
(* The campaign page. What is shown, and what is on its way, is a preview of  *)
(* what is wanted now, so the button asks for what the preview is of.         *)

\* What the preview shows, and what a live request is of, is what is wanted.
PreviewOf(wanted) ==
  /\ \A g \in flights : DOMAIN g = {"of", "at", "live"} /\ (g.live => g.of = wanted)
  /\ preview # NoPreview => preview.of = kept /\ kept = wanted

AskedInv ==
  /\ DOMAIN mutation = {"at", "of", "seen", "waited"}
  /\ mutation.waited \/ mutation.of = mutation.seen
  /\ mutation.at = "paused" => mutation.waited
  /\ AskedAsPreviewed

PageInv == PreviewOf(Wanted) /\ AskedInv

LEMMA Followed ==
  ASSUME NEW w, NEW p, PreviewOf(w), Follow(p)
  PROVE  /\ \A g \in flights' : DOMAIN g = {"of", "at", "live"} /\ (g.live => g.of = p)
         /\ preview' # NoPreview => preview'.of = kept' /\ kept' = p
<1>1. \A g \in Aborted : DOMAIN g = {"of", "at", "live"} /\ ~g.live
  BY DEF Aborted, PreviewOf
<1>2. CASE p = NoPayload /\ preview' = NoPreview /\ flights' = Aborted
  BY <1>1, <1>2
<1>3. CASE p = kept /\ flights' = Aborted /\ UNCHANGED <<preview, kept>>
  BY <1>1, <1>3 DEF PreviewOf
<1>4. CASE /\ preview' = NoPreview
           /\ flights' = Aborted \union {[of |-> p, at |-> "timer", live |-> TRUE]}
  BY <1>1, <1>4
<1>5. QED
  BY <1>2, <1>3, <1>4 DEF Follow

\* A choice, and what arrives of the page or the mapping, changes what is wanted,
\* and the preview follows.
LEMMA Wants ==
  ASSUME PageInv,
         \/ Choice \/ PageArrives \/ MappingArrives
         \/ Confirm \/ PrepareCampaign \/ GoOffline \/ GoOnline \/ CampaignAsked
  PROVE  PreviewOf(Wanted)'
<1>1. ASSUME NEW p, Follow(p), Wanted' = p PROVE PreviewOf(Wanted)'
  BY <1>1, Followed DEF PreviewOf, PageInv
<1>2. ASSUME UNCHANGED shown, Wanted' = Wanted PROVE PreviewOf(Wanted)'
  BY <1>2 DEF PreviewOf, PageInv, shown
<1>3. ASSUME NEW f, Chooses(f) PROVE PreviewOf(Wanted)'
  <2>1. Follow(WantedOf(f, listed, mapped)) /\ Wanted' = WantedOf(f, listed, mapped)
    BY <1>3 DEF Chooses, Wanted
  <2>2. QED
    BY <1>1, <2>1
<1>4. CASE Choice
  BY <1>3, <1>4
  DEF Choice, SelectTemplate, ToggleCustomer, ChangeFilter, ToggleCurrentPage,
      SelectAllSearchResults, ClearCustomerSelection
<1>5. CASE PageArrives \/ MappingArrives
  <2>1. PICK p : FollowIfNew(p) /\ Wanted' = p
    BY <1>5 DEF PageArrives, MappingArrives, Wanted
  <2>2. QED
    BY <1>1, <1>2, <2>1 DEF FollowIfNew
<1>6. CASE Confirm \/ PrepareCampaign \/ GoOffline \/ GoOnline \/ CampaignAsked
  <2>1. UNCHANGED <<shown, form, listed, mapped>>
    BY <1>6 DEF Confirm, PrepareCampaign, GoOffline, GoOnline, CampaignAsked
  <2>2. QED
    BY <1>2, <2>1 DEF Wanted
<1>7. QED
  BY <1>4, <1>5, <1>6

\* A preview that arrives is of what is wanted; an aborted one is dropped.
LEMMA Previews ==
  ASSUME PageInv, AskPreview \/ PreviewArrives \/ PreviewFails
  PROVE  PreviewOf(Wanted)'
<1>1. Wanted' = Wanted
  BY DEF AskPreview, PreviewArrives, PreviewFails, Wanted
<1>2. CASE AskPreview
  <2>1. PICK g \in flights : flights' = (flights \ {g}) \union {[g EXCEPT !.at = "request"]}
    BY <1>2 DEF AskPreview
  <2> DEFINE h == [g EXCEPT !.at = "request"]
  <2>2. DOMAIN h = {"of", "at", "live"} /\ h.live = g.live /\ h.of = g.of
    BY DEF PageInv, PreviewOf
  <2>3. UNCHANGED <<preview, kept>>
    BY <1>2 DEF AskPreview
  <2>4. QED
    BY <1>1, <2>1, <2>2, <2>3 DEF PageInv, PreviewOf
<1>3. CASE PreviewArrives
  <2>1. PICK g \in flights :
          /\ flights' = flights \ {g}
          /\ \/ g.live /\ kept' = g.of /\ preview' = Answered(g.of)
             \/ UNCHANGED <<preview, kept>>
    BY <1>3 DEF PreviewArrives
  <2>2. Answered(g.of).of = g.of
    BY DEF Answered
  <2>3. QED
    BY <1>1, <2>1, <2>2 DEF PageInv, PreviewOf
<1>4. CASE PreviewFails
  BY <1>1, <1>4 DEF PreviewFails, PageInv, PreviewOf
<1>5. QED
  BY <1>2, <1>3, <1>4

\* The button is there only while a preview of the choice is shown.
LEMMA Presses ==
  ASSUME PageInv, MayPrepare
  PROVE  preview.of = Payload(form)
  BY DEF PageInv, PreviewOf, MayPrepare, Wanted, WantedOf, Loadable

\* What is asked for stays what was seen.
LEMMA Asks ==
  ASSUME PageInv, Next
  PROVE  AskedInv'
<1>1. CASE UNCHANGED <<mutation, asked>>
  BY <1>1 DEF PageInv, AskedInv, AskedAsPreviewed
<1>2. CASE PrepareCampaign
  BY <1>2, Presses DEF PrepareCampaign, PageInv, AskedInv, AskedAsPreviewed
<1>3. CASE GoOnline
  <2>1. CASE mutation.at = "paused"
    <3>1. mutation' = [mutation EXCEPT !.at = "sent", !.of = Payload(form)] /\ asked' = asked
      BY <1>3, <2>1 DEF GoOnline
    <3>2. DOMAIN mutation' = {"at", "of", "seen", "waited"} /\ mutation'.at = "sent"
      BY <3>1 DEF PageInv, AskedInv
    <3>3. mutation'.waited
      BY <2>1, <3>1 DEF PageInv, AskedInv
    <3>4. QED
      BY <3>1, <3>2, <3>3 DEF PageInv, AskedInv, AskedAsPreviewed
  <2>2. QED
    BY <1>1, <1>3, <2>1 DEF GoOnline
<1>4. CASE CampaignAsked
  <2> DEFINE c == [of |-> mutation.of, seen |-> mutation.seen, waited |-> mutation.waited]
  <2>1. asked' = asked \union {c} /\ mutation' = Idle
    BY <1>4 DEF CampaignAsked
  <2>2. c.waited \/ c.of = c.seen
    BY DEF PageInv, AskedInv
  <2>3. AskedAsPreviewed'
    BY <2>1, <2>2 DEF PageInv, AskedInv, AskedAsPreviewed
  <2>4. QED
    BY <2>1, <2>3 DEF AskedInv, Idle
<1>5. QED
  BY <1>1, <1>2, <1>3, <1>4
  DEF Next, Choice, Chooses, SelectTemplate, ToggleCustomer, ChangeFilter, ToggleCurrentPage,
      SelectAllSearchResults, ClearCustomerSelection, PageArrives, MappingArrives,
      AskPreview, PreviewArrives, PreviewFails, Confirm, GoOffline

LEMMA PageStep == PageInv /\ [DeskNext]_deskVars => PageInv'
<1>1. CASE PageInv /\ Next
  BY <1>1, Wants, Previews, Asks DEF Next, PageInv
<1>2. CASE PageInv /\ UNCHANGED pageState
  BY <1>2 DEF pageState, shown, PageInv, PreviewOf, Wanted, AskedInv, AskedAsPreviewed
<1>3. QED
  BY <1>1, <1>2, OneScene

LEMMA PageStart == Init => PageInv
  BY DEF Init, PageInv, PreviewOf, AskedInv, AskedAsPreviewed, Idle

\* A campaign is asked for as the preview on the page showed it, but for a request
\* that had to wait for the network.
THEOREM CampaignIsAsPreviewed == DeskSpec => []AskedAsPreviewed
<1>1. DeskInit => PageInv
  BY PageStart DEF DeskInit
<1>2. PageInv => AskedAsPreviewed
  BY DEF PageInv, AskedInv
<1>3. QED
  BY <1>1, <1>2, PageStep, PTL DEF DeskSpec

-----------------------------------------------------------------------------
(* The composer. A stream that the page does not show and that no stop event  *)
(* is due for is one that the references of its composer have lost.           *)

Tickets == Nat \X Nat
Refs == [stream : Tickets, rec : Tickets, action : {"none", "send", "cancel"},
         for : People \union {C!Empty}]

\* The recorder of the stream that the present composer names, if it names one.
Named == mics[C!Current].stream

VoiceType ==
  /\ selected \in People /\ recording \in BOOLEAN
  /\ mics \in Seq(Refs) /\ Len(mics) > 0
  /\ prompts \union streams \union ending \subseteq Tickets \ {C!NoStream}
  /\ \A s \in prompts \union streams \union ending : C!Home(s) \in DOMAIN mics

VoiceInv ==
  /\ VoiceType
  /\ \A s \in prompts : C!Home(s) = C!Current => C!Mounted
  /\ recording => C!Mounted
  /\ Named \in {C!NoStream, mics[C!Current].rec}
  /\ C!MicrophoneClosed

\* Writing one composer's references leaves those of the others.
LEMMA MicWritten ==
  ASSUME NEW ms \in Seq(Refs), Len(ms) > 0, NEW k \in DOMAIN ms, NEW r \in Refs
  PROVE  /\ [ms EXCEPT ![k] = r] \in Seq(Refs)
         /\ Len([ms EXCEPT ![k] = r]) = Len(ms)
         /\ DOMAIN [ms EXCEPT ![k] = r] = DOMAIN ms
         /\ [ms EXCEPT ![k] = r][k] = r
         /\ k # Len(ms) => [ms EXCEPT ![k] = r][Len(ms)] = ms[Len(ms)]
  OBVIOUS

\* A composer that goes stops its stream, and none has asked its successor.
LEMMA Unmounting ==
  ASSUME VoiceInv, NEW s \in People, NEW S, C!Unmounts(s, S), selected' = s, inList' = S
  PROVE  VoiceInv'
<1>1. CASE C!Mounted /\ s \notin S
  <2>1. /\ streams' = streams \ {Named} /\ ending' = ending \union ({Named} \intersect streams)
        /\ mics' = Append(mics, C!Off) /\ recording' = FALSE
        /\ prompts' = prompts /\ stray' = stray
    BY <1>1 DEF C!Unmounts, Named
  <2>2. /\ mics \in Seq(Refs) /\ Len(mics) \in Nat /\ DOMAIN mics = 1..Len(mics) /\ C!Off \in Refs
    BY DEF VoiceInv, VoiceType, C!Off, C!NoStream, Refs, Tickets
  <2>3. /\ mics' \in Seq(Refs) /\ Len(mics') = Len(mics) + 1 /\ DOMAIN mics' = 1..(Len(mics) + 1)
        /\ mics'[Len(mics')] = C!Off
    BY <2>1, <2>2
  <2>4. VoiceType'
    <3>1. DOMAIN mics \subseteq DOMAIN mics'
      BY <2>2, <2>3
    <3>2. /\ prompts' \union streams' \union ending' \subseteq prompts \union streams \union ending
          /\ Len(mics') > 0
      BY <2>1, <2>2, <2>3
    <3>3. /\ prompts' \union streams' \union ending' \subseteq Tickets \ {C!NoStream}
          /\ \A q \in prompts' \union streams' \union ending' : C!Home(q) \in DOMAIN mics'
      BY <3>1, <3>2 DEF VoiceInv, VoiceType
    <3>4. QED
      BY <2>1, <2>3, <3>2, <3>3 DEF VoiceType
  <2>5. \A q \in prompts' : C!Home(q) # Len(mics')
    <3>1. \A q \in prompts' : C!Home(q) \in DOMAIN mics
      BY <2>1 DEF VoiceInv, VoiceType
    <3>2. Len(mics') \notin DOMAIN mics
      BY <2>2, <2>3
    <3>3. QED
      BY <3>1, <3>2
  <2>6. C!MicrophoneClosed'
    BY <2>1 DEF VoiceInv, C!MicrophoneClosed, C!Visible, Named
  <2>7. Named' = C!NoStream
    BY <2>3 DEF Named, C!Off, C!Current
  <2>8. QED
    BY <2>1, <2>4, <2>5, <2>6, <2>7 DEF VoiceInv, C!Current
<1>2. CASE ~(C!Mounted /\ s \notin S)
  <2>1. UNCHANGED <<mics, recording, prompts, streams, ending, stray>>
    BY <1>2 DEF C!Unmounts, C!voice
  <2>2. C!Mounted => C!Mounted'
    BY <1>2 DEF C!Mounted
  <2>3. QED
    BY <2>1, <2>2
    DEF VoiceInv, VoiceType, C!MicrophoneClosed, C!Visible, C!Current, Named
<1>3. QED
  BY <1>1, <1>2

\* A stream that arrives is shown, or lost with the composer that asked for it.
LEMMA Granting ==
  ASSUME VoiceInv, NEW s, C!Granted(s)
  PROVE  VoiceInv'
<1> DEFINE k == C!Home(s)
           r == [C!Off EXCEPT !.stream = s, !.rec = s]
<1>1. /\ s \in prompts /\ prompts' = prompts \ {s} /\ streams' = streams \union {s}
      /\ mics' = [mics EXCEPT ![k] = r]
      /\ recording' = (recording \/ k = C!Current)
      /\ stray' = stray \union C!Replaced(k) \union (IF k = C!Current THEN {} ELSE {s})
      /\ ending' = ending /\ selected' = selected /\ inList' = inList
  BY DEF C!Granted
<1>2. /\ s \in Tickets /\ s # C!NoStream /\ k \in DOMAIN mics
  BY <1>1 DEF VoiceInv, VoiceType
<1>3. r \in Refs /\ r.stream = s /\ r.rec = s
  BY <1>2 DEF Refs, C!Off, C!NoStream, Tickets
<1> HIDE DEF k, r
<1>4. /\ mics' \in Seq(Refs) /\ Len(mics') = Len(mics) /\ DOMAIN mics' = DOMAIN mics
      /\ mics'[k] = r /\ (k # Len(mics) => mics'[Len(mics)] = mics[Len(mics)])
  BY <1>1, <1>2, <1>3, MicWritten DEF VoiceInv, VoiceType
<1>5. C!Mounted' = C!Mounted
  BY <1>1 DEF C!Mounted
<1>6. VoiceType'
  BY <1>1, <1>2, <1>4 DEF VoiceInv, VoiceType
<1>7. CASE k = C!Current
  <2>1. C!Mounted
    BY <1>1, <1>7 DEF VoiceInv, k
  <2>2. Named' = s /\ mics'[C!Current'].rec = s
    BY <1>3, <1>4, <1>7 DEF Named, C!Current
  <2>3. \A u \in streams \ stray : u \in ending \/ u = Named
    BY DEF VoiceInv, C!MicrophoneClosed, C!Visible, Named
  <2>4. \A u \in streams' \ stray' : u \in ending' \/ u = s
    BY <1>1, <1>7, <2>3 DEF C!Replaced, VoiceInv, VoiceType, Named
  <2>5. C!MicrophoneClosed'
    BY <1>1, <1>5, <1>7, <2>1, <2>2, <2>4 DEF C!MicrophoneClosed, C!Visible, Named
  <2>6. QED
    BY <1>1, <1>4, <1>5, <1>6, <2>1, <2>2, <2>5 DEF VoiceInv, C!Current
<1>8. CASE k # C!Current
  <2>1. mics'[C!Current'] = mics[C!Current] /\ C!Current' = C!Current
    BY <1>4, <1>8 DEF C!Current
  <2>2. C!MicrophoneClosed'
    BY <1>1, <1>5, <1>8, <2>1 DEF VoiceInv, C!MicrophoneClosed, C!Visible
  <2>3. QED
    BY <1>1, <1>5, <1>6, <1>8, <2>1, <2>2 DEF VoiceInv, Named
<1>9. QED
  BY <1>7, <1>8

\* What the catch block closes, and what it leaves open.
LEMMA GivingUp ==
  ASSUME VoiceInv, NEW s, C!Refused(s) \/ C!NoRecorder(s)
  PROVE  VoiceInv'
<1> DEFINE k == C!Home(s)
           x == mics[k].stream
<1>1. /\ s \in prompts /\ prompts' = prompts \ {s}
      /\ recording' = (recording /\ k # C!Current)
      /\ selected' = selected /\ inList' = inList
  BY DEF C!Refused, C!NoRecorder
<1>2. /\ s \in Tickets /\ s # C!NoStream /\ k \in DOMAIN mics
      /\ mics \in Seq(Refs) /\ Len(mics) > 0
  BY <1>1 DEF VoiceInv, VoiceType
<1>3. PICK r \in Refs : /\ mics' = [mics EXCEPT ![k] = r] /\ r.stream = C!NoStream
  <2>1. mics[k] \in Refs
    BY <1>2
  <2>2. CASE mics' = [mics EXCEPT ![k].stream = C!NoStream]
    <3>1. [mics[k] EXCEPT !.stream = C!NoStream] \in Refs
      BY <2>1 DEF Refs, C!NoStream, Tickets
    <3>2. [mics[k] EXCEPT !.stream = C!NoStream].stream = C!NoStream
      BY <2>1 DEF Refs
    <3>3. QED
      BY <2>2, <3>1, <3>2
  <2>3. CASE mics' = [mics EXCEPT ![k] = [C!Off EXCEPT !.rec = s]]
    <3>1. [C!Off EXCEPT !.rec = s] \in Refs /\ [C!Off EXCEPT !.rec = s].stream = C!NoStream
      BY <1>2 DEF Refs, C!Off, C!NoStream, Tickets
    <3>2. QED
      BY <2>3, <3>1
  <2>4. QED
    BY <2>2, <2>3 DEF C!Refused, C!NoRecorder
<1>4. \/ /\ streams' \in {streams \ {x}, (streams \ {x}) \union {s}}
         /\ ending' = ending \union ({x} \intersect streams)
         /\ stray' = stray \union (streams' \intersect {s})
      \/ /\ streams' = streams \ {x} /\ ending' = ending \union ({x} \intersect streams)
         /\ stray' = stray
      \/ UNCHANGED <<streams, ending>> /\ stray' = stray \union C!Replaced(k)
  BY <1>2 DEF C!Refused, C!NoRecorder
<1>5. streams' \subseteq streams \union {s} /\ ending \subseteq ending' /\ ending' \subseteq ending \union streams
  BY <1>4
<1> HIDE DEF k
<1>6. /\ mics' \in Seq(Refs) /\ Len(mics') = Len(mics) /\ DOMAIN mics' = DOMAIN mics
      /\ mics'[k] = r /\ (k # Len(mics) => mics'[Len(mics)] = mics[Len(mics)])
  BY <1>2, <1>3, MicWritten
<1>7. C!Mounted' = C!Mounted
  BY <1>1 DEF C!Mounted
<1>8. VoiceType'
  BY <1>1, <1>2, <1>5, <1>6 DEF VoiceInv, VoiceType, k
<1>9. CASE k = C!Current
  <2>1. Named' = C!NoStream
    BY <1>3, <1>6, <1>9 DEF Named, C!Current
  <2>2. x = Named
    BY <1>9 DEF Named
  <2>3. \A u \in streams \ stray : u \in ending \/ u = x
    BY <2>2 DEF VoiceInv, C!MicrophoneClosed, C!Visible, Named
  <2>4. \A u \in streams' \ stray' : u \in ending'
    BY <1>4, <2>3 DEF C!Replaced, VoiceInv, VoiceType
  <2>5. QED
    BY <1>1, <1>6, <1>7, <1>8, <1>9, <2>1, <2>4 DEF VoiceInv, C!Current, C!MicrophoneClosed
<1>10. CASE k # C!Current
  <2>1. mics'[C!Current'] = mics[C!Current] /\ C!Current' = C!Current
    BY <1>6, <1>10 DEF C!Current
  <2>2. \A u \in streams' \ stray' : u \in ending' \/ (u \in streams \ stray)
    BY <1>4
  <2>3. C!MicrophoneClosed'
    BY <1>1, <1>5, <1>7, <1>10, <2>1, <2>2 DEF VoiceInv, C!MicrophoneClosed, C!Visible
  <2>4. QED
    BY <1>1, <1>7, <1>8, <1>10, <2>1, <2>3 DEF VoiceInv, Named
<1>11. QED
  BY <1>9, <1>10

\* A press stops the recorder that runs; the stream that is shown has one.
LEMMA Pressing ==
  ASSUME VoiceInv, NEW a \in {"send", "cancel"}, C!StopRecorder(a)
  PROVE  VoiceInv'
<1> DEFINE k == Len(mics)
           r == [mics[k] EXCEPT !.action = a, !.for = selected]
<1>1. /\ recording /\ prompts' = prompts /\ streams' = streams /\ stray' = stray
      /\ selected' = selected /\ inList' = inList
      /\ mics' = [mics EXCEPT ![k] = r]
      /\ IF mics[k].rec \in streams \ ending
         THEN ending' = ending \union {mics[k].rec} /\ recording' = recording
         ELSE recording' = FALSE /\ ending' = ending
  BY DEF C!StopRecorder, C!Current
<1>2. k \in DOMAIN mics /\ mics[k] \in Refs /\ mics \in Seq(Refs) /\ Len(mics) > 0
  BY DEF VoiceInv, VoiceType
<1>3. r \in Refs /\ r.stream = mics[k].stream /\ r.rec = mics[k].rec
  BY <1>2 DEF Refs, VoiceInv, VoiceType
<1> HIDE DEF r
<1>4. /\ mics' \in Seq(Refs) /\ Len(mics') = Len(mics) /\ DOMAIN mics' = DOMAIN mics
      /\ mics'[k] = r
  BY <1>1, <1>2, <1>3, MicWritten
<1>5. C!Mounted' = C!Mounted
  BY <1>1 DEF C!Mounted
<1>6. VoiceType'
  BY <1>1, <1>4 DEF VoiceInv, VoiceType
<1>7. Named' = Named /\ mics'[C!Current'].rec = mics[C!Current].rec /\ C!Current' = C!Current
  BY <1>3, <1>4 DEF Named, C!Current
<1>8. C!MicrophoneClosed'
  <2>1. CASE mics[k].rec \in streams \ ending
    BY <1>1, <1>5, <1>7, <2>1 DEF VoiceInv, C!MicrophoneClosed, C!Visible, Named
  <2>2. CASE mics[k].rec \notin streams \ ending
    BY <1>1, <2>2
    DEF VoiceInv, VoiceType, C!MicrophoneClosed, C!Visible, Named, C!Current
  <2>3. QED
    BY <2>1, <2>2
<1>9. QED
  BY <1>1, <1>5, <1>6, <1>7, <1>8 DEF VoiceInv

\* The stop event closes its own stream and may forget another one.
LEMMA Stopping ==
  ASSUME VoiceInv, NEW s, C!OnStop(s)
  PROVE  VoiceInv'
<1> DEFINE k == C!Home(s)
<1>1. /\ s \in ending /\ ending' = ending \ {s} /\ streams' = streams \ {s}
      /\ mics' = [mics EXCEPT ![k] = C!Off]
      /\ recording' = (recording /\ k # C!Current)
      /\ stray' = stray \union (C!Replaced(k) \ {s})
      /\ prompts' = prompts /\ selected' = selected /\ inList' = inList
  BY DEF C!OnStop, C!Stopped
<1>2. k \in DOMAIN mics /\ mics \in Seq(Refs) /\ Len(mics) > 0 /\ C!Off \in Refs
  BY <1>1 DEF VoiceInv, VoiceType, Refs, C!Off, C!NoStream, Tickets
<1> HIDE DEF k
<1>3. /\ mics' \in Seq(Refs) /\ Len(mics') = Len(mics) /\ DOMAIN mics' = DOMAIN mics
      /\ mics'[k] = C!Off /\ (k # Len(mics) => mics'[Len(mics)] = mics[Len(mics)])
  BY <1>1, <1>2, MicWritten
<1>4. C!Mounted' = C!Mounted
  BY <1>1 DEF C!Mounted
<1>5. VoiceType'
  BY <1>1, <1>3 DEF VoiceInv, VoiceType
<1>6. CASE k = C!Current
  <2>1. Named' = C!NoStream
    BY <1>3, <1>6 DEF Named, C!Current, C!Off
  <2>2. \A u \in streams \ stray : u \in ending \/ u = mics[k].stream
    BY <1>6 DEF VoiceInv, C!MicrophoneClosed, C!Visible
  <2>3. \A u \in streams' \ stray' : u \in ending'
    BY <1>1, <2>2 DEF C!Replaced, VoiceInv, VoiceType
  <2>4. QED
    BY <1>1, <1>3, <1>4, <1>5, <1>6, <2>1, <2>3 DEF VoiceInv, C!Current, C!MicrophoneClosed
<1>7. CASE k # C!Current
  <2>1. mics'[C!Current'] = mics[C!Current] /\ C!Current' = C!Current
    BY <1>3, <1>7 DEF C!Current
  <2>2. C!MicrophoneClosed'
    BY <1>1, <1>4, <1>7, <2>1 DEF VoiceInv, C!MicrophoneClosed, C!Visible
  <2>3. QED
    BY <1>1, <1>4, <1>5, <1>7, <2>1, <2>2 DEF VoiceInv, Named
<1>8. QED
  BY <1>6, <1>7

\* A prompt is opened by the composer on the page.
LEMMA Asking ==
  ASSUME VoiceInv, NEW n, C!StartRecording(n)
  PROVE  VoiceInv'
<1>1. /\ C!Mounted /\ n \in Nat \ {0} /\ prompts' = prompts \union {<<n, C!Current>>}
      /\ UNCHANGED <<selected, inList, mics, recording, streams, ending, stray>>
  BY DEF C!StartRecording, C!Unused, C!Numbers
<1>2. /\ <<n, C!Current>> \in Tickets \ {C!NoStream} /\ C!Home(<<n, C!Current>>) = C!Current
      /\ C!Current \in DOMAIN mics
  BY <1>1 DEF Tickets, C!NoStream, C!Home, C!Current, VoiceInv, VoiceType
<1>3. VoiceType'
  BY <1>1, <1>2 DEF VoiceInv, VoiceType
<1>4. C!Mounted' /\ C!Current' = C!Current
  BY <1>1 DEF C!Mounted, C!Current
<1>5. QED
  BY <1>1, <1>2, <1>3, <1>4 DEF VoiceInv, Named, C!MicrophoneClosed, C!Visible, C!Current

LEMMA VoiceStep == VoiceInv /\ [DeskNext]_deskVars => VoiceInv'
<1> SUFFICES ASSUME VoiceInv, [DeskNext]_deskVars PROVE VoiceInv'
  OBVIOUS
<1>1. CASE UNCHANGED <<selected, inList, mics, recording, prompts, streams, ending, stray>>
  BY <1>1
  DEF VoiceInv, VoiceType, Named, C!MicrophoneClosed, C!Visible, C!Mounted, C!Current
<1>2. CASE C!ComposerNext
  <2>1. ASSUME NEW c \in People, C!SelectConversation(c) PROVE VoiceInv'
    BY <2>1, Unmounting DEF C!SelectConversation
  <2>2. ASSUME NEW S, C!ListChanges(S) PROVE VoiceInv'
    BY <2>2, Unmounting DEF C!ListChanges, VoiceInv, VoiceType
  <2>3. CASE \/ \E x \in Drafts \union {C!Empty} : C!Type(x)
             \/ \E f \in Papers \union {C!Empty} : C!Attach(f)
             \/ C!SendText \/ C!SendFile \/ C!GoesOffline \/ C!GoesOnline
             \/ \E p \in posts : C!PostSucceeds(p) \/ C!PostFails(p)
    <3> DEFINE Kept == UNCHANGED <<selected, inList>> /\ UNCHANGED C!voice
    <3>1. ASSUME NEW x, C!Type(x) PROVE Kept
      BY <3>1 DEF C!Type
    <3>2. ASSUME NEW f, C!Attach(f) PROVE Kept
      BY <3>2 DEF C!Attach
    <3>3. ASSUME C!SendText \/ C!SendFile PROVE Kept
      BY <3>3 DEF C!SendText, C!SendFile
    <3>4. ASSUME C!GoesOffline \/ C!GoesOnline PROVE Kept
      <4>1. CASE C!GoesOffline
        BY <4>1 DEF C!GoesOffline
      <4>2. CASE C!GoesOnline
        BY <4>2 DEF C!GoesOnline
      <4>3. QED
        BY <3>4, <4>1, <4>2
    <3>5. ASSUME NEW p, C!PostSucceeds(p) \/ C!PostFails(p) PROVE Kept
      BY <3>5 DEF C!PostSucceeds, C!PostFails
    <3> HIDE DEF Kept
    <3>6. Kept
      BY <2>3, <3>1, <3>2, <3>3, <3>4, <3>5
    <3>7. QED
      BY <1>1, <3>6 DEF C!voice, Kept
  <2>4. QED
    BY <1>2, <2>1, <2>2, <2>3, Asking, Granting, GivingUp, Pressing, Stopping
    DEF C!ComposerNext
<1>3. CASE UNCHANGED composerVars
  BY <1>1, <1>3 DEF composerVars
<1>4. QED
  BY <1>2, <1>3, OneScene

\* A stream of the microphone that is open is shown on the page, or its stop event
\* is due, or it is one of those that the references of a composer have lost, for
\* any presses, prompts, selections and stop events in any order.
THEOREM MicrophoneIsClosed == DeskSpec => []MicrophoneClosed
<1>1. DeskInit => VoiceInv
  <2> SUFFICES ASSUME DeskInit PROVE VoiceInv
    OBVIOUS
  <2>1. /\ selected \in People /\ mics = <<C!Off>> /\ recording = FALSE /\ prompts = {}
        /\ streams = {} /\ ending = {}
    BY DEF DeskInit, C!ComposerInit
  <2>2. C!Off \in Refs /\ C!Off.stream = C!NoStream
    BY DEF Refs, C!Off, C!NoStream, Tickets
  <2>3. mics \in Seq(Refs) /\ Len(mics) = 1 /\ mics[1] = C!Off
    BY <2>1, <2>2
  <2>4. VoiceType
    <3>1. prompts \union streams \union ending = {}
      BY <2>1
    <3>2. recording \in BOOLEAN
      BY <2>1
    <3>3. QED
      BY <2>1, <2>3, <3>1, <3>2 DEF VoiceType
  <2>5. Named = C!NoStream
    BY <2>2, <2>3 DEF Named, C!Current
  <2>6. QED
    BY <2>1, <2>4, <2>5 DEF VoiceInv, C!MicrophoneClosed
<1>2. VoiceInv => MicrophoneClosed
  BY DEF VoiceInv, MicrophoneClosed
<1>3. QED
  BY <1>1, <1>2, VoiceStep, PTL DEF DeskSpec

-----------------------------------------------------------------------------
(* The letters.                                                              *)

\* A value that is not missing goes blank only in a transformer that erases, and a
\* debt without a fallback stays a number.
LEMMA Words ==
  ASSUME NEW rule \in Rules, NEW d \in Contents, ~L!Resolved(d, rule).missing
  PROVE  LET word == L!Resolved(d, rule).value
         IN /\ word \in L!Values
            /\ word = "blank" => rule.transformer \in L!Erasing
            /\ rule.field = "debtAmount" /\ rule.fallback = "blank" => word = "number"
<1> DEFINE raw == d[rule.field]
           missing == L!Missing(raw, rule)
           used == IF missing /\ rule.fallback # "blank" THEN rule.fallback ELSE raw
           word == L!Transformed[rule.transformer][used]
<1>1. rule \in [field : L!Fields, transformer : L!Transformers, fallback : L!Values]
  BY DeskAssumption DEF L!LettersConstants
<1>2. raw \in L!Values
  BY <1>1, DeskAssumption DEF L!LettersConstants
<1>3. L!Resolved(d, rule) = [value |-> word, missing |-> missing /\ rule.fallback = "blank"]
  BY DEF L!Resolved, L!Raw
<1>4. ~(missing /\ rule.fallback = "blank")
  <2>1. \A w, b : [value |-> w, missing |-> b].missing = b
    OBVIOUS
  <2>2. L!Resolved(d, rule).missing = (missing /\ rule.fallback = "blank")
    BY <1>3, <2>1, Zenon
  <2>3. QED
    BY <2>2, Zenon
<1>5. used \in L!Values /\ used # "blank"
  BY <1>1, <1>2, <1>4 DEF L!Missing
<1>6. rule.field = "debtAmount" /\ rule.fallback = "blank" => used = "number"
  BY <1>4 DEF L!Missing
<1>7. L!Resolved(d, rule).value = word
  BY <1>3
<1> HIDE DEF used
<1>8. /\ word \in L!Values /\ (word = "blank" => rule.transformer \in L!Erasing)
      /\ used = "number" => word = "number"
  <2>1. used \in {"zero", "word", "number"}
    BY <1>5 DEF L!Values
  <2>2. rule.transformer \in {"identity", "identity_last4", "currency", "plainNumber"}
    BY <1>1 DEF L!Transformers
  <2>3. QED
    BY <2>1, <2>2 DEF L!Transformed, L!Values, L!Erasing
<1>9. QED
  BY <1>6, <1>7, <1>8

RulesFit(text, rules) == L!IsComplete(text, rules) /\ \A v \in text : rules[v] \in Rules

\* The parameters of an eligible debt are the words of its variables.
LEMMA Filling ==
  ASSUME NEW text, NEW rules, NEW d, RulesFit(text, rules)
  PROVE  LET params == L!Parameters(text, rules, d)
         IN /\ DOMAIN params = text
            /\ \A v \in text : params[v] = L!Resolved(d, rules[v]).value
            /\ L!Eligible(text, rules, d) => \A v \in text : ~L!Resolved(d, rules[v]).missing
<1>1. \A v \in text : v \in text \intersect DOMAIN rules
  BY DEF RulesFit, L!IsComplete
<1>2. \A v \in text : L!ValueFor(text, rules, d, v) = L!Resolved(d, rules[v]).value
  BY <1>1 DEF L!ValueFor
<1>3. L!Eligible(text, rules, d) => \A v \in text : ~L!Resolved(d, rules[v]).missing
  BY DEF L!Eligible, L!Unresolved
<1>4. QED
  BY <1>2, <1>3 DEF L!Parameters

JobFields == {"at", "text", "rules", "rows"}

LettersTyped ==
  /\ \A v \in DOMAIN mapping : mapping[v] \in Rules
  /\ data \in [Rows -> Contents]
  /\ DOMAIN fate = Rows
  /\ DOMAIN glimpse = JobFields /\ DOMAIN job = JobFields

\* A letter holds the words of a debt that was eligible for the template and the
\* mapping of the preparation.
Prepared ==
  /\ job.at = "rows" => RulesFit(job.text, job.rules)
  /\ \A r \in DOMAIN letters :
       /\ r \in Rows /\ job.at = "rows"
       /\ \E d \in Contents : /\ L!Eligible(job.text, job.rules, d)
                              /\ letters[r] = L!Parameters(job.text, job.rules, d)

\* A letter that was refused does not fit the template that the provider had.
Unfit(params, text) ==
  DOMAIN params = text => \E v \in text : params[v] \in {"blank", "placeholder"}

Judged ==
  \A r \in Rows : fate[r].at # "none" =>
    /\ job.at = "rows" /\ job.rows = {} /\ r \in DOMAIN letters
    /\ fate[r].at = "refused" => Unfit(letters[r], fate[r].text)

\* While nothing changed, what was read is what is there.
AsRead ==
  /\ glimpse.at # "idle" => glimpse.text = template
  /\ glimpse.at \in {"rows", "shown"} => glimpse.rules = mapping
  /\ glimpse.at = "shown" =>
       \A r \in Rows : L!IsComplete(template, mapping) /\ L!Eligible(template, mapping, data[r])
                         => r \in glimpse.rows
  /\ job.at # "idle" => job.text = template
  /\ job.at = "rows" => job.rules = mapping
  /\ \A r \in DOMAIN letters : L!Eligible(job.text, job.rules, data[r])

LettersInv == LettersTyped /\ Prepared /\ Judged /\ (changed \/ AsRead)

LEMMA LettersFitting == LettersInv => L!LettersFit
<1> SUFFICES ASSUME LettersInv, NEW r \in DOMAIN letters
             PROVE  /\ glimpse.at = "shown" /\ ~changed => r \in glimpse.rows
                    /\ fate[r].at = "refused" =>
                         \/ fate[r].text # job.text
                         \/ \E v \in job.text : letters[r][v] = "blank"
                                                /\ job.rules[v].transformer \in L!Erasing
                    /\ \A v \in job.text :
                         job.rules[v].field = "debtAmount" /\ job.rules[v].fallback = "blank" =>
                           letters[r][v] = "number"
  BY DEF L!LettersFit
<1>1. RulesFit(job.text, job.rules) /\ job.at = "rows" /\ r \in Rows
  BY DEF LettersInv, Prepared
<1>2. PICK d \in Contents : /\ L!Eligible(job.text, job.rules, d)
                            /\ letters[r] = L!Parameters(job.text, job.rules, d)
  BY DEF LettersInv, Prepared
<1>3. /\ DOMAIN letters[r] = job.text
      /\ \A v \in job.text : /\ letters[r][v] = L!Resolved(d, job.rules[v]).value
                             /\ ~L!Resolved(d, job.rules[v]).missing
  BY <1>1, <1>2, Filling
<1>4. ASSUME NEW v \in job.text
      PROVE  /\ letters[r][v] \in L!Values
             /\ letters[r][v] = "blank" => job.rules[v].transformer \in L!Erasing
             /\ job.rules[v].field = "debtAmount" /\ job.rules[v].fallback = "blank" =>
                  letters[r][v] = "number"
  <2>1. job.rules[v] \in Rules
    BY <1>1 DEF RulesFit
  <2>2. QED
    BY <1>3, <2>1, Words
<1>5. glimpse.at = "shown" /\ ~changed => r \in glimpse.rows
  BY <1>1 DEF LettersInv, AsRead, RulesFit
<1>6. ASSUME fate[r].at = "refused", fate[r].text = job.text
      PROVE  \E v \in job.text : letters[r][v] = "blank" /\ job.rules[v].transformer \in L!Erasing
  <2>1. PICK v \in job.text : letters[r][v] \in {"blank", "placeholder"}
    BY <1>1, <1>3, <1>6 DEF LettersInv, Judged, Unfit
  <2>2. QED
    BY <1>4, <2>1 DEF L!Values
<1>7. QED
  BY <1>4, <1>5, <1>6

\* The preview writes what only it reads.
LEMMA Glimpses ==
  ASSUME LettersInv, L!PreviewTemplate \/ L!PreviewMapping \/ L!PreviewRows
  PROVE  LettersInv'
<1>1. UNCHANGED <<template, mapping, data, job, letters, fate>>
  BY DEF L!PreviewTemplate, L!PreviewMapping, L!PreviewRows
<1>2. Prepared' /\ Judged'
  BY <1>1 DEF LettersInv, Prepared, Judged
<1>3. CASE L!PreviewTemplate
  <2>1. /\ glimpse' = [L!Fresh EXCEPT !.at = "mapping", !.text = template]
        /\ changed' = (changed /\ job.at # "idle")
    BY <1>3 DEF L!PreviewTemplate
  <2>2. DOMAIN glimpse' = JobFields /\ glimpse'.at = "mapping" /\ glimpse'.text = template
    BY <2>1 DEF L!Fresh, JobFields
  <2>3. job.at = "idle" => DOMAIN letters = {}
    BY DEF LettersInv, Prepared
  <2>4. QED
    BY <1>1, <1>2, <2>1, <2>2, <2>3 DEF LettersInv, LettersTyped, AsRead
<1>4. CASE L!PreviewMapping
  <2>1. /\ glimpse.at = "mapping" /\ glimpse' = [glimpse EXCEPT !.at = "rows", !.rules = mapping]
        /\ changed' = changed
    BY <1>4 DEF L!PreviewMapping
  <2>2. /\ DOMAIN glimpse' = JobFields /\ glimpse'.at = "rows" /\ glimpse'.text = glimpse.text
        /\ glimpse'.rules = mapping
    BY <2>1 DEF LettersInv, LettersTyped, JobFields
  <2>3. QED
    BY <1>1, <1>2, <2>1, <2>2 DEF LettersInv, LettersTyped, AsRead
<1>5. CASE L!PreviewRows
  <2> DEFINE found == {r \in Rows : /\ L!IsComplete(glimpse.text, glimpse.rules)
                                    /\ L!Unresolved(glimpse.text, glimpse.rules, data[r]) = {}}
  <2>1. /\ glimpse.at = "rows" /\ glimpse' = [glimpse EXCEPT !.at = "shown", !.rows = found]
        /\ changed' = changed
    BY <1>5 DEF L!PreviewRows
  <2>2. \A r \in Rows :
          L!IsComplete(glimpse.text, glimpse.rules) /\ L!Eligible(glimpse.text, glimpse.rules, data[r])
            => r \in found
    BY DEF L!Eligible
  <2> HIDE DEF found
  <2>3. /\ DOMAIN glimpse' = JobFields /\ glimpse'.at = "shown" /\ glimpse'.text = glimpse.text
        /\ glimpse'.rules = glimpse.rules /\ glimpse'.rows = found
    BY <2>1 DEF LettersInv, LettersTyped, JobFields
  <2>4. QED
    BY <1>1, <1>2, <2>1, <2>2, <2>3 DEF LettersInv, LettersTyped, AsRead
<1>6. QED
  BY <1>3, <1>4, <1>5

\* The preparation reads before there is a letter.
LEMMA Prepares ==
  ASSUME LettersInv, L!PrepareTemplate \/ L!PrepareMapping
  PROVE  LettersInv'
<1>1. UNCHANGED <<template, mapping, data, glimpse, letters, fate, changed>> /\ job.at # "rows"
  BY DEF L!PrepareTemplate, L!PrepareMapping
<1>2. DOMAIN letters = {} /\ \A r \in Rows : fate[r].at = "none"
  BY <1>1 DEF LettersInv, Prepared, Judged
<1>3. CASE L!PrepareTemplate
  <2>1. job' = [L!Fresh EXCEPT !.at = "mapping", !.text = template]
    BY <1>3 DEF L!PrepareTemplate
  <2>2. DOMAIN job' = JobFields /\ job'.at = "mapping" /\ job'.text = template
    BY <2>1 DEF L!Fresh, JobFields
  <2>3. QED
    BY <1>1, <1>2, <2>2 DEF LettersInv, LettersTyped, Prepared, Judged, AsRead
<1>4. CASE L!PrepareMapping /\ L!IsComplete(job.text, mapping)
  <2>1. /\ job.at = "mapping"
        /\ job' = [job EXCEPT !.at = "rows", !.rules = mapping, !.rows = Rows]
    BY <1>4 DEF L!PrepareMapping
  <2>2. /\ DOMAIN job' = JobFields /\ job'.at = "rows" /\ job'.text = job.text
        /\ job'.rules = mapping
    BY <2>1 DEF LettersInv, LettersTyped, JobFields
  <2>3. RulesFit(job.text, mapping)
    BY <1>4 DEF LettersInv, LettersTyped, RulesFit, L!IsComplete
  <2>4. QED
    BY <1>1, <1>2, <2>1, <2>2, <2>3 DEF LettersInv, LettersTyped, Prepared, Judged, AsRead
<1>5. CASE L!PrepareMapping /\ ~L!IsComplete(job.text, mapping)
  <2>1. job.at = "mapping" /\ job' = [job EXCEPT !.at = "failed"]
    BY <1>5 DEF L!PrepareMapping
  <2>2. DOMAIN job' = JobFields /\ job'.at = "failed" /\ job'.text = job.text
    BY <2>1 DEF LettersInv, LettersTyped, JobFields
  <2>3. QED
    BY <1>1, <1>2, <2>1, <2>2 DEF LettersInv, LettersTyped, Prepared, Judged, AsRead
<1>6. QED
  BY <1>3, <1>4, <1>5

\* A row is prepared from what the customer has then.
LEMMA PreparesRow ==
  ASSUME LettersInv, NEW r \in Rows, L!PrepareRow(r)
  PROVE  LettersInv'
<1>1. /\ job.at = "rows" /\ r \in job.rows
      /\ job' = [job EXCEPT !.rows = @ \ {r}]
      /\ UNCHANGED <<template, mapping, data, glimpse, fate, changed>>
  BY DEF L!PrepareRow
<1>2. /\ DOMAIN job' = JobFields /\ job'.at = "rows" /\ job'.text = job.text
      /\ job'.rules = job.rules
  BY <1>1 DEF LettersInv, LettersTyped, JobFields
<1>3. \A x \in Rows : fate[x].at = "none"
  BY <1>1 DEF LettersInv, Judged
<1>4. data[r] \in Contents
  BY DEF LettersInv, LettersTyped
<1>5. \A x \in DOMAIN letters' :
        \/ x \in DOMAIN letters /\ letters'[x] = letters[x]
        \/ /\ x = r /\ L!Eligible(job.text, job.rules, data[r])
           /\ letters'[x] = L!Parameters(job.text, job.rules, data[r])
  BY DEF L!PrepareRow
<1>6. LettersTyped'
  BY <1>1, <1>2 DEF LettersInv, LettersTyped
<1>7. Prepared'
  BY <1>1, <1>2, <1>4, <1>5 DEF LettersInv, Prepared
<1>8. Judged'
  BY <1>1, <1>3 DEF Judged
<1>9. changed' \/ AsRead'
  BY <1>1, <1>2, <1>5 DEF LettersInv, AsRead
<1>10. QED
  BY <1>6, <1>7, <1>8, <1>9 DEF LettersInv

LEMMA SendsLetter ==
  ASSUME LettersInv, NEW r \in Rows, L!SendLetter(r)
  PROVE  LettersInv'
<1>1. /\ job.at = "rows" /\ job.rows = {} /\ r \in DOMAIN letters
      /\ fate' = [fate EXCEPT ![r] = [at |-> IF L!Fits(letters[r]) THEN "taken" ELSE "refused",
                                      text |-> meta]]
      /\ UNCHANGED <<template, mapping, data, glimpse, job, letters, changed>>
  BY DEF L!SendLetter
<1>2. ~L!Fits(letters[r]) => Unfit(letters[r], meta)
  BY DEF L!Fits, Unfit
<1>3. Judged'
  BY <1>1, <1>2 DEF LettersInv, LettersTyped, Judged
<1>4. QED
  BY <1>1, <1>3 DEF LettersInv, LettersTyped, Prepared, AsRead

LEMMA OthersChange ==
  ASSUME LettersInv,
         L!EditTemplate \/ L!FetchTemplate \/ L!SaveMapping \/ \E r \in Rows : L!EditRow(r)
  PROVE  LettersInv'
<1>1. changed' /\ UNCHANGED <<glimpse, job, letters, fate>>
  BY DEF L!EditTemplate, L!FetchTemplate, L!SaveMapping, L!EditRow, L!Changes
<1>2. \A v \in DOMAIN mapping' : mapping'[v] \in Rules
  BY DEF L!EditTemplate, L!FetchTemplate, L!SaveMapping, L!EditRow, LettersInv, LettersTyped
<1>3. data' \in [Rows -> Contents]
  BY DEF L!EditTemplate, L!FetchTemplate, L!SaveMapping, L!EditRow, LettersInv, LettersTyped
<1>4. QED
  BY <1>1, <1>2, <1>3 DEF LettersInv, LettersTyped, Prepared, Judged

LEMMA LettersStep == LettersInv /\ [DeskNext]_deskVars => LettersInv'
<1>1. CASE LettersInv /\ L!LettersNext
  BY <1>1, Glimpses, Prepares, PreparesRow, SendsLetter, OthersChange DEF L!LettersNext
<1>2. CASE LettersInv /\ UNCHANGED letterVars
  BY <1>2 DEF letterVars, LettersInv, LettersTyped, Prepared, Judged, AsRead
<1>3. QED
  BY <1>1, <1>2, OneScene

LEMMA LettersStart == L!LettersInit => LettersInv
<1> SUFFICES ASSUME L!LettersInit PROVE LettersInv
  OBVIOUS
<1>1. /\ glimpse = L!Fresh /\ job = L!Fresh /\ DOMAIN letters = {}
      /\ fate = [r \in Rows |-> [at |-> "none", text |-> {}]]
      /\ data \in [Rows -> Contents] /\ mapping \in [template -> Rules]
  BY DEF L!LettersInit
<1>2. glimpse.at = "idle" /\ job.at = "idle" /\ DOMAIN glimpse = JobFields /\ DOMAIN job = JobFields
  BY <1>1 DEF L!Fresh, JobFields
<1>3. QED
  BY <1>1, <1>2 DEF LettersInv, LettersTyped, Prepared, Judged, AsRead

\* A letter that was prepared fits the template it was prepared for, says a debt only
\* where there is one, and goes to nobody whom the preview left out, unless template,
\* mapping or customer changed meanwhile.
THEOREM LettersAreFit == DeskSpec => []LettersFit
<1>1. DeskInit => LettersInv
  BY LettersStart DEF DeskInit
<1>2. LettersInv => LettersFit
  BY LettersFitting DEF LettersFit
<1>3. QED
  BY <1>1, <1>2, LettersStep, PTL DEF DeskSpec

-----------------------------------------------------------------------------
(* The media: the disk and the rows.                                         *)

File == [of : M!Pieces, whole : BOOLEAN]
Whole(i, m) == i \in DOMAIN files /\ files[i] = [of |-> m, whole |-> TRUE]

TaskFields == {"of", "kind", "at", "file"}

\* A request that is about to store has a whole file of its message, or none because
\* the download failed; only a message without a row is stored without a file.
TaskOK(t) ==
  /\ DOMAIN t = TaskFields /\ t.of \in M!Pieces
  /\ t.at = "write" => t.file \in DOMAIN files /\ files[t.file].of = t.of
  /\ t.at = "store" => Whole(t.file, t.of) \/ (t.file = 0 /\ t.kind # "missing")

FilesInv ==
  /\ files \in Seq(File) /\ stored \subseteq M!Pieces /\ DOMAIN mediaUrl = M!Pieces
  /\ \A m \in M!Pieces : mediaUrl[m] # 0 => Whole(mediaUrl[m], m)
  /\ \A t \in tasks : TaskOK(t)

\* What a step on the disk or a row may do as the page sees it.
Kept ==
  /\ \A i, m : Whole(i, m) => Whole(i, m)'
  /\ stored \subseteq stored' /\ \A m \in stored : mediaUrl[m] # 0 => mediaUrl'[m] # 0

\* A new file leaves the others as they are.
LEMMA Saved ==
  ASSUME files \in Seq(File), NEW x \in File, files' = Append(files, x)
  PROVE  /\ files' \in Seq(File) /\ DOMAIN files \subseteq DOMAIN files'
         /\ \A i \in DOMAIN files : files'[i] = files[i]
         /\ Len(files) + 1 \in DOMAIN files' /\ files'[Len(files) + 1] = x
  BY AppendProperties, LenProperties

\* A request goes on with a file that it may have.
LEMMA Replaces ==
  ASSUME FilesInv, NEW t \in tasks, NEW u, M!Replace(t, u), TaskOK(u)', files' \in Seq(File),
         DOMAIN files \subseteq DOMAIN files',
         \A i \in DOMAIN files : files'[i].of = files[i].of /\ (files[i].whole => files'[i].whole),
         UNCHANGED <<stored, mediaUrl>>
  PROVE  FilesInv' /\ Kept
<1>1. \A i \in DOMAIN files : files[i] \in File /\ \A j \in DOMAIN files' : files'[j] \in File
  BY LenProperties, ElementOfSeq DEF FilesInv
<1>2. ASSUME NEW i, NEW m, Whole(i, m) PROVE Whole(i, m)'
  <2>1. i \in DOMAIN files' /\ files'[i].of = m /\ files'[i].whole = TRUE /\ files'[i] \in File
    BY <1>1, <1>2 DEF Whole, File
  <2>2. QED
    BY <2>1 DEF Whole, File
<1>3. \A v \in tasks : TaskOK(v)'
  BY <1>2 DEF FilesInv, TaskOK
<1>4. tasks' = (tasks \ {t}) \union {u}
  BY DEF M!Replace
<1>5. QED
  BY <1>2, <1>3, <1>4 DEF FilesInv, Kept

LEMMA Unsaved ==
  ASSUME FilesInv, UNCHANGED <<files, stored, mediaUrl>>, \A t \in tasks' : TaskOK(t)
  PROVE  FilesInv' /\ Kept
  BY DEF FilesInv, Kept, Whole, TaskOK

\* A request of a message begins without a file.
LEMMA Begins ==
  ASSUME FilesInv, NEW m \in M!Pieces, NEW kind, NEW step \in {"fetch", "save"},
         M!Begin(m, kind, step), UNCHANGED <<files, stored, mediaUrl>>
  PROVE  FilesInv' /\ Kept
<1> DEFINE t == [of |-> m, kind |-> kind, at |-> step, file |-> M!NoFile]
<1>1. TaskOK(t)
  BY DEF TaskOK, TaskFields
<1>2. tasks' = tasks \union {t}
  BY DEF M!Begin
<1>3. QED
  BY <1>1, <1>2, Unsaved DEF FilesInv

LEMMA Works ==
  ASSUME FilesInv, NEW t \in tasks, M!Fetch(t) \/ M!Save(t) \/ M!Write(t) \/ M!SaveFails(t)
  PROVE  FilesInv' /\ Kept
<1>1. DOMAIN t = TaskFields /\ t.of \in M!Pieces /\ UNCHANGED <<stored, mediaUrl>>
  BY DEF FilesInv, TaskOK, M!Fetch, M!Save, M!Write, M!SaveFails
<1>2. \A i \in DOMAIN files : files[i] \in File
  BY LenProperties, ElementOfSeq DEF FilesInv
<1>3. CASE M!Fetch(t)
  <2> DEFINE u == [t EXCEPT !.at = "save"]
  <2>1. M!Replace(t, u) /\ files' = files
    BY <1>3 DEF M!Fetch
  <2>2. DOMAIN u = TaskFields /\ u.of = t.of /\ u.at = "save"
    BY <1>1 DEF TaskFields
  <2> HIDE DEF u
  <2>3. TaskOK(u)'
    BY <1>1, <2>2 DEF TaskOK
  <2>4. QED
    BY <1>1, <2>1, <2>3, Replaces DEF FilesInv
<1>4. CASE M!Save(t)
  <2> DEFINE x == [of |-> t.of, whole |-> FALSE]
  <2>0. PICK u : u = [t EXCEPT !.at = "write", !.file = Len(files) + 1]
    OBVIOUS
  <2>1. M!Replace(t, u) /\ files' = Append(files, x) /\ x \in File
    BY <1>1, <1>4, <2>0 DEF M!Save, File
  <2>2. DOMAIN u = TaskFields /\ u.of = t.of /\ u.at = "write" /\ u.file = Len(files) + 1
    BY <1>1, <2>0 DEF TaskFields
  <2>3. x.of = t.of
    OBVIOUS
  <2> HIDE DEF x
  <2>4. /\ files' \in Seq(File) /\ DOMAIN files \subseteq DOMAIN files'
        /\ \A i \in DOMAIN files : files'[i] = files[i]
        /\ Len(files) + 1 \in DOMAIN files' /\ files'[Len(files) + 1] = x
    BY <2>1, Saved DEF FilesInv
  <2>5. TaskOK(u)'
    BY <1>1, <2>2, <2>3, <2>4 DEF TaskOK
  <2>6. QED
    BY <1>1, <2>1, <2>4, <2>5, Replaces
<1>5. CASE M!Write(t)
  <2> DEFINE u == [t EXCEPT !.at = "store"]
             whole == [files[t.file] EXCEPT !.whole = TRUE]
  <2>1. M!Replace(t, u) /\ files' = [files EXCEPT ![t.file].whole = TRUE] /\ t.at = "write"
    BY <1>5 DEF M!Write
  <2>2. t.file \in DOMAIN files /\ files[t.file].of = t.of
    BY <2>1 DEF FilesInv, TaskOK
  <2>3. DOMAIN u = TaskFields /\ u.of = t.of /\ u.at = "store" /\ u.file = t.file
    BY <1>1 DEF TaskFields
  <2>4. whole = [of |-> t.of, whole |-> TRUE] /\ whole \in File
    <3>1. \A x \in File : [x EXCEPT !.whole = TRUE] = [of |-> x.of, whole |-> TRUE]
      <4>1. \A x \in File : /\ [x EXCEPT !.whole = TRUE] \in File
                            /\ [x EXCEPT !.whole = TRUE].of = x.of
                            /\ [x EXCEPT !.whole = TRUE].whole = TRUE
        BY DEF File
      <4>2. \A y \in File : y.whole = TRUE => y = [of |-> y.of, whole |-> TRUE]
        BY DEF File
      <4>3. QED
        BY <4>1, <4>2
    <3>2. whole = [of |-> files[t.file].of, whole |-> TRUE]
      BY <1>2, <2>2, <3>1
    <3>3. QED
      BY <1>1, <2>2, <3>2 DEF File
  <2> HIDE DEF u
  <2>5. files' = [files EXCEPT ![t.file] = whole]
    BY <2>1
  <2> HIDE DEF whole
  <2>6. files' \in Seq(File) /\ DOMAIN files' = DOMAIN files
    BY <2>2, <2>4, <2>5, ExceptSeq DEF FilesInv
  <2>7. \A i \in DOMAIN files : files'[i] = IF i = t.file THEN whole ELSE files[i]
    BY <2>5
  <2>8. TaskOK(u)'
    BY <1>1, <2>2, <2>3, <2>4, <2>6, <2>7 DEF TaskOK, Whole
  <2>9. \A i \in DOMAIN files : files'[i].of = files[i].of /\ (files[i].whole => files'[i].whole)
    BY <2>2, <2>4, <2>7
  <2>10. QED
    BY <1>1, <2>1, <2>6, <2>8, <2>9, Replaces
<1>6. CASE M!SaveFails(t) /\ t.kind = "inbound"
  <2> DEFINE u == [t EXCEPT !.at = "store", !.file = M!NoFile]
  <2>1. M!Replace(t, u) /\ files' = files
    BY <1>6 DEF M!SaveFails
  <2>2. DOMAIN u = TaskFields /\ u.of = t.of /\ u.at = "store" /\ u.file = 0 /\ u.kind = t.kind
    BY <1>1 DEF TaskFields, M!NoFile
  <2> HIDE DEF u
  <2>3. TaskOK(u)'
    BY <1>1, <1>6, <2>2 DEF TaskOK
  <2>4. QED
    BY <1>1, <2>1, <2>3, Replaces DEF FilesInv
<1>7. CASE M!SaveFails(t) /\ t.kind # "inbound"
  BY <1>1, <1>7, Unsaved DEF M!SaveFails, FilesInv
<1>8. QED
  BY <1>3, <1>4, <1>5, <1>6, <1>7

\* A row gets the file of a request that has one of its message.
LEMMA Stores ==
  ASSUME FilesInv, NEW t \in tasks, M!StoreMessage(t) \/ M!StoreMissing(t) \/ M!StoreFails(t)
  PROVE  FilesInv' /\ Kept
<1>1. /\ TaskOK(t) /\ files' = files /\ tasks' = tasks \ {t}
  BY DEF FilesInv, M!StoreMessage, M!StoreMissing, M!StoreFails
<1>2. \A u : TaskOK(u)' <=> TaskOK(u)
  BY <1>1 DEF TaskOK, Whole
<1>3. CASE UNCHANGED <<stored, mediaUrl>>
  BY <1>1, <1>2, <1>3, Unsaved DEF FilesInv
<1>4. CASE /\ t.at = "store" /\ mediaUrl' = [mediaUrl EXCEPT ![t.of] = t.file]
           /\ \/ t.of \notin stored /\ stored' = stored \union {t.of}
              \/ t.kind = "missing" /\ stored' = stored
  <2>1. t.file # 0 => Whole(t.file, t.of)
    BY <1>1, <1>4 DEF TaskOK
  <2>2. t.of \in stored => t.file # 0
    <3>1. CASE t.kind = "missing"
      <4>1. t.file \in DOMAIN files
        BY <1>1, <1>4, <3>1 DEF TaskOK, Whole
      <4>2. QED
        BY <4>1, LenProperties DEF FilesInv
    <3>2. QED
      BY <1>4, <3>1
  <2>3. \A i, m : Whole(i, m)' <=> Whole(i, m)
    BY <1>1 DEF Whole
  <2>4. t.of \in M!Pieces
    BY <1>1 DEF TaskOK
  <2>5. QED
    BY <1>1, <1>2, <1>4, <2>1, <2>2, <2>3, <2>4 DEF FilesInv, Kept
<1>5. QED
  BY <1>3, <1>4 DEF M!StoreMessage, M!StoreMissing, M!StoreFails

DiskNext ==
  \/ \E m \in Inbound : M!InboundArrives(m) \/ M!InboundAgain(m) \/ M!AskMissing(m)
  \/ \E m \in Uploads : M!UploadArrives(m)
  \/ M!Work \/ \E t \in tasks : M!SaveFails(t) \/ M!StoreFails(t)

LEMMA DiskStep ==
  ASSUME FilesInv, DiskNext
  PROVE  FilesInv' /\ Kept /\ UNCHANGED <<known, bubble, fetches, objects, made>>
<1>0. UNCHANGED <<known, bubble, fetches, objects, made>>
  BY DEF DiskNext, M!InboundArrives, M!InboundAgain, M!AskMissing, M!UploadArrives, M!Work,
         M!SaveFails, M!StoreFails, M!Fetch, M!Save, M!Write, M!StoreMessage, M!StoreMissing, M!page
<1> SUFFICES FilesInv' /\ Kept
  BY <1>0
<1>1. ASSUME NEW m \in Inbound, M!InboundArrives(m) \/ M!InboundAgain(m) \/ M!AskMissing(m)
      PROVE  FilesInv' /\ Kept
  BY <1>1, Begins DEF M!InboundArrives, M!InboundAgain, M!AskMissing, M!Pieces
<1>2. ASSUME NEW m \in Uploads, M!UploadArrives(m) PROVE FilesInv' /\ Kept
  BY <1>2, Begins DEF M!UploadArrives, M!Pieces
<1>3. ASSUME NEW t \in tasks,
             \/ M!Fetch(t) \/ M!Save(t) \/ M!Write(t) \/ M!SaveFails(t)
             \/ M!StoreMessage(t) \/ M!StoreMissing(t) \/ M!StoreFails(t)
      PROVE  FilesInv' /\ Kept
  BY <1>3, Works, Stores
<1>4. QED
  BY <1>1, <1>2, <1>3 DEF DiskNext, M!Work

\* The page changes no file, no row and no request.
PageNext ==
  \/ \E m \in M!Pieces : M!Show(m)
  \/ M!Refetch \/ M!Retry \/ M!Hide
  \/ \E f \in fetches : M!StreamMedia(f) \/ M!StreamFails(f) \/ M!Arrives(f)

LEMMA PageReads == PageNext => UNCHANGED <<files, stored, mediaUrl, tasks>>
  BY DEF PageNext, M!Show, M!Refetch, M!Retry, M!Hide, M!StreamMedia, M!StreamFails, M!Arrives

LEMMA FilesStep == FilesInv /\ [DeskNext]_deskVars => FilesInv'
<1>1. CASE FilesInv /\ DiskNext
  BY <1>1, DiskStep
<1>2. CASE FilesInv /\ UNCHANGED <<files, stored, mediaUrl, tasks>>
  BY <1>2 DEF FilesInv, TaskOK, Whole
<1>3. M!MediaNext => DiskNext \/ PageNext
  BY DEF M!MediaNext, DiskNext, PageNext
<1>4. QED
  BY <1>1, <1>2, <1>3, PageReads, OneScene DEF mediaVars

LEMMA FilesStart == M!MediaInit => FilesInv
  BY DEF M!MediaInit, FilesInv, M!NoFile

\* A row that names a file names a whole one of its message.
THEOREM UrlsAreWhole == DeskSpec => []UrlIsWhole
<1>1. DeskInit => FilesInv
  BY FilesStart DEF DeskInit
<1>2. FilesInv => UrlIsWhole
  BY DEF FilesInv, UrlIsWhole, M!UrlIsWhole, Whole, M!NoFile
<1>3. QED
  BY <1>1, <1>2, FilesStep, PTL DEF DeskSpec

(* The bubble. One request at most is wanted, while the bubble loads; one object *)
(* URL at most is alive, while it is ready.                                      *)

FetchOK(f) ==
  /\ DOMAIN f = {"wanted", "answered", "bytes"}
  /\ f.wanted =>
       /\ bubble.state = "loading" /\ \A g \in fetches : g.wanted => g = f
       /\ f.answered => Whole(f.bytes, bubble.of)

BubbleInv ==
  /\ DOMAIN bubble = {"of", "url", "state", "object"}
  /\ bubble.of = "none" \/ bubble.of \in stored
  /\ bubble.url # 0 => bubble.of \in stored /\ mediaUrl[bubble.of] # 0
  /\ bubble.state = "loading" => bubble.url # 0
  /\ \A f \in fetches : FetchOK(f)
  /\ DOMAIN objects = IF bubble.state = "ready" THEN {bubble.object} ELSE {}
  /\ bubble.state = "ready" => Whole(objects[bubble.object], bubble.of)

\* What was asked for is not wanted any more.
LEMMA NotWanted ==
  ASSUME BubbleInv
  PROVE  \A f \in M!Unwanted : DOMAIN f = {"wanted", "answered", "bytes"} /\ ~f.wanted
  BY DEF BubbleInv, FetchOK, M!Unwanted

\* The clean-up of the effect leaves no object URL.
LEMMA CleansUp ==
  ASSUME BubbleInv, objects' = [o \in DOMAIN objects \ {bubble.object} |-> objects[o]]
  PROVE  DOMAIN objects' = {}
  BY DEF BubbleInv

LEMMA Loading ==
  ASSUME BubbleInv, NEW m, NEW url, M!Loads(m, url), m = "none" \/ m \in stored,
         url # 0 => m \in stored /\ mediaUrl[m] # 0, UNCHANGED <<files, stored, mediaUrl>>
  PROVE  BubbleInv'
<1> DEFINE new == [wanted |-> TRUE, answered |-> FALSE, bytes |-> M!NoFile]
<1>1. /\ DOMAIN bubble' = {"of", "url", "state", "object"} /\ bubble'.of = m /\ bubble'.url = url
      /\ bubble'.state = IF url = 0 THEN (IF m \in Inbound THEN "pending" ELSE "error") ELSE "loading"
  BY DEF M!Loads, M!NoFile
<1>2. fetches' = M!Unwanted \union IF url = 0 THEN {} ELSE {new}
  BY DEF M!Loads, M!NoFile
<1>3. DOMAIN new = {"wanted", "answered", "bytes"} /\ ~new.answered
  OBVIOUS
<1>4. DOMAIN objects' = {}
  BY CleansUp DEF M!Loads
<1> HIDE DEF new
<1>5. \A f \in fetches' : FetchOK(f)'
  BY <1>1, <1>2, <1>3, NotWanted DEF FetchOK
<1>6. bubble'.state # "ready"
  BY <1>1
<1>7. QED
  BY <1>1, <1>4, <1>5, <1>6 DEF BubbleInv

\* A file that is fetched comes from the row.
LEMMA Streams ==
  ASSUME FilesInv, BubbleInv, NEW f \in fetches, M!StreamMedia(f) \/ M!StreamFails(f)
  PROVE  BubbleInv'
<1>1. FetchOK(f) /\ UNCHANGED <<files, stored, mediaUrl, objects>>
  BY DEF BubbleInv, M!StreamMedia, M!StreamFails
<1>2. CASE M!StreamMedia(f)
  <2>1. PICK g : g = [f EXCEPT !.answered = TRUE, !.bytes = mediaUrl[bubble.of]]
    OBVIOUS
  <2>2. /\ f.wanted /\ fetches' = (fetches \ {f}) \union {g} /\ bubble' = bubble
    BY <1>2, <2>1 DEF M!StreamMedia
  <2>3. DOMAIN g = {"wanted", "answered", "bytes"} /\ g.bytes = mediaUrl[bubble.of]
    BY <1>1, <2>1 DEF FetchOK
  <2>4. bubble.of \in M!Pieces /\ mediaUrl[bubble.of] # 0
    BY <1>1, <2>2 DEF BubbleInv, FilesInv, FetchOK
  <2>5. Whole(g.bytes, bubble.of)'
    BY <1>1, <2>2, <2>3, <2>4 DEF FilesInv, Whole
  <2>6. \A h \in fetches \ {f} : ~h.wanted
    BY <1>1, <2>2 DEF FetchOK
  <2>7. FetchOK(g)'
    BY <1>1, <2>2, <2>3, <2>5, <2>6 DEF FetchOK
  <2>8. \A h \in fetches' : FetchOK(h)'
    BY <2>2, <2>6, <2>7 DEF BubbleInv, FetchOK
  <2>9. QED
    BY <1>1, <2>2, <2>8 DEF BubbleInv, Whole
<1>3. CASE M!StreamFails(f) /\ f.wanted
  <2>1. fetches' = fetches \ {f} /\ bubble' = [bubble EXCEPT !.state = "error"]
    BY <1>3 DEF M!StreamFails
  <2>2. /\ DOMAIN bubble' = {"of", "url", "state", "object"} /\ bubble'.of = bubble.of
        /\ bubble'.url = bubble.url /\ bubble'.state = "error"
    BY <2>1 DEF BubbleInv
  <2>3. \A h \in fetches' : FetchOK(h)'
    BY <1>1, <1>3, <2>1 DEF BubbleInv, FetchOK
  <2>4. QED
    BY <1>1, <1>3, <2>2, <2>3 DEF BubbleInv, FetchOK
<1>4. CASE M!StreamFails(f) /\ ~f.wanted
  <2>1. fetches' = fetches \ {f} /\ bubble' = bubble
    BY <1>4 DEF M!StreamFails
  <2>2. QED
    BY <1>1, <2>1 DEF BubbleInv, FetchOK, Whole
<1>5. QED
  BY <1>2, <1>3, <1>4

\* The answer that is wanted becomes the one object URL.
LEMMA Arriving ==
  ASSUME BubbleInv, NEW f \in fetches, M!Arrives(f)
  PROVE  BubbleInv'
<1>1. /\ FetchOK(f) /\ f.answered /\ fetches' = fetches \ {f}
      /\ UNCHANGED <<files, stored, mediaUrl>>
  BY DEF BubbleInv, M!Arrives
<1>2. CASE f.wanted
  <2>1. /\ objects' = [o \in DOMAIN objects \union {made'} |->
                         IF o = made' THEN f.bytes ELSE objects[o]]
        /\ bubble' = [bubble EXCEPT !.object = made', !.state = "ready"]
    BY <1>2 DEF M!Arrives
  <2>2. /\ DOMAIN bubble' = {"of", "url", "state", "object"} /\ bubble'.of = bubble.of
        /\ bubble'.url = bubble.url /\ bubble'.state = "ready" /\ bubble'.object = made'
    BY <2>1 DEF BubbleInv
  <2>3. DOMAIN objects = {} /\ Whole(f.bytes, bubble.of)
    BY <1>1, <1>2 DEF BubbleInv, FetchOK
  <2>4. DOMAIN objects' = {made'} /\ objects'[made'] = f.bytes
    BY <2>1, <2>3
  <2>5. \A h \in fetches' : FetchOK(h)'
    BY <1>1, <1>2 DEF BubbleInv, FetchOK
  <2>6. Whole(objects[bubble.object], bubble.of)'
    BY <1>1, <2>2, <2>3, <2>4 DEF Whole
  <2>7. QED
    BY <1>1, <2>2, <2>4, <2>5, <2>6 DEF BubbleInv
<1>3. CASE ~f.wanted
  <2>1. UNCHANGED <<objects, bubble>>
    BY <1>3 DEF M!Arrives
  <2>2. QED
    BY <1>1, <2>1 DEF BubbleInv, FetchOK, Whole
<1>4. QED
  BY <1>2, <1>3

LEMMA BubbleStep ==
  FilesInv /\ BubbleInv /\ [DeskNext]_deskVars => BubbleInv'
<1> SUFFICES ASSUME FilesInv, BubbleInv, [DeskNext]_deskVars PROVE BubbleInv'
  OBVIOUS
<1>1. CASE DiskNext
  <2>1. Kept /\ UNCHANGED <<bubble, fetches, objects>>
    BY <1>1, DiskStep
  <2>2. \A f \in fetches : FetchOK(f)'
    BY <2>1 DEF BubbleInv, FetchOK, Kept
  <2>3. QED
    BY <2>1, <2>2 DEF BubbleInv, Kept
<1>2. CASE PageNext
  <2>1. UNCHANGED <<files, stored, mediaUrl, tasks>>
    BY <1>2, PageReads
  <2>2. ASSUME NEW m \in M!Pieces, M!Show(m) PROVE BubbleInv'
    BY <2>1, <2>2, Loading DEF M!Show
  <2>3. CASE M!Refetch
    <3>1. M!Loads(bubble.of, mediaUrl[bubble.of]) /\ bubble.of \in stored
      BY <2>3 DEF M!Refetch, BubbleInv
    <3>2. QED
      BY <2>1, <3>1, Loading
  <2>4. CASE M!Retry
    BY <2>1, <2>4, Loading DEF M!Retry, BubbleInv
  <2>5. CASE M!Hide
    <3>1. /\ DOMAIN bubble' = {"of", "url", "state", "object"} /\ bubble'.url = 0
          /\ bubble'.state = "idle" /\ bubble'.of = "none"
      BY <2>5 DEF M!Hide, M!Hidden, M!NoFile
    <3>2. DOMAIN objects' = {}
      BY <2>5, CleansUp DEF M!Hide
    <3>3. \A f \in fetches' : FetchOK(f)'
      BY <2>5, NotWanted DEF M!Hide, FetchOK
    <3>4. QED
      BY <3>1, <3>2, <3>3 DEF BubbleInv
  <2>6. QED
    BY <1>2, <2>2, <2>3, <2>4, <2>5, Streams, Arriving DEF PageNext
<1>3. CASE UNCHANGED mediaVars
  BY <1>3 DEF mediaVars, BubbleInv, FetchOK, Whole
<1>4. M!MediaNext => DiskNext \/ PageNext
  BY DEF M!MediaNext, DiskNext, PageNext
<1>5. QED
  BY <1>1, <1>2, <1>3, <1>4, OneScene

LEMMA BubbleStart == M!MediaInit => BubbleInv
<1> SUFFICES ASSUME M!MediaInit PROVE BubbleInv
  OBVIOUS
<1>1. /\ bubble = [of |-> "none", url |-> 0, state |-> "idle", object |-> 0] /\ fetches = {}
      /\ DOMAIN objects = {}
  BY DEF M!MediaInit, M!Hidden, M!NoFile
<1>2. QED
  BY <1>1 DEF BubbleInv

\* A bubble shows a whole file of its message, from the only object URL that is alive.
THEOREM BubblesAreTheirMessages == DeskSpec => []BubbleIsItsMessage
<1>1. DeskInit => FilesInv /\ BubbleInv
  BY FilesStart, BubbleStart DEF DeskInit
<1>2. BubbleInv => BubbleIsItsMessage
  BY DEF BubbleInv, BubbleIsItsMessage, M!BubbleIsItsMessage, Whole
<1>3. QED
  BY <1>1, <1>2, FilesStep, BubbleStep, PTL DEF DeskSpec

-----------------------------------------------------------------------------
(* The limiter.                                                              *)

Counter == [of : Nat, count : Nat, until : Nat]

\* Numbers tell counters apart: they only grow.
LEMMA Counts ==
  ASSUME NEW c \in Counter, NEW until \in Nat
  PROVE  LET d == R!Counted(c, until)
         IN /\ d \in Counter /\ d.count > 0
            /\ R!Gone(c) => d.of = c.of + 1 /\ d.until = until
            /\ ~R!Gone(c) => d.of = c.of /\ d.until = c.until /\ c.count > 0
<1> DEFINE fresh == [c EXCEPT !.of = @ + 1, !.count = 1, !.until = until]
           more == [c EXCEPT !.count = @ + 1]
<1>1. fresh \in Counter /\ fresh.count = 1 /\ fresh.of = c.of + 1 /\ fresh.until = until
  <2>1. PICK n \in Nat : n = c.of + 1
    BY DEF Counter
  <2>2. fresh = [c EXCEPT !.of = n, !.count = 1, !.until = until]
    BY <2>1
  <2>3. [c EXCEPT !.of = n, !.count = 1, !.until = until] \in Counter
    BY DEF Counter
  <2>4. fresh.count = 1 /\ fresh.of = c.of + 1 /\ fresh.until = until
    BY DEF Counter
  <2>5. QED
    BY <2>2, <2>3, <2>4
<1>2. c.count \in Nat
  BY DEF Counter
<1>3. more \in Counter /\ more.count = c.count + 1 /\ more.of = c.of /\ more.until = c.until
  <2>1. more.count = c.count + 1 /\ more.of = c.of /\ more.until = c.until
    BY DEF Counter
  <2>2. more \in Counter
    BY <1>2 DEF Counter
  <2>3. QED
    BY <2>1, <2>2
<1>4. R!Counted(c, until) = IF R!Gone(c) THEN fresh ELSE more
  BY DEF R!Counted
<1>5. ~R!Gone(c) => c.count > 0
  BY <1>2 DEF R!Gone
<1> HIDE DEF fresh, more
<1>6. QED
  BY <1>1, <1>2, <1>3, <1>4, <1>5

LimitTyped ==
  /\ now \in Nat /\ now <= Horizon /\ key \in Counter /\ memory \in [Processes -> Counter]
  /\ \A a \in refused : a.by \in Processes \union {R!Shared} /\ a.of \in Nat /\ a.until \in Nat

\* A counter in memory ends by the time that those were told whom it refused.
MemoryInv ==
  \A a \in refused : a.by \in Processes =>
    /\ a.of <= memory[a.by].of
    /\ a.of = memory[a.by].of => memory[a.by].count = 0 \/ memory[a.by].until <= a.until

CallFields == {"proc", "id", "at", "since", "got"}

\* One call at most is to set the expiry of the counter that Redis has now, which
\* cannot end before.
CallOK(r) ==
  /\ DOMAIN r = CallFields /\ r.proc \in Processes /\ r.got \in Counter /\ r.got.of <= key.of
  /\ r.since \in Nat /\ r.since <= now /\ now <= r.since + 1
  /\ r.at = "expire" =>
       /\ r.got.of = key.of /\ key.until = R!Never /\ key.count > 0
       /\ \A q \in calls : q.at = "expire" => q = r

\* A counter without an expiry gets one, or lost it.
KeyInv ==
  key.until = R!Never /\ key.count > 0 =>
    key.of \in orphans \/ \E r \in calls : r.at = "expire"

\* The counter in Redis ends by then, give or take the time of a command.
EndsFor(a) ==
  /\ a.of <= key.of
  /\ a.of = key.of /\ key.of \notin orphans =>
       /\ key.until # R!Never /\ key.count > 0 => key.until <= a.until + 1
       /\ \A r \in calls : r.at = "expire" => r.since + Window <= a.until

RedisInv ==
  /\ \A r \in calls : CallOK(r)
  /\ KeyInv
  /\ \A a \in refused : a.by = R!Shared => EndsFor(a)

LimitInv == LimitTyped /\ MemoryInv /\ RedisInv

LEMMA LimitConstants ==
  /\ R!Shared \notin Processes /\ Window \in Nat \ {0} /\ Pause \in Nat /\ Horizon \in Nat
  /\ R!Never \in Nat /\ R!Never > Horizon + Window /\ Limit \in Nat \ {0}
  BY DeskAssumption DEF R!LimitConstants, R!Never

LEMMA RefusalsEnd == LimitInv => R!RefusalEnds
<1> SUFFICES ASSUME LimitInv, NEW a \in refused, now > a.until,
                    ~(a.by = R!Shared /\ a.of \in orphans)
             PROVE  LET c == IF a.by = R!Shared THEN key ELSE memory[a.by]
                    IN c.of # a.of \/ R!Gone(c)
  BY DEF R!RefusalEnds
<1>1. /\ now \in Nat /\ now <= Horizon /\ key \in Counter /\ memory \in [Processes -> Counter]
      /\ a.by \in Processes \union {R!Shared} /\ a.of \in Nat /\ a.until \in Nat
  BY DEF LimitInv, LimitTyped
<1>2. CASE a.by = R!Shared
  <2>1. EndsFor(a)
    BY <1>2 DEF LimitInv, RedisInv
  <2>2. key.of \in Nat /\ key.count \in Nat /\ key.until \in Nat
    BY <1>1 DEF Counter
  <2>3. CASE key.of = a.of /\ key.count > 0 /\ key.until = R!Never
    <3>1. PICK r \in calls : r.at = "expire"
      BY <1>2, <2>3 DEF LimitInv, RedisInv, KeyInv
    <3>2. r.since \in Nat /\ now <= r.since + 1 /\ r.since + Window <= a.until
      BY <1>2, <2>1, <2>3, <3>1 DEF LimitInv, RedisInv, CallOK, EndsFor
    <3>3. QED
      BY <1>1, <3>2, LimitConstants
  <2>4. CASE key.of = a.of /\ key.count > 0 /\ key.until # R!Never
    <3>1. key.until <= a.until + 1
      BY <1>2, <2>1, <2>4 DEF EndsFor
    <3>2. key.until <= now
      BY <1>1, <2>2, <3>1
    <3>3. QED
      BY <1>2, <3>2 DEF R!Gone
  <2>5. CASE key.of # a.of \/ ~(key.count > 0)
    BY <1>2, <2>2, <2>5 DEF R!Gone
  <2>6. QED
    BY <2>3, <2>4, <2>5
<1>3. CASE a.by \in Processes
  <2>1. memory[a.by] \in Counter /\ a.by # R!Shared
    BY <1>1, <1>3, LimitConstants
  <2>2. memory[a.by].of # a.of \/ memory[a.by].count = 0 \/ memory[a.by].until <= a.until
    BY <1>3 DEF LimitInv, MemoryInv
  <2>3. memory[a.by].until \in Nat
    BY <2>1 DEF Counter
  <2>4. memory[a.by].of # a.of \/ memory[a.by].count = 0 \/ memory[a.by].until <= now
    BY <1>1, <2>2, <2>3
  <2>5. QED
    BY <2>1, <2>4 DEF R!Gone
<1>4. QED
  BY <1>1, <1>2, <1>3

\* What becomes of a counter in memory, and of those it refuses.
LEMMA InMemory ==
  ASSUME LimitInv, NEW p \in Processes, R!IncrementMemory(p), UNCHANGED now
  PROVE  /\ memory' \in [Processes -> Counter]
         /\ MemoryInv'
         /\ \A a \in refused' : a \in refused \/ (a.by = p /\ a.of \in Nat /\ a.until \in Nat)
<1>1. /\ now \in Nat /\ memory \in [Processes -> Counter]
      /\ \A a \in refused : a.of \in Nat /\ a.until \in Nat
  BY DEF LimitInv, LimitTyped
<1>2. memory[p] \in Counter /\ now + Window \in Nat
  BY <1>1, LimitConstants
<1>3. PICK d : d = R!Counted(memory[p], now + Window)
  OBVIOUS
<1>4. /\ d \in Counter /\ d.count > 0
      /\ R!Gone(memory[p]) => d.of = memory[p].of + 1 /\ d.until = now + Window
      /\ ~R!Gone(memory[p]) =>
           d.of = memory[p].of /\ d.until = memory[p].until /\ memory[p].count > 0
  BY <1>2, <1>3, Counts
<1>5. memory' = [memory EXCEPT ![p] = d]
  BY <1>3 DEF R!IncrementMemory
<1>6. memory' \in [Processes -> Counter] /\ memory'[p] = d
  BY <1>1, <1>4, <1>5
<1>7. d.of \in Nat /\ d.until \in Nat /\ memory[p].of \in Nat /\ memory[p].until \in Nat
  BY <1>2, <1>4 DEF Counter
<1>8. ASSUME NEW a \in refused' \ refused
      PROVE  a.by = p /\ a.of = d.of /\ a.until = d.until
  <2>1. a = [by |-> p, of |-> d.of, until |-> now + (d.until - now)]
    BY <1>6 DEF R!IncrementMemory, R!Judge
  <2>2. now + (d.until - now) = d.until
    BY <1>1, <1>7
  <2>3. QED
    BY <2>1, <2>2
<1>9. ASSUME NEW a \in refused', a.by \in Processes
      PROVE  /\ a.of <= memory'[a.by].of
             /\ a.of = memory'[a.by].of =>
                  memory'[a.by].count = 0 \/ memory'[a.by].until <= a.until
  <2>1. CASE a \notin refused
    BY <1>6, <1>7, <1>8, <2>1
  <2>2. CASE a \in refused /\ a.by # p
    BY <1>1, <1>5, <1>9, <2>2 DEF LimitInv, MemoryInv
  <2>3. CASE a \in refused /\ a.by = p
    <3>1. /\ a.of <= memory[p].of
          /\ a.of = memory[p].of => memory[p].count = 0 \/ memory[p].until <= a.until
      BY <1>9, <2>3 DEF LimitInv, MemoryInv
    <3>2. a.of \in Nat
      BY <1>1, <2>3
    <3>3. CASE R!Gone(memory[p])
      BY <1>4, <1>6, <1>7, <2>3, <3>1, <3>2, <3>3
    <3>4. CASE ~R!Gone(memory[p])
      <4>1. memory[p].count \in Nat
        BY <1>2 DEF Counter
      <4>2. QED
        BY <1>4, <1>6, <1>7, <2>3, <3>1, <3>4, <4>1
    <3>5. QED
      BY <3>3, <3>4
  <2>4. QED
    BY <2>1, <2>2, <2>3
<1>10. MemoryInv'
  BY <1>9 DEF MemoryInv
<1>11. QED
  BY <1>6, <1>7, <1>8, <1>10

\* Who was refused by Redis was so before.
NoneByRedis == \A a \in refused' : a \in refused \/ a.by \in Processes

\* Redis is left alone, and the expiries that calls were to set are known as lost.
LEMMA RedisLeft ==
  ASSUME LimitInv, UNCHANGED <<now, key>>, NoneByRedis, calls' \subseteq calls,
         orphans \subseteq orphans',
         \A r \in calls \ calls' : r.at = "expire" => r.got.of \in orphans'
  PROVE  RedisInv'
<1>1. \A r \in calls' : CallOK(r)'
  BY DEF LimitInv, RedisInv, CallOK
<1>2. KeyInv'
  BY DEF LimitInv, RedisInv, CallOK, KeyInv
<1>3. ASSUME NEW a \in refused', a.by = R!Shared
      PROVE  EndsFor(a)'
  <2>1. EndsFor(a)
    BY <1>3, LimitConstants DEF LimitInv, RedisInv, NoneByRedis
  <2>2. QED
    BY <2>1 DEF EndsFor
<1>4. QED
  BY <1>1, <1>2, <1>3 DEF RedisInv

\* A request that has just come, or got on to its next command.
Fresh(q) ==
  /\ DOMAIN q = CallFields /\ q.proc \in Processes /\ q.since = now

\* Redis counts a request: the first one of a counter is to set its expiry.
LEMMA RedisCounts ==
  ASSUME LimitInv, UNCHANGED now, NoneByRedis, NEW r \in calls, r.at = "incr",
         key' = R!Counted(key, R!Never),
         calls \ {r} \subseteq calls', orphans \subseteq orphans',
         \A q \in calls' : q \in calls \/ (/\ Fresh(q) /\ q.got = key'
                                           /\ q.at = "expire" => R!Gone(key)
                                           /\ \A s \in calls' : s \in calls \/ s = q),
         R!Gone(key) => key'.of \in orphans' \/ \E q \in calls' : q.at = "expire"
  PROVE  key' \in Counter /\ RedisInv'
<1>1. /\ now \in Nat /\ now <= Horizon /\ key \in Counter
      /\ \A a \in refused : a.of \in Nat /\ a.until \in Nat
  BY DEF LimitInv, LimitTyped
<1>2. /\ key' \in Counter /\ key'.count > 0
      /\ R!Gone(key) => key'.of = key.of + 1 /\ key'.until = R!Never
      /\ ~R!Gone(key) => key'.of = key.of /\ key'.until = key.until /\ key.count > 0
  BY <1>1, Counts, LimitConstants
<1>3. key.of \in Nat /\ key'.of \in Nat /\ key.until \in Nat /\ key.count \in Nat /\ key.of <= key'.of
  BY <1>1, <1>2 DEF Counter
<1>4. ASSUME NEW q \in calls, q.at = "expire"
      PROVE  ~R!Gone(key)
  <2>1. key.until = R!Never /\ key.count > 0
    BY <1>4 DEF LimitInv, RedisInv, CallOK
  <2>2. QED
    BY <1>1, <1>3, <2>1, LimitConstants DEF R!Gone
<1>5. ASSUME NEW q \in calls'
      PROVE  CallOK(q)'
  <2>1. CASE q \in calls
    <3>1. CallOK(q) /\ q.got \in Counter
      BY <2>1 DEF LimitInv, RedisInv, CallOK
    <3>2. q.got.of \in Nat /\ q.got.of <= key'.of
      BY <1>3, <3>1 DEF CallOK, Counter
    <3>3. ASSUME q.at = "expire"
          PROVE  /\ q.got.of = key'.of /\ key'.until = R!Never /\ key'.count > 0
                 /\ \A s \in calls' : s.at = "expire" => s = q
      <4>1. ~R!Gone(key)
        BY <1>4, <2>1, <3>3
      <4>2. QED
        BY <1>2, <2>1, <3>1, <3>3, <4>1 DEF CallOK
    <3>4. QED
      BY <3>1, <3>2, <3>3 DEF CallOK
  <2>2. CASE q \notin calls
    <3>1. Fresh(q) /\ q.got = key' /\ (q.at = "expire" => R!Gone(key))
      BY <2>2
    <3>2. q.at = "expire" => \A s \in calls' : s.at = "expire" => s = q
      BY <1>4, <2>2, <3>1
    <3>3. key'.of <= key'.of /\ now <= now /\ now <= now + 1
      BY <1>1, <1>3
    <3>4. QED
      BY <1>1, <1>2, <3>1, <3>2, <3>3 DEF CallOK, Fresh
  <2>3. QED
    BY <2>1, <2>2
<1>6. KeyInv'
  <2>1. CASE R!Gone(key)
    BY <2>1 DEF KeyInv
  <2>2. CASE ~R!Gone(key)
    <3>1. ASSUME key'.until = R!Never
          PROVE  key.of \in orphans \/ \E q \in calls : q.at = "expire"
      BY <1>2, <2>2, <3>1 DEF LimitInv, RedisInv, KeyInv
    <3>2. \A q \in calls : q.at = "expire" => q \in calls'
      OBVIOUS
    <3>3. QED
      BY <1>2, <2>2, <3>1, <3>2 DEF KeyInv
  <2>3. QED
    BY <2>1, <2>2
<1>7. ASSUME NEW a \in refused', a.by = R!Shared
      PROVE  EndsFor(a)'
  <2>1. EndsFor(a) /\ a \in refused
    BY <1>7, LimitConstants DEF LimitInv, RedisInv, NoneByRedis
  <2>2. a.of \in Nat /\ a.of <= key.of /\ a.of <= key'.of
    BY <1>1, <1>3, <2>1 DEF EndsFor
  <2>3. CASE R!Gone(key)
    <3>1. a.of # key'.of
      BY <1>2, <1>3, <2>2, <2>3
    <3>2. QED
      BY <2>2, <3>1 DEF EndsFor
  <2>4. CASE ~R!Gone(key)
    <3>1. \A q \in calls' : q.at = "expire" => q \in calls
      BY <2>4
    <3>2. QED
      BY <1>2, <2>1, <2>2, <2>4, <3>1 DEF EndsFor
  <2>5. QED
    BY <2>3, <2>4
<1>8. QED
  BY <1>2, <1>5, <1>6, <1>7 DEF RedisInv

\* Redis sets the expiry of its counter.
LEMMA RedisExpires ==
  ASSUME LimitInv, UNCHANGED now, NoneByRedis, NEW r \in calls, r.at = "expire",
         key' = [key EXCEPT !.until = now + Window], orphans \subseteq orphans',
         \A q \in calls' : q \in calls \ {r} \/ (Fresh(q) /\ q.got = r.got /\ q.at = "ttl")
  PROVE  key' \in Counter /\ RedisInv'
<1>1. /\ now \in Nat /\ now <= Horizon /\ key \in Counter
      /\ \A a \in refused : a.of \in Nat /\ a.until \in Nat
  BY DEF LimitInv, LimitTyped
<1>2. /\ key' \in Counter /\ key'.of = key.of /\ key'.count = key.count
      /\ key'.until = now + Window /\ key'.until # R!Never
  BY <1>1, LimitConstants DEF Counter
<1>3. CallOK(r)
  BY DEF LimitInv, RedisInv
<1>4. \A q \in calls' : q.at # "expire"
  BY <1>3 DEF CallOK
<1>5. ASSUME NEW q \in calls'
      PROVE  CallOK(q)'
  <2>1. CASE q \in calls
    <3>1. CallOK(q)
      BY <2>1 DEF LimitInv, RedisInv
    <3>2. QED
      BY <1>2, <1>4, <3>1 DEF CallOK
  <2>2. CASE q \notin calls
    <3>1. now <= now /\ now <= now + 1
      BY <1>1
    <3>2. Fresh(q) /\ q.got = r.got
      BY <2>2
    <3>3. QED
      BY <1>1, <1>2, <1>3, <1>4, <3>1, <3>2 DEF CallOK, Fresh
  <2>3. QED
    BY <2>1, <2>2
<1>6. KeyInv'
  BY <1>2 DEF KeyInv
<1>7. ASSUME NEW a \in refused', a.by = R!Shared
      PROVE  EndsFor(a)'
  <2>1. EndsFor(a) /\ a \in refused
    BY <1>7, LimitConstants DEF LimitInv, RedisInv, NoneByRedis
  <2>2. ASSUME a.of = key.of, key.of \notin orphans'
        PROVE  key'.until <= a.until + 1
    <3>1. r.since + Window <= a.until
      BY <2>1, <2>2 DEF EndsFor
    <3>2. r.since \in Nat /\ now <= r.since + 1 /\ a.until \in Nat
      BY <1>1, <1>3, <2>1 DEF CallOK
    <3>3. QED
      BY <1>1, <1>2, <3>1, <3>2, LimitConstants
  <2>3. QED
    BY <1>2, <1>4, <2>1, <2>2 DEF EndsFor
<1>8. QED
  BY <1>2, <1>5, <1>6, <1>7 DEF RedisInv

LEMMA LimitAsk ==
  ASSUME LimitInv, NEW p \in Processes, R!Ask(p)
  PROVE  LimitInv'
<1>1. /\ now \in Nat /\ now <= Horizon /\ key \in Counter /\ memory \in [Processes -> Counter]
      /\ \A a \in refused : a.by \in Processes \union {R!Shared} /\ a.of \in Nat /\ a.until \in Nat
  BY DEF LimitInv, LimitTyped
<1>2. UNCHANGED <<now, key, orphans>>
  BY DEF R!Ask
<1>3. CASE R!IncrementMemory(p) /\ UNCHANGED calls
  <2>1. /\ memory' \in [Processes -> Counter] /\ MemoryInv'
        /\ \A a \in refused' : a \in refused \/ (a.by = p /\ a.of \in Nat /\ a.until \in Nat)
    BY <1>2, <1>3, InMemory
  <2>2. RedisInv'
    BY <1>2, <1>3, <2>1, RedisLeft DEF NoneByRedis
  <2>3. QED
    BY <1>1, <1>2, <2>1, <2>2 DEF LimitInv, LimitTyped
<1>4. CASE now >= avoid[p]
  <2>0. UNCHANGED <<memory, refused>>
    BY <1>4 DEF R!Ask
  <2>1. PICK q : /\ q = [proc |-> p, id |-> left["arrive"], at |-> "incr", since |-> now, got |-> key]
                 /\ calls' = calls \union {q}
    BY <1>4 DEF R!Ask
  <2>2. DOMAIN q = CallFields /\ q.proc = p /\ q.at = "incr" /\ q.since = now /\ q.got = key
    BY <2>1 DEF CallFields
  <2>3. ASSUME NEW r \in calls'
        PROVE  CallOK(r)'
    <3>1. CASE r \in calls
      <4>1. CallOK(r)
        BY <3>1 DEF LimitInv, RedisInv
      <4>2. QED
        BY <1>2, <2>1, <2>2, <4>1 DEF CallOK
    <3>2. CASE r = q
      <4>1. key.of \in Nat /\ key.of <= key.of /\ now <= now /\ now <= now + 1
        BY <1>1 DEF Counter
      <4>2. QED
        BY <1>1, <1>2, <2>2, <3>2, <4>1 DEF CallOK
    <3>3. QED
      BY <2>1, <3>1, <3>2
  <2>4. KeyInv'
    BY <1>2, <2>1 DEF LimitInv, RedisInv, KeyInv
  <2>5. \A a \in refused' : a.by = R!Shared => EndsFor(a)'
    BY <1>2, <2>0, <2>1, <2>2 DEF LimitInv, RedisInv, EndsFor
  <2>6. MemoryInv' /\ LimitTyped'
    BY <1>1, <1>2, <2>0 DEF LimitInv, MemoryInv, LimitTyped
  <2>7. QED
    BY <2>3, <2>4, <2>5, <2>6 DEF LimitInv, RedisInv
<1>5. QED
  BY <1>3, <1>4 DEF R!Ask

\* A command of Redis, but the last one, refuses nobody and leaves memory alone.
LEMMA MemoryLeft ==
  ASSUME LimitInv, UNCHANGED <<now, memory, refused>>, key' \in Counter
  PROVE  LimitTyped' /\ MemoryInv' /\ NoneByRedis
  BY DEF LimitInv, LimitTyped, MemoryInv, NoneByRedis

\* The record of a call that gets on.
LEMMA CallMoves ==
  ASSUME NEW r, NEW step, NEW g, DOMAIN r = CallFields
  PROVE  /\ DOMAIN [r EXCEPT !.at = step, !.since = now, !.got = g] = CallFields
         /\ [r EXCEPT !.at = step, !.since = now, !.got = g].proc = r.proc
         /\ [r EXCEPT !.at = step, !.since = now, !.got = g].at = step
         /\ [r EXCEPT !.at = step, !.since = now, !.got = g].since = now
         /\ [r EXCEPT !.at = step, !.since = now, !.got = g].got = g
         /\ DOMAIN [r EXCEPT !.at = step, !.since = now] = CallFields
         /\ [r EXCEPT !.at = step, !.since = now].proc = r.proc
         /\ [r EXCEPT !.at = step, !.since = now].at = step
         /\ [r EXCEPT !.at = step, !.since = now].since = now
         /\ [r EXCEPT !.at = step, !.since = now].got = r.got
  BY DEF CallFields

LEMMA LimitIncr ==
  ASSUME LimitInv, NEW r \in calls, R!Incr(r)
  PROVE  LimitInv'
<1>1. DOMAIN r = CallFields /\ r.proc \in Processes
  BY DEF LimitInv, RedisInv, CallOK
<1>2. /\ r.at = "incr" /\ key' = R!Counted(key, R!Never)
      /\ UNCHANGED <<now, memory, refused, orphans>>
  BY DEF R!Incr, R!Increments
<1>3. PICK step : step = IF R!Gone(key) THEN "expire" ELSE "ttl"
  OBVIOUS
<1>4. calls' = (calls \ {r}) \union {[r EXCEPT !.at = step, !.since = now, !.got = key']}
  BY <1>3 DEF R!Incr, R!Increments
<1>5. PICK q : q = [r EXCEPT !.at = step, !.since = now, !.got = key']
  OBVIOUS
<1>6. Fresh(q) /\ q.at = step /\ q.got = key'
  BY <1>1, <1>5, CallMoves DEF Fresh
<1>7. NoneByRedis
  BY <1>2 DEF NoneByRedis
<1>8. /\ calls' = (calls \ {r}) \union {q}
      /\ q.at = "expire" => R!Gone(key)
      /\ R!Gone(key) => q.at = "expire"
  BY <1>3, <1>4, <1>5, <1>6
<1>9. key' \in Counter /\ RedisInv'
  BY <1>2, <1>6, <1>7, <1>8, RedisCounts
<1>10. QED
  BY <1>2, <1>9, MemoryLeft DEF LimitInv

LEMMA LimitExpire ==
  ASSUME LimitInv, NEW r \in calls, R!Expire(r)
  PROVE  LimitInv'
<1>1. DOMAIN r = CallFields /\ r.proc \in Processes
  BY DEF LimitInv, RedisInv, CallOK
<1>2. /\ r.at = "expire" /\ key' = [key EXCEPT !.until = now + Window]
      /\ UNCHANGED <<now, memory, refused, orphans>>
      /\ calls' = (calls \ {r}) \union {[r EXCEPT !.at = "ttl", !.since = now]}
  BY DEF R!Expire, R!Then
<1>3. PICK q : q = [r EXCEPT !.at = "ttl", !.since = now]
  OBVIOUS
<1>4. Fresh(q) /\ q.at = "ttl" /\ q.got = r.got
  BY <1>1, <1>3, CallMoves DEF Fresh
<1>5. NoneByRedis
  BY <1>2 DEF NoneByRedis
<1>6. key' \in Counter /\ RedisInv'
  BY <1>2, <1>3, <1>4, <1>5, RedisExpires
<1>7. QED
  BY <1>2, <1>6, MemoryLeft DEF LimitInv

\* The answer says how long the counter will last, which nothing makes longer.
LEMMA LimitTtl ==
  ASSUME LimitInv, NEW r \in calls, R!Ttl(r)
  PROVE  LimitInv'
<1>1. /\ now \in Nat /\ now <= Horizon /\ key \in Counter /\ memory \in [Processes -> Counter]
      /\ \A a \in refused : a.by \in Processes \union {R!Shared} /\ a.of \in Nat /\ a.until \in Nat
  BY DEF LimitInv, LimitTyped
<1>2. CallOK(r)
  BY DEF LimitInv, RedisInv
<1>3. calls' = calls \ {r} /\ r.at = "ttl" /\ UNCHANGED <<now, key, memory, orphans>>
  BY DEF R!Ttl
<1>4. key.of \in Nat /\ key.count \in Nat /\ key.until \in Nat /\ r.got.of \in Nat
  BY <1>1, <1>2 DEF CallOK, Counter
<1>5. PICK until :
        until = now + (IF R!Gone(key) \/ key.until = R!Never THEN Window ELSE key.until - now)
  OBVIOUS
<1>6. /\ until \in Nat
      /\ R!Gone(key) \/ key.until = R!Never => until = now + Window
      /\ ~(R!Gone(key) \/ key.until = R!Never) => until = key.until
  <2>1. CASE R!Gone(key) \/ key.until = R!Never
    BY <1>1, <1>5, <2>1, LimitConstants
  <2>2. CASE ~(R!Gone(key) \/ key.until = R!Never)
    <3>1. until = now + (key.until - now)
      BY <1>5, <2>2
    <3>2. QED
      BY <1>1, <1>4, <2>2, <3>1
  <2>3. QED
    BY <2>1, <2>2
<1>7. \A a \in refused' : a \in refused \/ a = [by |-> R!Shared, of |-> r.got.of, until |-> until]
  BY <1>5 DEF R!Ttl, R!Judge
<1>8. LimitTyped' /\ MemoryInv'
  <2>1. \A a \in refused' : a.by \in Processes \union {R!Shared} /\ a.of \in Nat /\ a.until \in Nat
    BY <1>1, <1>4, <1>6, <1>7
  <2>2. \A a \in refused' : a.by \in Processes => a \in refused
    BY <1>7, LimitConstants
  <2>3. QED
    BY <1>1, <1>3, <2>1, <2>2 DEF LimitInv, LimitTyped, MemoryInv
<1>9. ASSUME NEW a \in refused', a.by = R!Shared
      PROVE  EndsFor(a)'
  <2>1. CASE a \in refused
    <3>1. EndsFor(a)
      BY <1>9, <2>1 DEF LimitInv, RedisInv
    <3>2. QED
      BY <1>3, <3>1 DEF EndsFor
  <2>2. CASE a.of = r.got.of /\ a.until = until
    <3>1. a.of <= key.of
      BY <1>2, <2>2 DEF CallOK
    <3>2. ASSUME key.until # R!Never, key.count > 0
          PROVE  key.until <= until + 1
      <4>1. CASE R!Gone(key)
        <5>1. key.until <= now
          BY <1>4, <3>2, <4>1 DEF R!Gone
        <5>2. QED
          BY <1>1, <1>4, <1>6, <4>1, <5>1, LimitConstants
      <4>2. CASE ~R!Gone(key)
        BY <1>4, <1>6, <3>2, <4>2
      <4>3. QED
        BY <4>1, <4>2
    <3>3. ASSUME NEW q \in calls', q.at = "expire"
          PROVE  q.since + Window <= until
      <4>1. CallOK(q)
        BY <1>3, <3>3 DEF LimitInv, RedisInv
      <4>2. key.until = R!Never /\ q.since \in Nat /\ q.since <= now
        BY <3>3, <4>1 DEF CallOK
      <4>3. QED
        BY <1>1, <1>6, <4>2, LimitConstants
    <3>4. QED
      BY <1>3, <2>2, <3>1, <3>2, <3>3 DEF EndsFor
  <2>3. QED
    BY <1>7, <2>1, <2>2
<1>10. \A q \in calls' : CallOK(q)'
  BY <1>3 DEF LimitInv, RedisInv, CallOK
<1>11. KeyInv'
  BY <1>3 DEF LimitInv, RedisInv, KeyInv
<1>12. QED
  BY <1>8, <1>9, <1>10, <1>11 DEF LimitInv, RedisInv

LEMMA LimitFails ==
  ASSUME LimitInv, NEW r \in calls, R!RedisFails(r)
  PROVE  LimitInv'
<1>1. /\ now \in Nat /\ now <= Horizon /\ key \in Counter /\ memory \in [Processes -> Counter]
      /\ \A a \in refused : a.by \in Processes \union {R!Shared} /\ a.of \in Nat /\ a.until \in Nat
  BY DEF LimitInv, LimitTyped
<1>2. r.proc \in Processes
  BY DEF LimitInv, RedisInv, CallOK
<1>3. calls' = calls \ {r} /\ UNCHANGED now
  BY DEF R!RedisFails
<1>4. /\ memory' \in [Processes -> Counter] /\ MemoryInv'
      /\ \A a \in refused' : \/ a \in refused
                             \/ a.by \in Processes /\ a.of \in Nat /\ a.until \in Nat
  <2>1. CASE UNCHANGED <<memory, refused>>
    BY <1>1, <2>1 DEF LimitInv, MemoryInv
  <2>2. CASE R!IncrementMemory(r.proc)
    BY <1>2, <1>3, <2>2, InMemory
  <2>3. QED
    BY <2>1, <2>2 DEF R!RedisFails
<1>5. NoneByRedis
  BY <1>4 DEF NoneByRedis
<1>6. key' \in Counter /\ RedisInv'
  <2>1. CASE UNCHANGED key /\ orphans' = orphans \union R!Orphans({r})
    <3>1. r.at = "expire" => r.got.of \in orphans'
      BY <2>1 DEF R!Orphans
    <3>2. RedisInv'
      BY <1>3, <1>5, <2>1, <3>1, RedisLeft
    <3>3. QED
      BY <1>1, <2>1, <3>2
  <2>2. CASE /\ r.at = "incr" /\ key' = R!Counted(key, R!Never)
             /\ orphans' = IF R!Gone(key) THEN orphans \union {key'.of} ELSE orphans
    BY <1>3, <1>5, <2>2, RedisCounts
  <2>3. CASE r.at = "expire" /\ key' = [key EXCEPT !.until = now + Window] /\ UNCHANGED orphans
    BY <1>3, <1>5, <2>3, RedisExpires
  <2>4. QED
    BY <2>1, <2>2, <2>3 DEF R!RedisFails
<1>7. LimitTyped'
  BY <1>1, <1>3, <1>4, <1>6 DEF LimitTyped
<1>8. QED
  BY <1>4, <1>6, <1>7 DEF LimitInv

LEMMA LimitRestart ==
  ASSUME LimitInv, NEW p \in Processes, R!Restart(p)
  PROVE  LimitInv'
<1>1. /\ now \in Nat /\ now <= Horizon /\ key \in Counter /\ memory \in [Processes -> Counter]
      /\ \A a \in refused : a.by \in Processes \union {R!Shared} /\ a.of \in Nat /\ a.until \in Nat
  BY DEF LimitInv, LimitTyped
<1>2. PICK lost : lost = {r \in calls : r.proc = p}
  OBVIOUS
<1>3. /\ calls' = calls \ lost /\ orphans' = orphans \union R!Orphans(lost)
      /\ memory' = [memory EXCEPT ![p].count = 0] /\ UNCHANGED <<now, key, refused>>
  BY <1>2 DEF R!Restart
<1>4. \A r \in lost : r.at = "expire" => r.got.of \in orphans'
  BY <1>3 DEF R!Orphans
<1>5. NoneByRedis
  BY <1>3 DEF NoneByRedis
<1>6. RedisInv'
  BY <1>3, <1>4, <1>5, RedisLeft
<1>7. /\ memory' \in [Processes -> Counter]
      /\ \A x \in Processes :
           /\ memory'[x].of = memory[x].of /\ memory'[x].until = memory[x].until
           /\ memory[x].count = 0 => memory'[x].count = 0
  BY <1>1, <1>3 DEF Counter
<1>8. MemoryInv'
  BY <1>3, <1>7 DEF LimitInv, MemoryInv
<1>9. LimitTyped'
  BY <1>1, <1>3, <1>7 DEF LimitTyped
<1>10. QED
  BY <1>6, <1>8, <1>9 DEF LimitInv

\* No command takes longer than a tick.
LEMMA LimitTick ==
  ASSUME LimitInv, R!Tick
  PROVE  LimitInv'
<1>1. now \in Nat /\ now <= Horizon
  BY DEF LimitInv, LimitTyped
<1>2. /\ now < Horizon /\ now' = now + 1 /\ \A r \in calls : r.since = now
      /\ UNCHANGED <<key, memory, calls, refused, orphans>>
  BY DEF R!Tick
<1>3. now' \in Nat /\ now' <= Horizon
  BY <1>1, <1>2, LimitConstants
<1>4. LimitTyped'
  BY <1>2, <1>3 DEF LimitInv, LimitTyped
<1>5. MemoryInv' /\ KeyInv' /\ \A a \in refused' : a.by = R!Shared => EndsFor(a)'
  BY <1>2 DEF LimitInv, MemoryInv, RedisInv, KeyInv, EndsFor
<1>6. ASSUME NEW r \in calls'
      PROVE  CallOK(r)'
  <2>1. CallOK(r) /\ r.since = now
    BY <1>2 DEF LimitInv, RedisInv
  <2>2. r.since <= now' /\ now' <= r.since + 1
    BY <1>1, <1>2, <2>1
  <2>3. QED
    BY <1>2, <2>1, <2>2 DEF CallOK
<1>7. QED
  BY <1>4, <1>5, <1>6 DEF LimitInv, RedisInv

LEMMA LimitStep == LimitInv /\ [DeskNext]_deskVars => LimitInv'
<1> SUFFICES ASSUME LimitInv, [DeskNext]_deskVars
             PROVE  LimitInv'
  OBVIOUS
<1>1. CASE R!LimitNext
  BY <1>1, LimitAsk, LimitIncr, LimitExpire, LimitTtl, LimitFails, LimitRestart, LimitTick
     DEF R!LimitNext, R!Command
<1>2. CASE UNCHANGED limitState
  <2>1. LimitTyped' /\ MemoryInv'
    BY <1>2 DEF LimitInv, LimitTyped, MemoryInv, limitState
  <2>2. RedisInv'
    BY <1>2 DEF LimitInv, RedisInv, CallOK, KeyInv, EndsFor, limitState
  <2>3. QED
    BY <2>1, <2>2 DEF LimitInv
<1>3. QED
  BY <1>1, <1>2, OneScene

LEMMA LimitStart == DeskInit => LimitInv
<1> SUFFICES ASSUME DeskInit
             PROVE  LimitInv
  OBVIOUS
<1>1. /\ now = 0 /\ key = R!Unused /\ memory = [p \in Processes |-> R!Unused]
      /\ calls = {} /\ refused = {}
  BY DEF DeskInit, R!LimitInit
<1>2. R!Unused \in Counter /\ R!Unused.count = 0
  BY DEF R!Unused, Counter
<1>3. LimitTyped
  BY <1>1, <1>2, LimitConstants DEF LimitTyped
<1>4. MemoryInv /\ RedisInv
  BY <1>1, <1>2 DEF MemoryInv, RedisInv, KeyInv
<1>5. QED
  BY <1>3, <1>4 DEF LimitInv

\* Whoever is refused and waits as long as the answer says finds the counter
\* gone that refused him, whatever others did meanwhile: incrementRedis sets an
\* expiry once for each counter, and within the time of a command.
THEOREM RefusalsAreOver == DeskSpec => []RefusalEnds
<1>1. LimitInv => RefusalEnds
  BY RefusalsEnd DEF RefusalEnds
<1>2. QED
  BY <1>1, LimitStart, LimitStep, PTL DEF DeskSpec

-----------------------------------------------------------------------------
(* The inbox in the browser: sequences of events.                            *)

On(s, e) == I!Contains(s, e)
New(m) == [kind |-> "new_message", message |-> m]

\* An event is in a sequence once at most.
Once(s, e) == \A j, k \in 1..Len(s) : s[j] = e /\ s[k] = e => j = k

\* What the message of an event is to the conversation.
RankOf(e) == version[e.message]

\* No message of a sequence is older than one before it.
InOrder(s) == \A j, k \in 1..Len(s) : j < k => RankOf(s[j]) <= RankOf(s[k])

LEMMA TailOf ==
  ASSUME NEW S, NEW s \in Seq(S), s # <<>>
  PROVE  /\ Tail(s) \in Seq(S) /\ Head(s) \in S /\ On(s, Head(s)) /\ Head(s) = s[1]
         /\ Len(s) \in Nat \ {0} /\ Len(Tail(s)) = Len(s) - 1
         /\ \A k \in 1..Len(Tail(s)) : k + 1 \in 1..Len(s) /\ Tail(s)[k] = s[k + 1]
         /\ Tail(s) # <<>> => Tail(s)[Len(Tail(s))] = s[Len(s)]
         /\ Tail(s) = <<>> => Head(s) = s[Len(s)]
         /\ \A e : On(Tail(s), e) => On(s, e)
         /\ \A e : On(s, e) => e = Head(s) \/ On(Tail(s), e)
         /\ \A e : Once(s, e) => Once(Tail(s), e)
         /\ Once(s, Head(s)) => ~On(Tail(s), Head(s))
<1>1. /\ Tail(s) \in Seq(S) /\ Head(s) \in S /\ Head(s) = s[1]
      /\ Len(s) \in Nat \ {0} /\ Len(Tail(s)) = Len(s) - 1
      /\ \A k \in 1..Len(Tail(s)) : Tail(s)[k] = s[k + 1]
  BY HeadTailProperties, EmptySeq, LenProperties
<1>2. \A k \in 1..Len(Tail(s)) : k + 1 \in 1..Len(s)
  BY <1>1
<1>3. Tail(s) # <<>> <=> Len(Tail(s)) # 0
  BY <1>1, EmptySeq
<1>4. Tail(s) # <<>> => Tail(s)[Len(Tail(s))] = s[Len(s)]
  BY <1>1, <1>3
<1>5. Tail(s) = <<>> => Head(s) = s[Len(s)]
  BY <1>1, <1>3
<1>6. On(s, Head(s)) /\ \A e : On(Tail(s), e) => On(s, e)
  BY <1>1, <1>2 DEF On, I!Contains
<1>7. ASSUME NEW e, On(s, e)
      PROVE  e = Head(s) \/ On(Tail(s), e)
  <2>1. PICK k \in 1..Len(s) : s[k] = e
    BY <1>7 DEF On, I!Contains
  <2>2. k = 1 \/ (k - 1 \in 1..Len(Tail(s)) /\ Tail(s)[k - 1] = s[k])
    BY <1>1
  <2>3. QED
    BY <1>1, <2>1, <2>2 DEF On, I!Contains
<1>8. ASSUME NEW e, Once(s, e)
      PROVE  Once(Tail(s), e)
  BY <1>1, <1>2, <1>8 DEF Once
<1>9. ASSUME Once(s, Head(s)), On(Tail(s), Head(s))
      PROVE  FALSE
  <2>1. PICK k \in 1..Len(Tail(s)) : Tail(s)[k] = Head(s)
    BY <1>9 DEF On, I!Contains
  <2>2. k + 1 \in 1..Len(s) /\ s[k + 1] = s[1] /\ 1 \in 1..Len(s)
    BY <1>1, <1>2, <2>1
  <2>3. k + 1 = 1
    BY <1>1, <1>9, <2>2 DEF Once
  <2>4. QED
    BY <2>1, <2>3
<1>10. QED
  BY <1>1, <1>2, <1>4, <1>5, <1>6, <1>7, <1>8, <1>9

LEMMA AppendTo ==
  ASSUME NEW S, NEW s \in Seq(S), NEW x \in S
  PROVE  /\ Append(s, x) \in Seq(S) /\ Append(s, x) # <<>>
         /\ Len(s) \in Nat /\ Len(Append(s, x)) = Len(s) + 1
         /\ \A k \in 1..Len(s) : Append(s, x)[k] = s[k]
         /\ Append(s, x)[Len(Append(s, x))] = x
         /\ \A e : On(Append(s, x), e) <=> On(s, e) \/ e = x
         /\ \A e : Once(s, e) /\ (e # x \/ ~On(s, e)) => Once(Append(s, x), e)
<1>1. /\ Append(s, x) \in Seq(S) /\ Append(s, x) # <<>>
      /\ Len(s) \in Nat /\ Len(Append(s, x)) = Len(s) + 1
      /\ \A k \in 1..Len(s) : Append(s, x)[k] = s[k]
      /\ Append(s, x)[Len(s) + 1] = x
  BY AppendProperties, LenProperties
<1>2. \A k \in 1..(Len(s) + 1) : k \in 1..Len(s) \/ k = Len(s) + 1
  BY <1>1
<1>3. \A k \in 1..Len(s) : k \in 1..(Len(s) + 1) /\ k # Len(s) + 1
  BY <1>1
<1>4. Len(s) + 1 \in 1..(Len(s) + 1)
  BY <1>1
<1>5. \A e : On(Append(s, x), e) <=> On(s, e) \/ e = x
  BY <1>1, <1>2, <1>3, <1>4 DEF On, I!Contains
<1>6. ASSUME NEW e, Once(s, e), e # x \/ ~On(s, e)
      PROVE  Once(Append(s, x), e)
  BY <1>1, <1>2, <1>3, <1>6 DEF Once, On, I!Contains
<1>7. QED
  BY <1>1, <1>5, <1>6

LEMMA JoinOf ==
  ASSUME NEW S, NEW s \in Seq(S), NEW q \in Seq(S)
  PROVE  /\ s \o q \in Seq(S)
         /\ \A e : On(s \o q, e) <=> On(s, e) \/ On(q, e)
<1>1. /\ s \o q \in Seq(S) /\ Len(s) \in Nat /\ Len(q) \in Nat
      /\ Len(s \o q) = Len(s) + Len(q)
      /\ \A k \in 1..(Len(s) + Len(q)) :
           (s \o q)[k] = IF k <= Len(s) THEN s[k] ELSE q[k - Len(s)]
  BY ConcatProperties, LenProperties
<1>2. ASSUME NEW e, On(s \o q, e)
      PROVE  On(s, e) \/ On(q, e)
  <2>1. PICK k \in 1..(Len(s) + Len(q)) : (s \o q)[k] = e
    BY <1>1, <1>2 DEF On, I!Contains
  <2>2. CASE k <= Len(s)
    <3>1. k \in 1..Len(s) /\ s[k] = e
      BY <1>1, <2>1, <2>2
    <3>2. QED
      BY <3>1 DEF On, I!Contains
  <2>3. CASE ~(k <= Len(s))
    <3>1. k - Len(s) \in 1..Len(q) /\ q[k - Len(s)] = e
      BY <1>1, <2>1, <2>3
    <3>2. QED
      BY <3>1 DEF On, I!Contains
  <2>4. QED
    BY <2>2, <2>3
<1>3. ASSUME NEW e, On(s, e)
      PROVE  On(s \o q, e)
  <2>1. PICK k \in 1..Len(s) : s[k] = e
    BY <1>3 DEF On, I!Contains
  <2>2. k \in 1..(Len(s) + Len(q)) /\ (s \o q)[k] = e
    BY <1>1, <2>1
  <2>3. QED
    BY <1>1, <2>2 DEF On, I!Contains
<1>4. ASSUME NEW e, On(q, e)
      PROVE  On(s \o q, e)
  <2>1. PICK k \in 1..Len(q) : q[k] = e
    BY <1>4 DEF On, I!Contains
  <2>2. k + Len(s) \in 1..(Len(s) + Len(q)) /\ ~(k + Len(s) <= Len(s)) /\ k + Len(s) - Len(s) = k
    BY <1>1, <2>1
  <2>3. (s \o q)[k + Len(s)] = e
    BY <1>1, <2>1, <2>2
  <2>4. QED
    BY <1>1, <2>2, <2>3 DEF On, I!Contains
<1>5. QED
  BY <1>1, <1>2, <1>3, <1>4

LEMMA NothingOn ==
  /\ \A S : <<>> \in Seq(S)
  /\ \A e : ~On(<<>>, e) /\ Once(<<>>, e)
  BY EmptySeq DEF On, Once, I!Contains

\* The kinds that a publication carries, one of which may fail.
LEMMA KindsAre ==
  /\ I!Event = [kind : {"new_message", "updated"}, message : Messages]
  /\ I!Kinds \in Seq({"new_message", "updated"}) /\ On(I!Kinds, "new_message")
  /\ \A k \in DOMAIN I!Kinds : I!RemoveAt(I!Kinds, k) \in Seq({"new_message", "updated"})
<1>1. /\ I!Kinds \in Seq({"new_message", "updated"}) /\ DOMAIN I!Kinds = 1..2
      /\ Len(I!Kinds) = 2
      /\ I!Kinds[1] = "new_message" /\ I!Kinds[2] = "updated"
  BY DEF I!Kinds
<1>2. I!Event = [kind : {"new_message", "updated"}, message : Messages]
  <2>1. {I!Kinds[k] : k \in DOMAIN I!Kinds} = {"new_message", "updated"}
    BY <1>1
  <2>2. QED
    BY <2>1 DEF I!Event
<1>3. ASSUME NEW k \in 1..2
      PROVE  I!RemoveAt(I!Kinds, k) \in Seq({"new_message", "updated"})
  <2>1. SubSeq(I!Kinds, 1, k - 1) \in Seq({"new_message", "updated"})
    BY <1>1, SubSeqProperties
  <2>2. SubSeq(I!Kinds, k + 1, 2) \in Seq({"new_message", "updated"})
    BY <1>1, SubSeqProperties
  <2>3. QED
    BY <1>1, <2>1, <2>2, ConcatProperties DEF I!RemoveAt
<1>4. On(I!Kinds, "new_message")
  BY <1>1 DEF On, I!Contains
<1>5. QED
  BY <1>1, <1>2, <1>3, <1>4

-----------------------------------------------------------------------------
(* The inbox in the browser: from the worker to the sockets.                  *)

InBus(e) == \E i \in Instances : On(bus[i], e)

LiveTyped ==
  /\ version \in [Messages -> Nat] /\ IsFiniteSet(I!Stored)
  /\ \A m \in Messages : version[m] <= I!Latest
  /\ due \subseteq Messages /\ bus \in [Instances -> Seq(I!Event)]
  /\ wire \in [Tabs -> Seq(I!Event)] /\ loaded \subseteq Tabs
  /\ DOMAIN cache = Tabs /\ DOMAIN roomListed = Tabs /\ DOMAIN fetch = Tabs
  /\ DOMAIN snapshot = Tabs /\ DOMAIN missed = Tabs
  /\ merged \in [Tabs -> SUBSET Messages] /\ notified \in [Tabs -> SUBSET Messages]
  /\ rung \in [Tabs -> [Messages -> Nat]] /\ visits \in [Tabs -> Nat]

\* What is published of a message every instance receives.
LEMMA Published ==
  ASSUME LiveTyped, NEW m \in Messages, NEW kinds \in Seq({"new_message", "updated"}),
         bus' = I!Receivers(m, kinds)
  PROVE  /\ bus' \in [Instances -> Seq(I!Event)]
         /\ \A e : InBus(e)' => InBus(e) \/ (e \in I!Event /\ e.message = m)
         /\ \A e : InBus(e) => InBus(e)'
         /\ \A kind : On(kinds, kind) => InBus([kind |-> kind, message |-> m])'
<1>1. PICK q : q = [k \in DOMAIN kinds |-> [kind |-> kinds[k], message |-> m]]
  OBVIOUS
<1>2. /\ DOMAIN kinds = 1..Len(kinds) /\ Len(kinds) \in Nat
      /\ \A k \in 1..Len(kinds) : kinds[k] \in {"new_message", "updated"}
  BY LenProperties, ElementOfSeq
<1>3. /\ q \in Seq(I!Event) /\ Len(q) = Len(kinds)
      /\ \A k \in 1..Len(kinds) : q[k] = [kind |-> kinds[k], message |-> m]
  <2>1. q \in [1..Len(kinds) -> I!Event]
    BY <1>1, <1>2, KindsAre
  <2>2. q \in Seq(I!Event)
    BY <1>2, <2>1, IsASeq
  <2>3. Len(q) = Len(kinds)
    BY <1>2, <2>1, <2>2, LenProperties
  <2>4. QED
    BY <1>1, <1>2, <2>2, <2>3
<1>4. ASSUME NEW i \in Instances
      PROVE  /\ bus'[i] \in Seq(I!Event)
             /\ \A e : On(bus'[i], e) <=> On(bus[i], e) \/ On(q, e)
  <2>1. bus'[i] = bus[i] \o q
    BY <1>1 DEF I!Receivers
  <2>2. bus[i] \in Seq(I!Event)
    BY DEF LiveTyped
  <2>3. QED
    BY <1>3, <2>1, <2>2, JoinOf
<1>5. bus' \in [Instances -> Seq(I!Event)]
  BY <1>4 DEF I!Receivers
<1>6. Instances # {}
  BY DeskAssumption DEF I!LiveConstants
<1>7. \A e : On(q, e) => e \in I!Event /\ e.message = m
  <2>1. \A k \in 1..Len(q) : q[k] \in I!Event
    BY <1>3, ElementOfSeq
  <2>2. \A k \in 1..Len(q) : q[k].message = m
    <3>1. \A x : [kind |-> x, message |-> m].message = m
      OBVIOUS
    <3>2. QED
      BY <1>3, <3>1
  <2>3. QED
    BY <2>1, <2>2 DEF On, I!Contains
<1>8. \A kind : On(kinds, kind) => On(q, [kind |-> kind, message |-> m])
  BY <1>3 DEF On, I!Contains
<1>9. QED
  BY <1>4, <1>5, <1>6, <1>7, <1>8 DEF InBus

\* An instance takes the first of its events.
LEMMA Shifted ==
  ASSUME LiveTyped, NEW i \in Instances, bus[i] # <<>>, I!Shift(i)
  PROVE  /\ bus' \in [Instances -> Seq(I!Event)]
         /\ Head(bus[i]) \in I!Event /\ InBus(Head(bus[i]))
         /\ \A e : InBus(e)' => InBus(e)
         /\ \A e : InBus(e) => e = Head(bus[i]) \/ InBus(e)'
<1>1. bus \in [Instances -> Seq(I!Event)] /\ bus[i] \in Seq(I!Event)
  BY DEF LiveTyped
<1>2. /\ Tail(bus[i]) \in Seq(I!Event) /\ Head(bus[i]) \in I!Event /\ On(bus[i], Head(bus[i]))
      /\ \A e : On(Tail(bus[i]), e) => On(bus[i], e)
      /\ \A e : On(bus[i], e) => e = Head(bus[i]) \/ On(Tail(bus[i]), e)
  BY <1>1, TailOf
<1>3. bus' = [bus EXCEPT ![i] = Tail(bus[i])]
  BY DEF I!Shift
<1>4. /\ bus' \in [Instances -> Seq(I!Event)]
      /\ \A j \in Instances : bus'[j] = IF j = i THEN Tail(bus[i]) ELSE bus[j]
  BY <1>1, <1>2, <1>3
<1>5. QED
  BY <1>2, <1>4 DEF InBus

\* What is lost is known as missed.
LEMMA Lost ==
  ASSUME NEW tabs, NEW messages, I!Lose(tabs, messages)
  PROVE  /\ DOMAIN missed' = Tabs /\ lossy \subseteq lossy'
         /\ \A t \in Tabs : missed[t] \subseteq missed'[t]
         /\ \A t \in Tabs \intersect tabs : \A m \in messages : m \in missed'[t] /\ t \in lossy'
  BY DEF I!Lose

\* An event that is emitted reaches each browser, or is known as missed.
LEMMA Emitted ==
  ASSUME LiveTyped, NEW e \in I!Event, I!Emit(e)
  PROVE  /\ wire' \in [Tabs -> Seq(I!Event)]
         /\ DOMAIN missed' = Tabs /\ lossy \subseteq lossy'
         /\ \A t \in Tabs :
              /\ missed[t] \subseteq missed'[t]
              /\ t \in wired => wire'[t] = Append(wire[t], e)
              /\ t \notin wired => wire'[t] = wire[t] /\ e.message \in missed'[t] /\ t \in lossy'
<1>1. I!Lose(Tabs \ wired, {e.message})
  BY DEF I!Emit
<1>2. /\ DOMAIN missed' = Tabs /\ lossy \subseteq lossy'
      /\ \A t \in Tabs :
           /\ missed[t] \subseteq missed'[t]
           /\ t \notin wired => e.message \in missed'[t] /\ t \in lossy'
  BY <1>1, Lost
<1>3. \A t \in Tabs : Append(wire[t], e) \in Seq(I!Event)
  BY AppendTo DEF LiveTyped
<1>4. wire' = [t \in Tabs |-> IF t \in wired THEN Append(wire[t], e) ELSE wire[t]]
  BY DEF I!Emit
<1>5. wire' \in [Tabs -> Seq(I!Event)]
  BY <1>3, <1>4 DEF LiveTyped
<1>6. QED
  BY <1>2, <1>4, <1>5

\* An event that dies with an instance is known as missed.
LEMMA Died ==
  ASSUME LiveTyped, NEW i \in Instances, I!Dies(i)
  PROVE  /\ bus' \in [Instances -> Seq(I!Event)]
         /\ claimed \subseteq claimed' /\ DOMAIN missed' = Tabs /\ lossy \subseteq lossy'
         /\ \A t \in Tabs : missed[t] \subseteq missed'[t]
         /\ \A e : InBus(e)' => InBus(e)
         /\ \A e \in claimed' : e \in claimed \/ InBus(e)
         /\ \A e : InBus(e) /\ e \notin claimed =>
              \/ InBus(e)' /\ e \notin claimed'
              \/ \A t \in Tabs : e.message \in missed'[t] /\ t \in lossy'
<1> DEFINE mine == {bus[i][k] : k \in DOMAIN bus[i]}
           unclaimed(taken) == mine \ (claimed \union taken)
           elsewhere(e) == \E j \in Instances \ {i} : \E k \in DOMAIN bus[j] : bus[j][k] = e
<1>1. PICK taken \in {{}, {bus[i][k] : k \in DOMAIN bus[i] \intersect {1}} \ claimed} :
        /\ bus' = [bus EXCEPT ![i] = <<>>] /\ claimed' = claimed \union taken
        /\ I!Lose(Tabs, {e.message :
             e \in (unclaimed(taken) \ {d \in unclaimed(taken) : elsewhere(d)}) \union taken})
  BY DEF I!Dies
<1>2. PICK lost : lost = unclaimed(taken) \ {d \in unclaimed(taken) : elsewhere(d)}
  OBVIOUS
<1>3. I!Lose(Tabs, {e.message : e \in lost \union taken})
  BY <1>1, <1>2
<1>4. bus \in [Instances -> Seq(I!Event)] /\ \A j \in Instances : DOMAIN bus[j] = 1..Len(bus[j])
  BY LenProperties DEF LiveTyped
<1>5. /\ bus' \in [Instances -> Seq(I!Event)] /\ bus'[i] = <<>>
      /\ \A j \in Instances \ {i} : bus'[j] = bus[j]
  BY <1>1, <1>4, NothingOn
<1>6. \A e : InBus(e)' <=> elsewhere(e)
  BY <1>4, <1>5, NothingOn DEF InBus, On, I!Contains
<1>7. \A e : InBus(e) <=> e \in mine \/ elsewhere(e)
  BY <1>4 DEF InBus, On, I!Contains
<1>8. taken \subseteq mine
  BY <1>1
<1>9. /\ DOMAIN missed' = Tabs /\ lossy \subseteq lossy'
      /\ \A t \in Tabs : missed[t] \subseteq missed'[t]
      /\ \A e \in lost \union taken : \A t \in Tabs : e.message \in missed'[t] /\ t \in lossy'
  BY <1>3, Lost
<1>10. \A e \in mine : e \in claimed \/ e \in taken \/ e \in lost \/ elsewhere(e)
  BY <1>2
<1> HIDE DEF mine, elsewhere, unclaimed
<1>11. QED
  BY <1>10, <1>1, <1>2, <1>5, <1>6, <1>7, <1>8, <1>9

\* An event, and what was merged, is of a message that is stored, and nothing was
\* published of a message that is due.
EventsInv ==
  /\ \A m \in due : version[m] > 0
  /\ \A e : (e \in claimed \/ InBus(e)) =>
       e \in I!Event /\ RankOf(e) > 0 /\ e.message \notin due
  /\ \A t \in Tabs :
       /\ \A e : On(wire[t], e) => RankOf(e) > 0
       /\ \A m \in merged[t] : version[m] > 0

LiveKnown == LiveTyped /\ EventsInv

LEMMA SameSize ==
  ASSUME NEW S
  PROVE  I!Cardinality(S) = Cardinality(S)
  BY DEF I!Cardinality, Cardinality

LEMMA LatestIs == IsFiniteSet(I!Stored) => I!Latest \in Nat
  BY SameSize, FS_CardinalityType DEF I!Latest

LEMMA OnWireIs ==
  ASSUME LiveTyped, NEW t \in Tabs, NEW e, On(wire[t], e)
  PROVE  e \in I!Event /\ e.message \in Messages
<1>1. wire[t] \in Seq(I!Event)
  BY DEF LiveTyped
<1>2. PICK k \in 1..Len(wire[t]) : wire[t][k] = e
  BY DEF On, I!Contains
<1>3. e \in I!Event
  BY <1>1, <1>2, ElementOfSeq
<1>4. QED
  BY <1>3, KindsAre

\* A message that is stored is the latest.
LEMMA StoredLatest ==
  ASSUME LiveTyped, NEW m \in Messages, I!Store(m)
  PROVE  /\ version' \in [Messages -> Nat] /\ version[m] = 0
         /\ \A n \in Messages : n # m => version'[n] = version[n]
         /\ I!Latest \in Nat /\ I!Latest' = I!Latest + 1 /\ version'[m] = I!Latest'
         /\ IsFiniteSet(I!Stored')
         /\ \A n \in Messages : version'[n] <= I!Latest'
<1>1. /\ version \in [Messages -> Nat] /\ IsFiniteSet(I!Stored)
      /\ \A n \in Messages : version[n] <= I!Latest
  BY DEF LiveTyped
<1>2. I!Latest \in Nat
  BY <1>1, LatestIs
<1>3. version' = [version EXCEPT ![m] = I!Latest + 1] /\ version[m] = 0
  BY DEF I!Store
<1>4. /\ version' \in [Messages -> Nat] /\ version'[m] = I!Latest + 1
      /\ \A n \in Messages : n # m => version'[n] = version[n]
  BY <1>1, <1>2, <1>3
<1>5. I!Stored' = I!Stored \union {m} /\ m \notin I!Stored
  BY <1>1, <1>2, <1>3, <1>4 DEF I!Stored
<1>6. IsFiniteSet(I!Stored') /\ Cardinality(I!Stored') = Cardinality(I!Stored) + 1
  BY <1>1, <1>5, FS_AddElement
<1>7. I!Latest' = I!Latest + 1
  BY <1>6, SameSize DEF I!Latest
<1>8. \A n \in Messages : version'[n] <= I!Latest'
  BY <1>1, <1>2, <1>4, <1>7
<1>9. QED
  BY <1>2, <1>3, <1>4, <1>6, <1>7, <1>8

\* What the clauses about the ranks need of a step that stores nothing.
LEMMA RanksKept ==
  ASSUME LiveTyped, UNCHANGED version
  PROVE  /\ version' \in [Messages -> Nat] /\ IsFiniteSet(I!Stored')
         /\ \A m \in Messages : version'[m] <= I!Latest'
         /\ I!Latest' = I!Latest /\ I!Page' = I!Page
         /\ \A e : RankOf(e)' = RankOf(e)
  BY DEF LiveTyped, I!Stored, I!Latest, I!Page, RankOf

ScreenKept ==
  /\ loaded' \subseteq Tabs /\ DOMAIN cache' = Tabs /\ DOMAIN roomListed' = Tabs
  /\ DOMAIN fetch' = Tabs /\ DOMAIN snapshot' = Tabs
  /\ merged' \in [Tabs -> SUBSET Messages] /\ notified' \in [Tabs -> SUBSET Messages]
  /\ rung' \in [Tabs -> [Messages -> Nat]] /\ visits' \in [Tabs -> Nat]

LEMMA ScreenLeft ==
  ASSUME LiveTyped, UNCHANGED <<I!screen, I!request>>
  PROVE  ScreenKept
  BY DEF LiveTyped, ScreenKept, I!screen, I!request

LEMMA KnownStore ==
  ASSUME LiveKnown, NEW m \in Messages, I!Store(m)
  PROVE  LiveKnown'
<1>1. LiveTyped
  BY DEF LiveKnown
<1>2. /\ version' \in [Messages -> Nat] /\ version[m] = 0
      /\ \A n \in Messages : n # m => version'[n] = version[n]
      /\ I!Latest \in Nat /\ version'[m] = I!Latest + 1
      /\ IsFiniteSet(I!Stored') /\ \A n \in Messages : version'[n] <= I!Latest'
  BY <1>1, StoredLatest
<1>3. /\ due' = due \union {m}
      /\ UNCHANGED <<bus, claimed, I!socket, I!screen, I!request, missed>>
  BY DEF I!Store
<1>4. ScreenKept
  BY <1>1, <1>3, ScreenLeft
<1>5. UNCHANGED <<wire, merged>>
  BY <1>3 DEF I!socket, I!screen
<1>6. LiveTyped'
  BY <1>1, <1>2, <1>3, <1>4, <1>5 DEF LiveTyped, ScreenKept
<1>7. \A n \in Messages : version[n] > 0 => n # m /\ version'[n] > 0
  BY <1>1, <1>2 DEF LiveTyped
<1>8. \A e \in I!Event : RankOf(e) > 0 => e.message # m /\ RankOf(e)' > 0
  BY <1>7, KindsAre DEF RankOf
<1>9. \A n \in due' : version'[n] > 0
  BY <1>1, <1>2, <1>3, <1>7 DEF LiveKnown, LiveTyped, EventsInv
<1>10. ASSUME NEW e, e \in claimed' \/ InBus(e)'
       PROVE  e \in I!Event /\ RankOf(e)' > 0 /\ e.message \notin due'
  <2>1. e \in claimed \/ InBus(e)
    BY <1>3, <1>10 DEF InBus
  <2>2. e \in I!Event /\ RankOf(e) > 0 /\ e.message \notin due
    BY <2>1 DEF LiveKnown, EventsInv
  <2>3. QED
    BY <1>3, <1>8, <2>2
<1>11. ASSUME NEW t \in Tabs
       PROVE  /\ \A e : On(wire'[t], e) => RankOf(e)' > 0
              /\ \A n \in merged'[t] : version'[n] > 0
  <2>1. \A e : On(wire[t], e) => e \in I!Event /\ RankOf(e) > 0
    BY <1>1, OnWireIs DEF LiveKnown, EventsInv
  <2>2. merged[t] \subseteq Messages /\ \A n \in merged[t] : version[n] > 0
    BY DEF LiveKnown, LiveTyped, EventsInv
  <2>3. QED
    BY <1>5, <1>7, <1>8, <2>1, <2>2
<1>12. QED
  BY <1>6, <1>9, <1>10, <1>11 DEF LiveKnown, EventsInv

LEMMA KnownPublish ==
  ASSUME LiveKnown, NEW m \in Messages, I!Publish(m) \/ I!PublishFails(m)
  PROVE  LiveKnown'
<1>1. LiveTyped /\ EventsInv
  BY DEF LiveKnown
<1>2. /\ m \in due /\ due' = due \ {m}
      /\ UNCHANGED <<version, claimed, I!socket, I!screen, I!request>>
  BY DEF I!Publish, I!PublishFails
<1>3. PICK kinds \in Seq({"new_message", "updated"}) : bus' = I!Receivers(m, kinds)
  BY KindsAre DEF I!Publish, I!PublishFails
<1>4. /\ bus' \in [Instances -> Seq(I!Event)]
      /\ \A e : InBus(e)' => InBus(e) \/ (e \in I!Event /\ e.message = m)
  BY <1>1, <1>3, Published
<1>5. DOMAIN missed' = Tabs
  <2>1. CASE I!Publish(m)
    BY <1>1, <2>1 DEF I!Publish, I!history, LiveTyped
  <2>2. CASE I!PublishFails(m)
    BY <2>2, Lost DEF I!PublishFails
  <2>3. QED
    BY <2>1, <2>2
<1>6. ScreenKept
  BY <1>1, <1>2, ScreenLeft
<1>7. UNCHANGED <<wire, merged>>
  BY <1>2 DEF I!socket, I!screen
<1>8. LiveTyped'
  BY <1>1, <1>2, <1>4, <1>5, <1>6, <1>7, RanksKept DEF LiveTyped, ScreenKept
<1>9. EventsInv'
  <2>1. \A e : RankOf(e)' = RankOf(e)
    BY <1>2 DEF RankOf
  <2>2. ASSUME NEW e, e \in claimed' \/ InBus(e)'
        PROVE  e \in I!Event /\ RankOf(e)' > 0 /\ e.message \notin due'
    <3>1. CASE e \in claimed \/ InBus(e)
      BY <1>1, <1>2, <2>1, <3>1 DEF EventsInv
    <3>2. CASE e \in I!Event /\ e.message = m
      BY <1>1, <1>2, <2>1, <3>2 DEF EventsInv, RankOf
    <3>3. QED
      BY <1>2, <1>4, <2>2, <3>1, <3>2
  <2>3. \A n \in due' : version'[n] > 0
    BY <1>1, <1>2 DEF EventsInv
  <2>4. \A t \in Tabs : /\ \A e : On(wire'[t], e) => RankOf(e)' > 0
                        /\ \A n \in merged'[t] : version'[n] > 0
    BY <1>1, <1>2, <1>7, <2>1 DEF EventsInv
  <2>5. QED
    BY <2>2, <2>3, <2>4 DEF EventsInv
<1>10. QED
  BY <1>8, <1>9 DEF LiveKnown

\* An instance claims the event that it takes or does not, and emits it or not.
Handled(i) ==
  /\ bus[i] # <<>> /\ I!Shift(i)
  /\ claimed' = claimed \union {Head(bus[i])} \/ UNCHANGED claimed
  /\ I!Emit(Head(bus[i])) \/ UNCHANGED <<wire, missed, lossy>>
  /\ UNCHANGED <<version, due, I!screen, I!request>>

LEMMA KnownHandled ==
  ASSUME LiveKnown, NEW i \in Instances, Handled(i)
  PROVE  LiveKnown'
<1>1. LiveTyped /\ EventsInv
  BY DEF LiveKnown
<1>2. PICK e0 : e0 = Head(bus[i])
  OBVIOUS
<1>3. /\ bus' \in [Instances -> Seq(I!Event)] /\ e0 \in I!Event /\ InBus(e0)
      /\ \A e : InBus(e)' => InBus(e)
  BY <1>1, <1>2, Shifted DEF Handled
<1>4. \A e \in claimed' : e \in claimed \/ e = e0
  BY <1>2 DEF Handled
<1>5. /\ wire' \in [Tabs -> Seq(I!Event)] /\ DOMAIN missed' = Tabs
      /\ \A t \in Tabs : wire'[t] = Append(wire[t], e0) \/ wire'[t] = wire[t]
  <2>1. CASE I!Emit(e0)
    BY <1>1, <1>3, <2>1, Emitted
  <2>2. CASE UNCHANGED <<wire, missed, lossy>>
    BY <1>1, <2>2 DEF LiveTyped
  <2>3. QED
    BY <1>2, <2>1, <2>2 DEF Handled
<1>6. UNCHANGED <<version, due, merged>> /\ ScreenKept
  BY <1>1, ScreenLeft DEF Handled, I!screen
<1>7. LiveTyped'
  BY <1>1, <1>3, <1>5, <1>6, RanksKept DEF LiveTyped, ScreenKept
<1>8. EventsInv'
  <2>1. \A e : RankOf(e)' = RankOf(e)
    BY <1>6 DEF RankOf
  <2>2. \A e : (e \in claimed' \/ InBus(e)') =>
          e \in I!Event /\ RankOf(e)' > 0 /\ e.message \notin due'
    BY <1>1, <1>3, <1>4, <1>6, <2>1 DEF EventsInv
  <2>3. ASSUME NEW t \in Tabs, NEW e, On(wire'[t], e)
        PROVE  RankOf(e)' > 0
    <3>1. On(wire[t], e) \/ e = e0
      <4>1. wire[t] \in Seq(I!Event)
        BY <1>1 DEF LiveTyped
      <4>2. On(Append(wire[t], e0), e) <=> On(wire[t], e) \/ e = e0
        BY <1>3, <4>1, AppendTo
      <4>3. QED
        BY <1>5, <2>3, <4>2
    <3>2. QED
      BY <1>1, <1>3, <2>1, <3>1 DEF EventsInv
  <2>4. QED
    BY <1>1, <1>6, <2>2, <2>3 DEF EventsInv
<1>9. QED
  BY <1>7, <1>8 DEF LiveKnown

LEMMA KnownDies ==
  ASSUME LiveKnown, NEW i \in Instances, I!Dies(i)
  PROVE  LiveKnown'
<1>1. LiveTyped /\ EventsInv
  BY DEF LiveKnown
<1>2. /\ bus' \in [Instances -> Seq(I!Event)] /\ DOMAIN missed' = Tabs
      /\ \A e : InBus(e)' => InBus(e)
      /\ \A e \in claimed' : e \in claimed \/ InBus(e)
  BY <1>1, Died
<1>3. UNCHANGED <<version, due, I!socket, I!screen, I!request>>
  BY DEF I!Dies
<1>4. UNCHANGED <<wire, merged>> /\ ScreenKept
  BY <1>1, <1>3, ScreenLeft DEF I!screen, I!socket
<1>5. LiveTyped'
  BY <1>1, <1>2, <1>3, <1>4, RanksKept DEF LiveTyped, ScreenKept
<1>6. EventsInv'
  <2>1. \A e : RankOf(e)' = RankOf(e)
    BY <1>3 DEF RankOf
  <2>2. \A e : (e \in claimed' \/ InBus(e)') =>
          e \in I!Event /\ RankOf(e)' > 0 /\ e.message \notin due'
    BY <1>1, <1>2, <1>3, <2>1 DEF EventsInv
  <2>3. QED
    BY <1>1, <1>3, <1>4, <2>1, <2>2 DEF EventsInv
<1>7. QED
  BY <1>5, <1>6 DEF LiveKnown

\* What a browser does leaves the server alone, and takes events from its wire.
LEMMA KnownTab ==
  ASSUME LiveKnown, UNCHANGED I!server, ScreenKept, DOMAIN missed' = Tabs,
         wire' \in [Tabs -> Seq(I!Event)],
         \A t \in Tabs : /\ \A e : On(wire'[t], e) => On(wire[t], e)
                         /\ \A m \in merged'[t] : version[m] > 0
  PROVE  LiveKnown'
<1>1. LiveTyped /\ EventsInv /\ UNCHANGED <<version, due, bus, claimed>>
  BY DEF LiveKnown, I!server, I!api
<1>2. LiveTyped'
  BY <1>1, RanksKept DEF LiveTyped, ScreenKept
<1>3. \A e : RankOf(e)' = RankOf(e) /\ (InBus(e)' <=> InBus(e))
  BY <1>1 DEF RankOf, InBus
<1>4. EventsInv'
  BY <1>1, <1>3 DEF EventsInv
<1>5. QED
  BY <1>2, <1>4 DEF LiveKnown

\* Actions that leave the wire, and what was merged, alone or forget it.
Quiet(t) ==
  I!Connect(t) \/ I!Navigate(t) \/ I!Ask(t) \/ I!Answer(t) \/ I!FetchFails(t) \/ I!Load(t)

LEMMA QuietKeeps ==
  ASSUME LiveTyped, NEW t \in Tabs, Quiet(t)
  PROVE  /\ UNCHANGED <<I!server, wire, lossy, doubted, overlapped, rung>>
         /\ ScreenKept /\ DOMAIN missed' = Tabs
         /\ \A u \in Tabs : merged'[u] \subseteq merged[u]
<1> USE DEF LiveTyped, ScreenKept, I!screen, I!request, I!history, I!socket, I!Settles
<1>1. CASE I!Connect(t)
  BY <1>1 DEF I!Connect
<1>2. CASE I!Navigate(t)
  BY <1>2 DEF I!Navigate
<1>3. CASE I!Ask(t)
  BY <1>3 DEF I!Ask
<1>4. CASE I!Answer(t)
  BY <1>4 DEF I!Answer
<1>5. CASE I!FetchFails(t)
  BY <1>5 DEF I!FetchFails
<1>6. CASE I!Load(t)
  BY <1>6 DEF I!Load
<1>7. QED
  BY <1>1, <1>2, <1>3, <1>4, <1>5, <1>6 DEF Quiet

\* An event arrives.
LEMMA EventArrives ==
  ASSUME LiveTyped, NEW t \in Tabs, I!Receive(t)
  PROVE  \E e \in I!Event :
           /\ e = Head(wire[t]) /\ On(wire[t], e) /\ wire[t] # <<>> /\ e = wire[t][1]
           /\ e.message \in Messages
           /\ wire' = [wire EXCEPT ![t] = Tail(wire[t])]
           /\ Tail(wire[t]) \in Seq(I!Event)
           /\ \/ I!ReceiveNew(t) /\ e = New(e.message)
              \/ I!ReceiveUpdate(t) /\ e.kind = "updated"
<1>1. wire[t] \in Seq(I!Event) /\ wire[t] # <<>>
  BY DEF LiveTyped, I!Receive, I!ReceiveNew, I!ReceiveUpdate
<1>2. PICK e : e = Head(wire[t])
  OBVIOUS
<1>3. /\ e \in I!Event /\ On(wire[t], e) /\ e = wire[t][1] /\ Tail(wire[t]) \in Seq(I!Event)
  BY <1>1, <1>2, TailOf
<1>4. e.message \in Messages /\ (e.kind = "new_message" => e = New(e.message))
  BY <1>3, KindsAre DEF New
<1>5. wire' = [wire EXCEPT ![t] = Tail(wire[t])]
  BY DEF I!Receive, I!ReceiveNew, I!ReceiveUpdate
<1>6. (I!ReceiveNew(t) /\ e.kind = "new_message") \/ (I!ReceiveUpdate(t) /\ e.kind = "updated")
  BY <1>2 DEF I!Receive, I!ReceiveNew, I!ReceiveUpdate
<1>7. QED
  BY <1>1, <1>2, <1>3, <1>4, <1>5, <1>6

\* What an older answer overwrites is known as missed.
LEMMA Overtaken ==
  ASSUME LiveTyped, NEW t \in Tabs, NEW m \in Messages, I!Overtake(t, m)
  PROVE  /\ DOMAIN missed' = Tabs /\ lossy \subseteq lossy'
         /\ \A u \in Tabs : missed[u] \subseteq missed'[u]
         /\ fetch[t] = "answered" => m \in missed'[t] /\ t \in lossy'
<1>1. CASE fetch[t] = "answered"
  <2>1. I!Lose({t}, {m})
    BY <1>1 DEF I!Overtake
  <2>2. QED
    BY <2>1, Lost
<1>2. CASE fetch[t] # "answered"
  BY <1>2 DEF I!Overtake, LiveTyped
<1>3. QED
  BY <1>1, <1>2

LEMMA KnownReceive ==
  ASSUME LiveKnown, NEW t \in Tabs, I!Receive(t)
  PROVE  LiveKnown'
<1>1. LiveTyped /\ EventsInv
  BY DEF LiveKnown
<1>2. PICK e \in I!Event :
        /\ e = Head(wire[t]) /\ On(wire[t], e) /\ wire[t] # <<>> /\ e.message \in Messages
        /\ wire' = [wire EXCEPT ![t] = Tail(wire[t])] /\ Tail(wire[t]) \in Seq(I!Event)
        /\ I!ReceiveNew(t) \/ I!ReceiveUpdate(t)
  BY <1>1, EventArrives
<1>3. I!Overtake(t, e.message) /\ UNCHANGED <<I!server, I!request, loaded, visits>>
  BY <1>2 DEF I!ReceiveNew, I!ReceiveUpdate
<1>4. DOMAIN missed' = Tabs
  BY <1>1, <1>2, <1>3, Overtaken
<1>5. wire' \in [Tabs -> Seq(I!Event)] /\ \A u \in Tabs : \A d : On(wire'[u], d) => On(wire[u], d)
  <2>1. wire \in [Tabs -> Seq(I!Event)]
    BY <1>1 DEF LiveTyped
  <2>2. \A d : On(Tail(wire[t]), d) => On(wire[t], d)
    BY <1>2, <2>1, TailOf
  <2>3. QED
    BY <1>2, <2>1, <2>2
<1>6. /\ merged' = [merged EXCEPT ![t] = @ \union {e.message}] \/ UNCHANGED merged
      /\ notified' = [notified EXCEPT ![t] = @ \union {e.message}] \/ UNCHANGED notified
      /\ rung' = [rung EXCEPT ![t][e.message] = @ + 1] \/ UNCHANGED rung
      /\ cache' = [cache EXCEPT ![t] = @ \union {e.message}] \/ UNCHANGED cache
      /\ roomListed' = [roomListed EXCEPT ![t] = RankOf(e)] \/ UNCHANGED roomListed
  BY <1>2 DEF I!ReceiveNew, I!ReceiveUpdate, I!Merge, RankOf
<1>7. /\ DOMAIN cache' = Tabs /\ DOMAIN roomListed' = Tabs
      /\ merged' \in [Tabs -> SUBSET Messages] /\ notified' \in [Tabs -> SUBSET Messages]
  <2>1. DOMAIN cache' = Tabs
    BY <1>1, <1>6 DEF LiveTyped
  <2>2. DOMAIN roomListed' = Tabs
    BY <1>1, <1>6 DEF LiveTyped
  <2>3. \A f \in [Tabs -> SUBSET Messages] :
          [f EXCEPT ![t] = @ \union {e.message}] \in [Tabs -> SUBSET Messages]
    <3>1. \A f \in [Tabs -> SUBSET Messages] : f[t] \union {e.message} \in SUBSET Messages
      BY <1>2
    <3>2. QED
      BY <3>1
  <2>4. merged' \in [Tabs -> SUBSET Messages] /\ notified' \in [Tabs -> SUBSET Messages]
    <3>1. merged \in [Tabs -> SUBSET Messages] /\ notified \in [Tabs -> SUBSET Messages]
      BY <1>1 DEF LiveTyped
    <3>2. merged' \in [Tabs -> SUBSET Messages]
      <4>1. CASE merged' = [merged EXCEPT ![t] = @ \union {e.message}]
        BY <2>3, <3>1, <4>1
      <4>2. QED
        BY <1>6, <3>1, <4>1
    <3>3. notified' \in [Tabs -> SUBSET Messages]
      <4>1. CASE notified' = [notified EXCEPT ![t] = @ \union {e.message}]
        BY <2>3, <3>1, <4>1
      <4>2. QED
        BY <1>6, <3>1, <4>1
    <3>4. QED
      BY <3>2, <3>3
  <2>5. QED
    BY <2>1, <2>2, <2>4
<1>8. rung' \in [Tabs -> [Messages -> Nat]]
  <2>1. rung \in [Tabs -> [Messages -> Nat]] /\ rung[t][e.message] + 1 \in Nat
    BY <1>1, <1>2 DEF LiveTyped
  <2>2. CASE rung' = [rung EXCEPT ![t][e.message] = @ + 1]
    BY <1>2, <2>1, <2>2
  <2>3. QED
    BY <1>6, <2>1, <2>2
<1>9. ScreenKept
  BY <1>1, <1>3, <1>7, <1>8 DEF LiveTyped, ScreenKept, I!request
<1>10. \A u \in Tabs : \A m \in merged'[u] : m \in merged[u] \/ m = e.message
  <2>1. DOMAIN merged = Tabs
    BY <1>1 DEF LiveTyped
  <2>2. CASE merged' = [merged EXCEPT ![t] = @ \union {e.message}]
    BY <2>1, <2>2
  <2>3. QED
    BY <1>6, <2>2
<1>11. \A u \in Tabs : \A m \in merged'[u] : version[m] > 0
  BY <1>1, <1>2, <1>10 DEF EventsInv, RankOf
<1>12. QED
  BY <1>3, <1>4, <1>5, <1>9, <1>11, KnownTab

LEMMA KnownDisconnect ==
  ASSUME LiveKnown, NEW t \in Tabs, I!Disconnect(t)
  PROVE  LiveKnown'
<1>1. LiveTyped /\ EventsInv
  BY DEF LiveKnown
<1>2. /\ UNCHANGED <<I!server, I!screen, I!request>> /\ wire' = [wire EXCEPT ![t] = <<>>]
      /\ \E messages : I!Lose({t}, messages)
  BY DEF I!Disconnect
<1>3. DOMAIN missed' = Tabs
  BY <1>2, Lost
<1>4. wire' \in [Tabs -> Seq(I!Event)] /\ \A u \in Tabs : wire'[u] = wire[u] \/ wire'[u] = <<>>
  BY <1>1, <1>2, NothingOn DEF LiveTyped
<1>5. ScreenKept /\ UNCHANGED merged
  BY <1>1, <1>2, ScreenLeft DEF I!screen
<1>6. \A u \in Tabs : /\ \A e : On(wire'[u], e) => On(wire[u], e)
                      /\ \A m \in merged'[u] : version[m] > 0
  BY <1>1, <1>4, <1>5, NothingOn DEF EventsInv
<1>7. QED
  BY <1>2, <1>3, <1>4, <1>5, <1>6, KnownTab

\* The two ways to take an event from the channel.
LEMMA ClaimHandles ==
  ASSUME NEW i, I!Claim(i) \/ I!ClaimFails(i)
  PROVE  Handled(i) /\ UNCHANGED <<I!screen, I!request, overlapped>>
<1>1. CASE I!Claim(i)
  BY <1>1 DEF Handled, I!Claim, I!screen, I!request
<1>2. CASE I!ClaimFails(i)
  BY <1>2 DEF Handled, I!ClaimFails, I!screen, I!request
<1>3. QED
  BY <1>1, <1>2

\* What a step of the inbox may be.
LEMMA LiveSteps ==
  ASSUME I!Next
  PROVE  \/ \E m \in Messages : I!Store(m)
         \/ \E m \in Messages : I!Publish(m) \/ I!PublishFails(m)
         \/ \E i \in Instances : I!Claim(i) \/ I!ClaimFails(i)
         \/ \E i \in Instances : I!Dies(i)
         \/ \E t \in Tabs : I!Disconnect(t)
         \/ \E t \in Tabs : I!Receive(t)
         \/ \E t \in Tabs : Quiet(t)
  BY DEF I!Next, Quiet

LEMMA KnownStep == LiveKnown /\ [DeskNext]_deskVars => LiveKnown'
<1> SUFFICES ASSUME LiveKnown, [DeskNext]_deskVars
             PROVE  LiveKnown'
  OBVIOUS
<1>1. CASE I!Next
  <2>1. ASSUME NEW i \in Instances, I!Claim(i) \/ I!ClaimFails(i)
        PROVE  LiveKnown'
    BY <2>1, ClaimHandles, KnownHandled
  <2>2. ASSUME NEW t \in Tabs, Quiet(t)
        PROVE  LiveKnown'
    <3>1. LiveTyped /\ EventsInv
      BY DEF LiveKnown
    <3>2. /\ UNCHANGED <<I!server, wire>> /\ ScreenKept /\ DOMAIN missed' = Tabs
          /\ \A u \in Tabs : merged'[u] \subseteq merged[u]
      BY <2>2, <3>1, QuietKeeps
    <3>3. \A u \in Tabs : /\ \A e : On(wire'[u], e) => On(wire[u], e)
                          /\ \A m \in merged'[u] : version[m] > 0
      BY <3>1, <3>2 DEF EventsInv
    <3>4. wire' \in [Tabs -> Seq(I!Event)]
      BY <3>1, <3>2 DEF LiveTyped
    <3>5. QED
      BY <3>2, <3>3, <3>4, KnownTab
  <2>3. QED
    BY <1>1, <2>1, <2>2, LiveSteps, KnownStore, KnownPublish, KnownDies, KnownReceive,
       KnownDisconnect
<1>2. CASE UNCHANGED liveState
  <2>1. LiveTyped /\ UNCHANGED <<I!server, I!screen, I!request, wire, merged, missed>>
    BY <1>2 DEF LiveKnown, liveState, I!server, I!api, I!screen, I!request
  <2>2. ScreenKept /\ DOMAIN missed' = Tabs /\ wire' \in [Tabs -> Seq(I!Event)]
    BY <2>1, ScreenLeft DEF LiveTyped
  <2>3. QED
    BY <2>1, <2>2, KnownTab DEF LiveKnown, EventsInv
<1>3. QED
  BY <1>1, <1>2, OneScene

LEMMA KnownStart == DeskInit => LiveKnown
<1> SUFFICES ASSUME DeskInit
             PROVE  LiveKnown
  OBVIOUS
<1>1. I!Init
  BY DEF DeskInit
<1>2. I!Stored = {}
  BY <1>1 DEF I!Init, I!Stored
<1>3. IsFiniteSet(I!Stored) /\ I!Latest = 0
  BY <1>2, FS_EmptySet, SameSize DEF I!Latest
<1>4. LiveTyped
  BY <1>1, <1>3, NothingOn DEF I!Init, LiveTyped
<1>5. EventsInv
  BY <1>1, NothingOn DEF I!Init, EventsInv, InBus
<1>6. QED
  BY <1>4, <1>5 DEF LiveKnown

-----------------------------------------------------------------------------
(* The inbox in the browser: what rings. An event that is emitted was claimed *)
(* before, so it is on its way once and has rung nowhere, unless Redis failed. *)

RingOf(t, m) ==
  /\ rung[t][m] <= visits[t] + (IF m \in notified[t] THEN 1 ELSE 0)
  /\ m \notin doubted =>
       /\ rung[t][m] <= 1 /\ Once(wire[t], New(m))
       /\ rung[t][m] = 1 \/ On(wire[t], New(m)) => New(m) \in claimed
       /\ On(wire[t], New(m)) => rung[t][m] = 0

RingInv == \A t \in Tabs, m \in Messages : RingOf(t, m)

LEMMA RingKept ==
  ASSUME RingInv, UNCHANGED <<rung, visits, notified, wire>>,
         claimed \subseteq claimed', doubted \subseteq doubted'
  PROVE  RingInv'
  BY DEF RingInv, RingOf

LEMMA RingClaims ==
  ASSUME LiveTyped, RingInv, NEW i \in Instances, I!Claim(i)
  PROVE  RingInv'
<1>1. PICK e : e = Head(bus[i])
  OBVIOUS
<1>2. /\ bus[i] # <<>> /\ I!Shift(i) /\ claimed' = claimed \union {e}
      /\ UNCHANGED <<rung, visits, notified, doubted>>
  BY <1>1 DEF I!Claim, I!screen
<1>3. e \in I!Event
  BY <1>1, <1>2, Shifted
<1>4. CASE UNCHANGED wire
  BY <1>2, <1>4, RingKept
<1>5. CASE e \notin claimed /\ I!Emit(e)
  <2>1. ASSUME NEW t \in Tabs, NEW m \in Messages
        PROVE  RingOf(t, m)'
    <3>1. RingOf(t, m) /\ wire[t] \in Seq(I!Event)
      BY DEF RingInv, LiveTyped
    <3>2. wire'[t] = Append(wire[t], e) \/ wire'[t] = wire[t]
      BY <1>3, <1>5, Emitted
    <3>3. /\ \A d : On(Append(wire[t], e), d) <=> On(wire[t], d) \/ d = e
          /\ \A d : Once(wire[t], d) /\ (d # e \/ ~On(wire[t], d)) => Once(Append(wire[t], e), d)
      BY <1>3, <3>1, AppendTo
    <3>4. rung[t][m] \in Nat
      BY DEF LiveTyped
    <3>5. m \notin doubted /\ New(m) = e => rung[t][m] = 0 /\ ~On(wire[t], New(m))
      BY <1>5, <3>1, <3>4 DEF RingOf
    <3>6. m \notin doubted => Once(wire'[t], New(m))
      BY <3>1, <3>2, <3>3, <3>5 DEF RingOf
    <3>7. On(wire'[t], New(m)) => On(wire[t], New(m)) \/ New(m) = e
      BY <3>2, <3>3
    <3>8. rung' = rung /\ visits' = visits /\ notified' = notified /\ doubted' = doubted
      BY <1>2
    <3>9. QED
      BY <1>2, <3>1, <3>5, <3>6, <3>7, <3>8 DEF RingOf
  <2>2. QED
    BY <2>1 DEF RingInv
<1>6. QED
  BY <1>1, <1>4, <1>5 DEF I!Claim

\* A message whose claim failed may ring again.
LEMMA RingDoubts ==
  ASSUME LiveTyped, RingInv, NEW i \in Instances, I!ClaimFails(i)
  PROVE  RingInv'
<1>1. PICK e : e = Head(bus[i])
  OBVIOUS
<1>2. /\ bus[i] # <<>> /\ I!Shift(i) /\ I!Emit(e)
      /\ doubted' = doubted \union {e.message}
      /\ UNCHANGED <<rung, visits, notified, claimed>>
  BY <1>1 DEF I!ClaimFails, I!screen
<1>3. e \in I!Event
  BY <1>1, <1>2, Shifted
<1>4. ASSUME NEW t \in Tabs, NEW m \in Messages
      PROVE  RingOf(t, m)'
  <2>1. RingOf(t, m) /\ wire[t] \in Seq(I!Event)
    BY DEF RingInv, LiveTyped
  <2>2. wire'[t] = Append(wire[t], e) \/ wire'[t] = wire[t]
    BY <1>2, <1>3, Emitted
  <2>3. /\ \A d : On(Append(wire[t], e), d) <=> On(wire[t], d) \/ d = e
        /\ \A d : Once(wire[t], d) /\ (d # e \/ ~On(wire[t], d)) => Once(Append(wire[t], e), d)
    BY <1>3, <2>1, AppendTo
  <2>4. New(m) = e => m = e.message
    BY DEF New
  <2>5. m \notin doubted' =>
          /\ m \notin doubted /\ New(m) # e
          /\ Once(wire'[t], New(m)) /\ (On(wire'[t], New(m)) => On(wire[t], New(m)))
    BY <1>2, <2>1, <2>2, <2>3, <2>4 DEF RingOf
  <2>6. QED
    BY <1>2, <2>1, <2>5 DEF RingOf
<1>5. QED
  BY <1>4 DEF RingInv

\* A browser rings for a message that it has not notified on this page.
LEMMA RingReceives ==
  ASSUME LiveTyped, RingInv, NEW t \in Tabs, I!Receive(t)
  PROVE  RingInv'
<1>1. PICK e \in I!Event :
        /\ e = Head(wire[t]) /\ On(wire[t], e) /\ wire[t] # <<>> /\ e.message \in Messages
        /\ wire' = [wire EXCEPT ![t] = Tail(wire[t])]
        /\ \/ I!ReceiveNew(t) /\ e = New(e.message)
           \/ I!ReceiveUpdate(t) /\ e.kind = "updated"
  BY EventArrives
<1>2. /\ UNCHANGED <<I!server, doubted, visits>>
      /\ \/ rung' = rung /\ notified' = notified /\ e.kind = "updated"
         \/ /\ e = New(e.message) /\ notified' = [notified EXCEPT ![t] = @ \union {e.message}]
            /\ e.message \in notified[t] => rung' = rung
            /\ e.message \notin notified[t] => rung' = [rung EXCEPT ![t][e.message] = @ + 1]
  BY <1>1 DEF I!ReceiveNew, I!ReceiveUpdate
<1>3. /\ wire \in [Tabs -> Seq(I!Event)] /\ notified \in [Tabs -> SUBSET Messages]
      /\ rung \in [Tabs -> [Messages -> Nat]] /\ visits \in [Tabs -> Nat]
  BY DEF LiveTyped
<1>4. claimed' = claimed
  BY <1>2 DEF I!server, I!api
<1>5. /\ \A u \in Tabs \ {t} : wire'[u] = wire[u] /\ notified'[u] = notified[u] /\ rung'[u] = rung[u]
      /\ wire'[t] = Tail(wire[t])
  BY <1>1, <1>2, <1>3
<1>6. /\ \A d : On(Tail(wire[t]), d) => On(wire[t], d)
      /\ \A d : Once(wire[t], d) => Once(Tail(wire[t]), d)
      /\ Once(wire[t], e) => ~On(Tail(wire[t]), e)
  BY <1>1, <1>3, TailOf
<1>7. ASSUME NEW m \in Messages
      PROVE  RingOf(t, m)'
  <2>1. RingOf(t, m) /\ rung[t][m] \in Nat /\ visits[t] \in Nat
    BY <1>3 DEF RingInv
  <2>2. CASE rung'[t][m] = rung[t][m] /\ (m \in notified[t] => m \in notified'[t])
    BY <1>2, <1>4, <1>5, <1>6, <2>1, <2>2 DEF RingOf
  <2>3. CASE /\ e = New(m) /\ m \in notified'[t] /\ m \notin notified[t]
             /\ rung'[t][m] = rung[t][m] + 1
    <3>1. m \notin doubted => rung[t][m] = 0 /\ New(m) \in claimed
      BY <1>1, <2>1, <2>3 DEF RingOf
    <3>2. m \notin doubted => Once(wire'[t], New(m)) /\ ~On(wire'[t], New(m))
      BY <1>5, <1>6, <2>1, <2>3 DEF RingOf
    <3>3. rung'[t][m] <= visits[t] + 1
      BY <2>1, <2>3 DEF RingOf
    <3>4. visits' = visits /\ doubted' = doubted
      BY <1>2
    <3>5. QED
      BY <1>4, <2>3, <3>1, <3>2, <3>3, <3>4 DEF RingOf
  <2>4. QED
    <3>1. CASE e.kind = "updated" /\ rung' = rung /\ notified' = notified
      BY <2>2, <3>1
    <3>2. CASE /\ e = New(e.message) /\ notified' = [notified EXCEPT ![t] = @ \union {e.message}]
               /\ e.message \in notified[t] => rung' = rung
               /\ e.message \notin notified[t] => rung' = [rung EXCEPT ![t][e.message] = @ + 1]
      <4>1. notified'[t] = notified[t] \union {e.message}
        BY <1>3, <3>2
      <4>2. CASE e.message \in notified[t]
        BY <2>2, <3>2, <4>1, <4>2
      <4>3. CASE e.message \notin notified[t]
        <5>1. rung'[t][m] = IF m = e.message THEN rung[t][m] + 1 ELSE rung[t][m]
          BY <1>1, <1>3, <3>2, <4>3
        <5>2. QED
          BY <2>2, <2>3, <3>2, <4>1, <4>3, <5>1
      <4>4. QED
        BY <4>2, <4>3
    <3>3. QED
      BY <1>2, <3>1, <3>2
<1>8. ASSUME NEW u \in Tabs \ {t}, NEW m \in Messages
      PROVE  RingOf(u, m)'
  BY <1>2, <1>4, <1>5 DEF RingInv, RingOf
<1>9. QED
  BY <1>7, <1>8 DEF RingInv

LEMMA RingStep ==
  LiveKnown /\ RingInv /\ [DeskNext]_deskVars => RingInv'
<1> SUFFICES ASSUME LiveTyped, RingInv, [DeskNext]_deskVars
             PROVE  RingInv'
  BY DEF LiveKnown
<1>1. CASE I!Next
  <2>1. ASSUME NEW m \in Messages, I!Store(m) \/ I!Publish(m) \/ I!PublishFails(m)
        PROVE  RingInv'
    BY <2>1, RingKept DEF I!Store, I!Publish, I!PublishFails, I!screen, I!socket, I!history
  <2>2. ASSUME NEW i \in Instances, I!Dies(i)
        PROVE  RingInv'
    BY <2>2, RingKept DEF I!Dies, I!screen, I!socket
  <2>3. ASSUME NEW t \in Tabs, I!Disconnect(t)
        PROVE  RingInv'
    <3>1. /\ wire' = [wire EXCEPT ![t] = <<>>]
          /\ UNCHANGED <<rung, visits, notified, claimed, doubted>>
      BY <2>3 DEF I!Disconnect, I!screen, I!server, I!api
    <3>2. \A u \in Tabs : wire'[u] = wire[u] \/ wire'[u] = <<>>
      BY <3>1 DEF LiveTyped
    <3>3. QED
      BY <3>1, <3>2, NothingOn DEF RingInv, RingOf
  <2>4. ASSUME NEW t \in Tabs, Quiet(t)
        PROVE  RingInv'
    <3>1. UNCHANGED <<rung, wire, claimed, doubted>>
      BY <2>4, QuietKeeps DEF I!server, I!api
    <3>2. CASE I!Navigate(t)
      <4>1. /\ notified' = [notified EXCEPT ![t] = {}]
            /\ visits' = [visits EXCEPT ![t] = @ + 1]
        BY <3>2 DEF I!Navigate
      <4>2. ASSUME NEW u \in Tabs, NEW m \in Messages
            PROVE  RingOf(u, m)'
        <5>1. rung[u][m] \in Nat /\ visits[u] \in Nat /\ RingOf(u, m)
          BY DEF LiveTyped, RingInv
        <5>2. IF u = t THEN visits'[u] = visits[u] + 1 /\ notified'[u] = {}
              ELSE visits'[u] = visits[u] /\ notified'[u] = notified[u]
          BY <4>1 DEF LiveTyped
        <5>3. QED
          BY <3>1, <5>1, <5>2 DEF RingOf
      <4>3. QED
        BY <4>2 DEF RingInv
    <3>3. CASE ~I!Navigate(t)
      <4>1. UNCHANGED <<visits, notified>>
        BY <2>4, <3>3 DEF Quiet, I!Connect, I!Ask, I!Answer, I!FetchFails, I!Load, I!screen
      <4>2. QED
        BY <3>1, <4>1, RingKept
    <3>4. QED
      BY <3>2, <3>3
  <2>5. QED
    BY <1>1, <2>1, <2>2, <2>3, <2>4, LiveSteps, RingClaims, RingDoubts, RingReceives
<1>2. CASE UNCHANGED liveState
  BY <1>2, RingKept DEF liveState
<1>3. QED
  BY <1>1, <1>2, OneScene

LEMMA RingStart == DeskInit => RingInv
<1> SUFFICES ASSUME DeskInit, NEW t \in Tabs, NEW m \in Messages
             PROVE  RingOf(t, m)
  BY DEF RingInv
<1>1. wire[t] = <<>> /\ rung[t][m] = 0 /\ visits[t] = 0
  BY DEF DeskInit, I!Init
<1>2. QED
  BY <1>1, NothingOn DEF RingOf

\* A browser rings once for a message, but if Redis failed to answer: of the
\* instances that receive an event, createRealtimeEventHandler lets one emit it.
THEOREM MessagesRingOnce == DeskSpec => []RingsOnce
<1>1. LiveKnown /\ RingInv => RingsOnce
  <2> SUFFICES ASSUME LiveTyped, RingInv, NEW t \in Tabs, NEW m \in Messages
               PROVE  rung[t][m] <= 1 + (IF m \in doubted THEN visits[t] ELSE 0)
    BY DEF LiveKnown, RingsOnce, I!RingsOnce
  <2>1. rung[t][m] \in Nat /\ visits[t] \in Nat /\ RingOf(t, m)
    BY DEF LiveTyped, RingInv
  <2>2. QED
    BY <2>1 DEF RingOf
<1>2. QED
  BY <1>1, KnownStart, KnownStep, RingStart, RingStep, PTL DEF DeskSpec

-----------------------------------------------------------------------------
(* The inbox in the browser: what is shown. A message of the page is shown,   *)
(* or is on its way and was not merged yet, or is known as missed; and so it  *)
(* is with the answer to a request, which replaces what is shown.             *)

Coming(t, m) ==
  m \in due \/ (New(m) \notin claimed /\ InBus(New(m))) \/ On(wire[t], New(m))

ShownOf(t, m) ==
  /\ t \in loaded => m \in cache[t] \/ (Coming(t, m) /\ m \notin merged[t])
  /\ fetch[t] = "answered" => m \in snapshot[t].items \/ (Coming(t, m) /\ m \notin merged[t])

ShownInv == \A t \in Tabs : \A m \in I!Page \ missed[t] : ShownOf(t, m)

ShownKnown == LiveKnown /\ ShownInv

LEMMA PageIs == I!Page \subseteq Messages /\ \A m \in I!Page : version[m] > 0
  BY DEF I!Page, I!Stored

\* As long as messages come, or are known as missed.
LEMMA StillComing ==
  ASSUME ShownKnown, UNCHANGED <<version, loaded, cache, fetch, snapshot, merged>>,
         \A t \in Tabs : missed[t] \subseteq missed'[t],
         \A t \in Tabs, m \in Messages : Coming(t, m) => Coming(t, m)' \/ m \in missed'[t]
  PROVE  ShownInv'
<1>1. I!Page' = I!Page
  BY DEF I!Page, I!Stored
<1>2. ASSUME NEW t \in Tabs, NEW m \in I!Page, m \notin missed'[t]
      PROVE  ShownOf(t, m)'
  <2>1. ShownOf(t, m)
    BY <1>2 DEF ShownKnown, ShownInv
  <2>2. Coming(t, m) => Coming(t, m)'
    BY <1>2, PageIs
  <2>3. QED
    BY <2>1, <2>2 DEF ShownOf
<1>3. QED
  BY <1>1, <1>2 DEF ShownInv

LEMMA ShownStore ==
  ASSUME ShownKnown, NEW m \in Messages, I!Store(m)
  PROVE  ShownInv'
<1>1. LiveTyped /\ EventsInv
  BY DEF ShownKnown, LiveKnown
<1>2. /\ version[m] = 0 /\ version \in [Messages -> Nat] /\ version' \in [Messages -> Nat]
      /\ \A n \in Messages : n # m => version'[n] = version[n]
  BY <1>1, StoredLatest DEF LiveTyped
<1>3. /\ due' = due \union {m}
      /\ UNCHANGED <<bus, claimed, wire, loaded, cache, fetch, snapshot, merged, missed>>
  BY DEF I!Store, I!socket, I!screen, I!request
<1>4. \A n \in I!Page' : n \in Messages /\ (n # m => n \in I!Page)
  BY <1>2 DEF I!Page, I!Stored
<1>5. ASSUME NEW t \in Tabs, NEW n \in I!Page' \ missed'[t]
      PROVE  ShownOf(t, n)'
  <2>1. CASE n = m
    <3>1. Coming(t, m)'
      BY <1>3 DEF Coming
    <3>2. m \notin merged[t]
      BY <1>1, <1>2 DEF EventsInv
    <3>3. QED
      BY <1>3, <2>1, <3>1, <3>2 DEF ShownOf
  <2>2. CASE n # m
    <3>1. ShownOf(t, n)
      BY <1>3, <1>4, <1>5, <2>2 DEF ShownKnown, ShownInv
    <3>2. Coming(t, n) => Coming(t, n)'
      BY <1>3 DEF Coming, InBus
    <3>3. QED
      BY <1>3, <3>1, <3>2 DEF ShownOf
  <2>3. QED
    BY <2>1, <2>2
<1>6. QED
  BY <1>5 DEF ShownInv

LEMMA ShownPublish ==
  ASSUME ShownKnown, NEW m \in Messages, I!Publish(m) \/ I!PublishFails(m)
  PROVE  ShownInv'
<1>1. LiveTyped /\ EventsInv
  BY DEF ShownKnown, LiveKnown
<1>2. /\ m \in due /\ due' = due \ {m}
      /\ UNCHANGED <<version, claimed, wire, loaded, cache, fetch, snapshot, merged>>
  BY DEF I!Publish, I!PublishFails, I!socket, I!screen, I!request
<1>3. New(m) \notin claimed
  <2>1. New(m).message = m
    BY DEF New
  <2>2. QED
    BY <1>1, <1>2, <2>1 DEF EventsInv
<1>4. PICK kinds \in Seq({"new_message", "updated"}) :
        /\ bus' = I!Receivers(m, kinds)
        /\ I!Publish(m) => kinds = I!Kinds
  BY KindsAre DEF I!Publish, I!PublishFails
<1>5. \A e : InBus(e) => InBus(e)'
  BY <1>1, <1>4, Published
<1>6. /\ \A t \in Tabs : missed[t] \subseteq missed'[t]
      /\ InBus(New(m))' \/ \A t \in Tabs : m \in missed'[t]
  <2>1. CASE I!Publish(m)
    <3>1. InBus(New(m))'
      BY <1>1, <1>4, <2>1, Published, KindsAre DEF New
    <3>2. QED
      BY <2>1, <3>1 DEF I!Publish, I!history
  <2>2. CASE I!PublishFails(m)
    <3>1. I!Lose(Tabs, {m})
      BY <2>2 DEF I!PublishFails
    <3>2. QED
      BY <3>1, Lost
  <2>3. QED
    BY <2>1, <2>2
<1>7. \A t \in Tabs, n \in Messages : Coming(t, n) => Coming(t, n)' \/ n \in missed'[t]
  BY <1>2, <1>3, <1>5, <1>6 DEF Coming
<1>8. QED
  BY <1>2, <1>6, <1>7, StillComing

LEMMA ShownClaim ==
  ASSUME ShownKnown, NEW i \in Instances, I!Claim(i) \/ I!ClaimFails(i)
  PROVE  ShownInv'
<1>1. LiveTyped /\ EventsInv
  BY DEF ShownKnown, LiveKnown
<1>2. PICK e : e = Head(bus[i])
  OBVIOUS
<1>3. /\ bus[i] # <<>> /\ I!Shift(i) /\ UNCHANGED <<version, due, I!screen, I!request>>
      /\ \A d \in claimed' : d \in claimed \/ d = e
      /\ I!Emit(e) \/ (UNCHANGED <<wire, missed, lossy>> /\ e \in claimed)
  BY <1>2 DEF I!Claim, I!ClaimFails
<1>4. /\ e \in I!Event
      /\ \A d : InBus(d) => d = e \/ InBus(d)'
  BY <1>1, <1>2, <1>3, Shifted
<1>5. ASSUME NEW t \in Tabs
      PROVE  /\ missed[t] \subseteq missed'[t]
             /\ \A d : On(wire[t], d) => On(wire'[t], d)
             /\ e \in claimed \/ On(wire'[t], e) \/ e.message \in missed'[t]
  <2>1. CASE UNCHANGED <<wire, missed, lossy>> /\ e \in claimed
    BY <2>1
  <2>2. CASE I!Emit(e)
    <3>1. /\ missed[t] \subseteq missed'[t]
          /\ \/ wire'[t] = Append(wire[t], e)
             \/ wire'[t] = wire[t] /\ e.message \in missed'[t]
      BY <1>1, <1>4, <2>2, Emitted
    <3>2. wire[t] \in Seq(I!Event)
      BY <1>1 DEF LiveTyped
    <3>3. \A d : On(Append(wire[t], e), d) <=> On(wire[t], d) \/ d = e
      BY <1>4, <3>2, AppendTo
    <3>4. QED
      BY <3>1, <3>3
  <2>3. QED
    BY <1>3, <2>1, <2>2
<1>6. ASSUME NEW t \in Tabs, NEW m \in Messages, Coming(t, m)
      PROVE  Coming(t, m)' \/ m \in missed'[t]
  <2>1. CASE m \in due \/ On(wire[t], New(m))
    BY <1>3, <1>5, <2>1 DEF Coming
  <2>2. CASE New(m) \notin claimed /\ InBus(New(m)) /\ New(m) # e
    BY <1>3, <1>4, <2>2 DEF Coming
  <2>3. CASE New(m) \notin claimed /\ New(m) = e
    <3>1. e.message = m
      BY <2>3 DEF New
    <3>2. QED
      BY <1>5, <2>3, <3>1 DEF Coming
  <2>4. QED
    BY <1>6, <2>1, <2>2, <2>3 DEF Coming
<1>7. UNCHANGED <<version, loaded, cache, fetch, snapshot, merged>>
  BY <1>3 DEF I!screen, I!request
<1>8. QED
  BY <1>5, <1>6, <1>7, StillComing

LEMMA ShownDies ==
  ASSUME ShownKnown, NEW i \in Instances, I!Dies(i)
  PROVE  ShownInv'
<1>1. LiveTyped
  BY DEF ShownKnown, LiveKnown
<1>2. /\ \A t \in Tabs : missed[t] \subseteq missed'[t]
      /\ \A e : InBus(e) /\ e \notin claimed =>
           \/ InBus(e)' /\ e \notin claimed'
           \/ \A t \in Tabs : e.message \in missed'[t] /\ t \in lossy'
  BY <1>1, Died
<1>3. UNCHANGED <<version, due, wire, loaded, cache, fetch, snapshot, merged>>
  BY DEF I!Dies, I!socket, I!screen, I!request
<1>4. \A m : New(m).message = m
  BY DEF New
<1>5. \A t \in Tabs, m \in Messages : Coming(t, m) => Coming(t, m)' \/ m \in missed'[t]
  BY <1>2, <1>3, <1>4 DEF Coming
<1>6. QED
  BY <1>2, <1>3, <1>5, StillComing

LEMMA ShownDisconnect ==
  ASSUME ShownKnown, NEW t \in Tabs, I!Disconnect(t)
  PROVE  ShownInv'
<1>1. LiveTyped
  BY DEF ShownKnown, LiveKnown
<1>2. PICK messages : messages = {wire[t][k].message : k \in DOMAIN wire[t]}
  OBVIOUS
<1>3. /\ wire' = [wire EXCEPT ![t] = <<>>] /\ I!Lose({t}, messages)
      /\ UNCHANGED <<version, due, bus, claimed, loaded, cache, fetch, snapshot, merged>>
  BY <1>2 DEF I!Disconnect, I!server, I!api, I!screen, I!request
<1>4. /\ \A u \in Tabs : missed[u] \subseteq missed'[u]
      /\ \A m \in messages : m \in missed'[t]
  BY <1>3, Lost
<1>5. \A m \in Messages : On(wire[t], New(m)) => m \in messages
  <2>1. wire[t] \in Seq(I!Event) /\ DOMAIN wire[t] = 1..Len(wire[t])
    BY <1>1, LenProperties DEF LiveTyped
  <2>2. \A m : New(m).message = m
    BY DEF New
  <2>3. QED
    BY <1>2, <2>1, <2>2 DEF On, I!Contains
<1>6. \A u \in Tabs \ {t} : wire'[u] = wire[u]
  BY <1>1, <1>3 DEF LiveTyped
<1>7. \A u \in Tabs, m \in Messages : Coming(u, m) => Coming(u, m)' \/ m \in missed'[u]
  BY <1>3, <1>4, <1>5, <1>6 DEF Coming, InBus
<1>8. QED
  BY <1>3, <1>4, <1>7, StillComing

LEMMA ShownReceive ==
  ASSUME ShownKnown, NEW t \in Tabs, I!Receive(t)
  PROVE  ShownInv'
<1>1. LiveTyped
  BY DEF ShownKnown, LiveKnown
<1>2. PICK e \in I!Event :
        /\ e = Head(wire[t]) /\ On(wire[t], e) /\ wire[t] # <<>> /\ e.message \in Messages
        /\ wire' = [wire EXCEPT ![t] = Tail(wire[t])]
        /\ \/ I!ReceiveNew(t) /\ e = New(e.message)
           \/ I!ReceiveUpdate(t) /\ e.kind = "updated"
  BY <1>1, EventArrives
<1>3. /\ UNCHANGED <<version, due, bus, claimed, loaded, fetch, snapshot>>
      /\ I!Overtake(t, e.message)
      /\ \/ e.kind = "updated" /\ UNCHANGED <<merged, cache>>
         \/ I!Merge(t, e.message) /\ e = New(e.message)
  BY <1>2 DEF I!ReceiveNew, I!ReceiveUpdate, I!server, I!api, I!request
<1>4. /\ \A u \in Tabs : missed[u] \subseteq missed'[u]
      /\ fetch[t] = "answered" => e.message \in missed'[t]
  BY <1>1, <1>2, <1>3, Overtaken
<1>5. /\ wire \in [Tabs -> Seq(I!Event)] /\ merged \in [Tabs -> SUBSET Messages]
      /\ DOMAIN cache = Tabs
  BY <1>1 DEF LiveTyped
<1>6. I!Page' = I!Page
  BY <1>3 DEF I!Page, I!Stored
<1>7. \A d : On(wire[t], d) => d = e \/ On(wire'[t], d)
  BY <1>2, <1>5, TailOf
<1>8. ASSUME NEW m \in I!Page, m \notin missed'[t]
      PROVE  ShownOf(t, m)'
  <2>1. ShownOf(t, m) /\ m \in Messages
    BY <1>4, <1>8, PageIs DEF ShownKnown, ShownInv
  <2>2. CASE e = New(m) /\ I!Merge(t, m)
    <3>1. e.message = m
      BY <2>2 DEF New
    <3>2. fetch'[t] # "answered"
      BY <1>3, <1>4, <1>8, <3>1
    <3>3. t \in loaded => m \in cache'[t]
      BY <1>5, <2>1, <2>2 DEF ShownOf, I!Merge
    <3>4. QED
      BY <1>3, <3>2, <3>3 DEF ShownOf
  <2>3. CASE e # New(m)
    <3>1. Coming(t, m) => Coming(t, m)'
      BY <1>3, <1>7, <2>3 DEF Coming, InBus
    <3>2. m \in merged'[t] => m \in merged[t]
      <4>1. CASE UNCHANGED <<merged, cache>>
        BY <4>1
      <4>2. CASE I!Merge(t, e.message) /\ e = New(e.message)
        <5>1. m # e.message
          BY <2>3, <4>2
        <5>2. merged'[t] = merged[t] \union {e.message}
          BY <1>5, <4>2 DEF I!Merge
        <5>3. QED
          BY <5>1, <5>2
      <4>3. QED
        BY <1>3, <4>1, <4>2
    <3>3. m \in cache[t] => m \in cache'[t]
      BY <1>3, <1>5 DEF I!Merge
    <3>4. QED
      BY <1>3, <2>1, <3>1, <3>2, <3>3 DEF ShownOf
  <2>4. QED
    <3>1. e = New(m) => e.message = m /\ e.kind = "new_message"
      BY DEF New
    <3>2. QED
      BY <1>3, <2>2, <2>3, <3>1
<1>9. ASSUME NEW u \in Tabs \ {t}, NEW m \in I!Page, m \notin missed'[u]
      PROVE  ShownOf(u, m)'
  <2>1. ShownOf(u, m)
    BY <1>4, <1>9 DEF ShownKnown, ShownInv
  <2>2. wire'[u] = wire[u] /\ merged'[u] = merged[u] /\ cache'[u] = cache[u]
    BY <1>2, <1>3, <1>5 DEF I!Merge
  <2>3. QED
    BY <1>3, <2>1, <2>2 DEF ShownOf, Coming, InBus
<1>10. QED
  BY <1>6, <1>8, <1>9 DEF ShownInv

LEMMA ShownQuiet ==
  ASSUME ShownKnown, NEW t \in Tabs, Quiet(t)
  PROVE  ShownInv'
<1>1. LiveTyped
  BY DEF ShownKnown, LiveKnown
<1>2. UNCHANGED <<version, due, bus, claimed, wire>> /\ \A u \in Tabs : merged'[u] \subseteq merged[u]
  BY <1>1, QuietKeeps DEF I!server, I!api
<1>3. I!Page' = I!Page
  BY <1>2 DEF I!Page, I!Stored
<1>4. \A u, m : Coming(u, m)' <=> Coming(u, m)
  BY <1>2 DEF Coming, InBus
<1>5. CASE I!Connect(t) \/ I!Navigate(t) \/ I!Ask(t) \/ I!FetchFails(t)
  <2>1. /\ UNCHANGED <<loaded, cache, missed>>
        /\ \A u \in Tabs :
             fetch'[u] = "answered" => fetch[u] = "answered" /\ snapshot'[u] = snapshot[u]
    BY <1>1, <1>5 DEF LiveTyped, I!Connect, I!Navigate, I!Ask, I!FetchFails, I!Settles,
                      I!screen, I!request, I!history
  <2>2. ASSUME NEW u \in Tabs, NEW m \in I!Page \ missed[u]
        PROVE  ShownOf(u, m)'
    <3>1. ShownOf(u, m)
      BY DEF ShownKnown, ShownInv
    <3>2. QED
      BY <1>2, <1>4, <2>1, <3>1 DEF ShownOf
  <2>3. QED
    BY <1>3, <2>1, <2>2 DEF ShownInv
<1>6. CASE I!Answer(t)
  <2>1. /\ UNCHANGED <<loaded, cache, missed>>
        /\ snapshot'[t].items = I!Page
        /\ \A u \in Tabs \ {t} : fetch'[u] = fetch[u] /\ snapshot'[u] = snapshot[u]
    BY <1>1, <1>6 DEF LiveTyped, I!Answer, I!screen, I!history
  <2>2. ASSUME NEW u \in Tabs, NEW m \in I!Page \ missed[u]
        PROVE  ShownOf(u, m)'
    <3>1. ShownOf(u, m)
      BY DEF ShownKnown, ShownInv
    <3>2. QED
      BY <1>2, <1>4, <2>1, <3>1 DEF ShownOf
  <2>3. QED
    BY <1>3, <2>1, <2>2 DEF ShownInv
<1>7. CASE I!Load(t)
  <2>1. /\ fetch[t] = "answered" /\ fetch'[t] = "none" /\ cache'[t] = snapshot[t].items
        /\ missed'[t] = missed[t] \ snapshot[t].items /\ loaded' = loaded \union {t}
        /\ \A u \in Tabs \ {t} : /\ fetch'[u] = fetch[u] /\ snapshot'[u] = snapshot[u]
                                 /\ cache'[u] = cache[u] /\ missed'[u] = missed[u]
    BY <1>1, <1>7 DEF LiveTyped, I!Load, I!Settles
  <2>2. ASSUME NEW u \in Tabs, NEW m \in I!Page, m \notin missed'[u]
        PROVE  ShownOf(u, m)'
    <3>1. CASE u = t
      <4>1. m \notin snapshot[t].items => m \notin missed[t]
        BY <2>1, <2>2, <3>1
      <4>2. m \notin snapshot[t].items => Coming(t, m) /\ m \notin merged[t]
        BY <2>1, <4>1 DEF ShownKnown, ShownInv, ShownOf
      <4>3. QED
        BY <1>2, <1>4, <2>1, <3>1, <4>2 DEF ShownOf
    <3>2. CASE u # t
      <4>1. ShownOf(u, m)
        BY <2>1, <2>2, <3>2 DEF ShownKnown, ShownInv
      <4>2. QED
        BY <1>2, <1>4, <2>1, <3>2, <4>1 DEF ShownOf
    <3>3. QED
      BY <3>1, <3>2
  <2>3. QED
    BY <1>3, <2>2 DEF ShownInv
<1>8. QED
  BY <1>5, <1>6, <1>7 DEF Quiet

LEMMA ShownStep ==
  LiveKnown /\ ShownInv /\ [DeskNext]_deskVars => ShownInv'
<1> SUFFICES ASSUME ShownKnown, [DeskNext]_deskVars
             PROVE  ShownInv'
  BY DEF ShownKnown
<1>1. CASE I!Next
  BY <1>1, LiveSteps, ShownStore, ShownPublish, ShownClaim, ShownDies, ShownDisconnect,
     ShownReceive, ShownQuiet
<1>2. CASE UNCHANGED liveState
  BY <1>2, StillComing DEF liveState, Coming, InBus
<1>3. QED
  BY <1>1, <1>2, OneScene

LEMMA ShownStart == DeskInit => ShownInv
  BY DEF DeskInit, I!Init, ShownInv, ShownOf, I!Page, I!Stored

-----------------------------------------------------------------------------
(* The inbox in the browser: the summary in its list. As long as the events   *)
(* of one message only are under way at a time, they reach a browser in the   *)
(* order of the messages, and the last one brings the summary up to date.     *)

Underway == due # {} \/ \E e \in I!Event : e \notin claimed /\ InBus(e)

\* Nobody but the latest message is under way.
Alone ==
  /\ \A m \in due : version[m] = I!Latest
  /\ \A e : InBus(e) => RankOf(e) = I!Latest

\* What is shown, and an answer on its way, is the conversation as it is now.
Current(t) ==
  /\ t \in loaded => roomListed[t] = I!Latest
  /\ fetch[t] = "answered" => snapshot[t].listed = I!Latest

ListOf(t) ==
  /\ InOrder(wire[t])
  /\ \A m \in merged[t], k \in 1..Len(wire[t]) : version[m] <= RankOf(wire[t][k])
  /\ wire[t] # <<>> => Underway \/ RankOf(wire[t][Len(wire[t])]) = I!Latest
  /\ \A m \in merged[t] : version[m] = I!Latest => Current(t)
  /\ ~Underway /\ wire[t] = <<>> => Current(t)

ListInv == ~overlapped => Alone /\ \A t \in Tabs \ lossy : ListOf(t)

ListKnown == LiveKnown /\ ListInv

LEMMA AloneLeft ==
  ASSUME Alone, UNCHANGED version, due' \subseteq due, \A e : InBus(e)' => InBus(e)
  PROVE  Alone'
  BY DEF Alone, RankOf, I!Latest, I!Stored

\* A browser that nothing of this reaches.
LEMMA ListLeft ==
  ASSUME NEW t, ListOf(t), UNCHANGED version, wire'[t] = wire[t], merged'[t] \subseteq merged[t],
         Underway' <=> Underway, Current(t) => Current(t)'
  PROVE  ListOf(t)'
<1>1. I!Latest' = I!Latest /\ \A e : RankOf(e)' = RankOf(e)
  BY DEF I!Latest, I!Stored, RankOf
<1>2. InOrder(wire[t])'
  BY <1>1 DEF ListOf, InOrder
<1>3. \A m \in merged'[t], k \in 1..Len(wire'[t]) : version'[m] <= RankOf(wire[t][k])'
  BY <1>1 DEF ListOf
<1>4. QED
  BY <1>1, <1>2, <1>3 DEF ListOf

LEMMA ListStore ==
  ASSUME ListKnown, NEW m \in Messages, I!Store(m)
  PROVE  ListInv'
<1>1. LiveTyped /\ EventsInv
  BY DEF ListKnown, LiveKnown
<1>2. /\ version' \in [Messages -> Nat] /\ version[m] = 0 /\ version'[m] = I!Latest'
      /\ \A n \in Messages : n # m => version'[n] = version[n]
      /\ I!Latest \in Nat /\ I!Latest' = I!Latest + 1
  BY <1>1, StoredLatest
<1>3. /\ due' = due \union {m} /\ overlapped' = (overlapped \/ \E n \in Messages : I!UnderWay(n))
      /\ UNCHANGED <<bus, claimed, wire, loaded, roomListed, fetch, snapshot, merged, lossy>>
  BY DEF I!Store, I!socket, I!screen, I!request
<1> SUFFICES ASSUME ~overlapped'
             PROVE  Alone' /\ \A t \in Tabs \ lossy : ListOf(t)'
  BY <1>3 DEF ListInv
<1>4. ~overlapped /\ \A n \in Messages : ~I!UnderWay(n)
  BY <1>3
<1>5. due = {} /\ \A e : ~InBus(e)
  <2>1. due = {}
    BY <1>1, <1>4 DEF LiveTyped, I!UnderWay
  <2>2. ASSUME NEW i \in Instances, NEW e, On(bus[i], e)
        PROVE  FALSE
    <3>1. bus[i] \in Seq(I!Event) /\ DOMAIN bus[i] = 1..Len(bus[i])
      BY <1>1, LenProperties DEF LiveTyped
    <3>2. PICK k \in 1..Len(bus[i]) : bus[i][k] = e
      BY <2>2 DEF On, I!Contains
    <3>3. e.message \in Messages
      <4>1. e \in I!Event
        BY <3>1, <3>2, ElementOfSeq
      <4>2. QED
        BY <4>1, KindsAre
    <3>4. I!UnderWay(e.message)
      BY <3>1, <3>2 DEF I!UnderWay
    <3>5. QED
      BY <1>4, <3>3, <3>4
  <2>3. QED
    BY <2>1, <2>2 DEF InBus
<1>6. Alone'
  BY <1>2, <1>3, <1>5 DEF Alone, InBus
<1>7. Underway'
  BY <1>3 DEF Underway
<1>8. \A n \in Messages : version[n] > 0 => version'[n] = version[n] /\ version[n] # I!Latest'
  BY <1>1, <1>2 DEF LiveTyped
<1>9. ASSUME NEW t \in Tabs \ lossy
      PROVE  ListOf(t)'
  <2>1. ListOf(t) /\ wire[t] \in Seq(I!Event)
    BY <1>1, <1>4 DEF ListKnown, ListInv, LiveTyped
  <2>2. \A k \in 1..Len(wire[t]) : RankOf(wire[t][k])' = RankOf(wire[t][k])
    <3>1. ASSUME NEW k \in 1..Len(wire[t])
          PROVE  RankOf(wire[t][k])' = RankOf(wire[t][k])
      <4>1. PICK e : e = wire[t][k]
        OBVIOUS
      <4>2. On(wire[t], e)
        BY <4>1 DEF On, I!Contains
      <4>3. e.message \in Messages /\ version[e.message] > 0
        BY <1>1, <4>2, OnWireIs DEF EventsInv, RankOf
      <4>4. version'[e.message] = version[e.message]
        BY <1>8, <4>3
      <4>5. wire'[t][k] = e
        BY <1>3, <4>1
      <4>6. QED
        BY <1>3, <4>1, <4>4, <4>5 DEF RankOf
    <3>2. QED
      BY <3>1
  <2>3. \A n \in merged[t] : version'[n] = version[n] /\ version[n] # I!Latest'
    <3>1. \A n \in merged[t] : n \in Messages /\ version[n] > 0
      BY <1>1 DEF LiveTyped, EventsInv
    <3>2. QED
      BY <1>8, <3>1
  <2>4. InOrder(wire[t])'
    BY <1>3, <2>1, <2>2 DEF ListOf, InOrder
  <2>5. \A n \in merged'[t], k \in 1..Len(wire'[t]) : version'[n] <= RankOf(wire[t][k])'
    BY <1>3, <2>1, <2>2, <2>3 DEF ListOf
  <2>6. \A n \in merged'[t] : version'[n] # I!Latest'
    BY <1>3, <2>3
  <2>7. QED
    BY <1>7, <2>4, <2>5, <2>6 DEF ListOf
<1>10. QED
  BY <1>6, <1>9

LEMMA ListPublish ==
  ASSUME ListKnown, NEW m \in Messages, I!Publish(m) \/ I!PublishFails(m)
  PROVE  ListInv'
<1>1. LiveTyped /\ EventsInv
  BY DEF ListKnown, LiveKnown
<1>2. /\ m \in due /\ due' = due \ {m}
      /\ UNCHANGED <<version, claimed, wire, loaded, roomListed, fetch, snapshot, merged, overlapped>>
  BY DEF I!Publish, I!PublishFails, I!socket, I!screen, I!request, I!history
<1> SUFFICES ASSUME ~overlapped
             PROVE  Alone' /\ \A t \in Tabs \ lossy' : ListOf(t)'
  BY <1>2 DEF ListInv
<1>3. PICK kinds \in Seq({"new_message", "updated"}) :
        /\ bus' = I!Receivers(m, kinds)
        /\ I!Publish(m) => kinds = I!Kinds
  BY KindsAre DEF I!Publish, I!PublishFails
<1>4. \A e : InBus(e)' => InBus(e) \/ (e \in I!Event /\ e.message = m)
  BY <1>1, <1>3, Published
<1>5. Alone /\ I!Latest' = I!Latest /\ \A e : RankOf(e)' = RankOf(e)
  BY <1>1, <1>2, RanksKept DEF ListKnown, ListInv
<1>6. Alone'
  BY <1>2, <1>4, <1>5 DEF Alone, RankOf
<1>7. ASSUME NEW t \in Tabs \ lossy'
      PROVE  ListOf(t)'
  <2>1. CASE I!PublishFails(m)
    <3>1. I!Lose(Tabs, {m})
      BY <2>1 DEF I!PublishFails
    <3>2. t \in lossy'
      BY <3>1, Lost
    <3>3. QED
      BY <3>2
  <2>2. CASE I!Publish(m)
    <3>1. t \notin lossy
      BY <2>2 DEF I!Publish, I!history
    <3>2. New(m) \in I!Event /\ New(m).message = m
      BY KindsAre DEF New
    <3>3. InBus(New(m))'
      BY <1>1, <1>3, <2>2, Published, KindsAre DEF New
    <3>4. New(m) \notin claimed'
      BY <1>1, <1>2, <3>2 DEF EventsInv
    <3>5. Underway /\ Underway'
      BY <1>2, <3>2, <3>3, <3>4 DEF Underway
    <3>6. Current(t) => Current(t)'
      BY <1>2, <1>5 DEF Current
    <3>7. ListOf(t)
      BY <3>1 DEF ListKnown, ListInv
    <3>8. QED
      BY <1>2, <3>5, <3>6, <3>7, ListLeft
  <2>3. QED
    BY <2>1, <2>2
<1>8. QED
  BY <1>6, <1>7

LEMMA ListClaim ==
  ASSUME ListKnown, NEW i \in Instances, I!Claim(i) \/ I!ClaimFails(i)
  PROVE  ListInv'
<1>1. LiveTyped /\ EventsInv
  BY DEF ListKnown, LiveKnown
<1>2. PICK e : e = Head(bus[i])
  OBVIOUS
<1>3. /\ bus[i] # <<>> /\ I!Shift(i)
      /\ UNCHANGED <<version, due, I!screen, I!request, overlapped>>
      /\ claimed' = claimed \union {e} \/ claimed' = claimed
      /\ I!Emit(e) \/ (UNCHANGED <<wire, missed, lossy>> /\ e \in claimed)
  BY <1>2 DEF I!Claim, I!ClaimFails
<1> SUFFICES ASSUME ~overlapped
             PROVE  Alone' /\ \A t \in Tabs \ lossy' : ListOf(t)'
  BY <1>3 DEF ListInv
<1>4. /\ e \in I!Event /\ InBus(e) /\ \A d : InBus(d)' => InBus(d)
      /\ \A d : InBus(d) => d = e \/ InBus(d)'
  BY <1>1, <1>2, <1>3, Shifted
<1>5. UNCHANGED <<version, due, loaded, roomListed, fetch, snapshot, merged>>
  BY <1>3 DEF I!screen, I!request
<1>6. Alone
  BY DEF ListKnown, ListInv
<1>7. Alone'
  BY <1>4, <1>5, <1>6, AloneLeft
<1>8. I!Latest' = I!Latest /\ \A d : RankOf(d)' = RankOf(d)
  BY <1>1, <1>5, RanksKept
<1>9. ASSUME NEW t \in Tabs, Current(t)
      PROVE  Current(t)'
  BY <1>5, <1>8, <1>9 DEF Current
<1>10. ASSUME NEW t \in Tabs \ lossy'
       PROVE  ListOf(t)'
  <2>1. CASE UNCHANGED <<wire, missed, lossy>> /\ e \in claimed
    <3>1. Underway' <=> Underway
      BY <1>3, <1>4, <1>5, <2>1 DEF Underway
    <3>2. ListOf(t)
      BY <2>1 DEF ListKnown, ListInv
    <3>3. QED
      BY <1>5, <1>9, <2>1, <3>1, <3>2, ListLeft
  <2>2. CASE I!Emit(e)
    <3>1. t \notin lossy /\ wire'[t] = Append(wire[t], e)
      BY <1>1, <1>4, <2>2, Emitted
    <3>2. ListOf(t) /\ wire[t] \in Seq(I!Event)
      BY <1>1, <3>1 DEF ListKnown, ListInv, LiveTyped
    <3>3. /\ wire'[t] # <<>> /\ Len(wire[t]) \in Nat /\ Len(wire'[t]) = Len(wire[t]) + 1
          /\ \A k \in 1..Len(wire[t]) : wire'[t][k] = wire[t][k]
          /\ wire'[t][Len(wire'[t])] = e
      BY <1>4, <3>1, <3>2, AppendTo
    <3>4. RankOf(e) = I!Latest
      BY <1>4, <1>6 DEF Alone
    <3>5. \A k \in 1..Len(wire'[t]) : k = Len(wire'[t]) \/ k \in 1..Len(wire[t])
      BY <3>3
    <3>6. \A k \in 1..Len(wire[t]) : RankOf(wire[t][k]) <= I!Latest
      <4>1. ASSUME NEW k \in 1..Len(wire[t])
            PROVE  RankOf(wire[t][k]) <= I!Latest
        <5>1. wire[t][k].message \in Messages
          <6>1. wire[t][k] \in I!Event
            BY <3>2, ElementOfSeq
          <6>2. QED
            BY <6>1, KindsAre
        <5>2. QED
          BY <1>1, <5>1 DEF LiveTyped, RankOf
      <4>2. QED
        BY <4>1
    <3>7. \A n \in merged[t] : version[n] <= I!Latest
      BY <1>1 DEF LiveTyped
    <3>8. InOrder(wire'[t])
      <4>1. ASSUME NEW j \in 1..Len(wire'[t]), NEW k \in 1..Len(wire'[t]), j < k
            PROVE  RankOf(wire'[t][j]) <= RankOf(wire'[t][k])
        <5>1. j \in 1..Len(wire[t])
          BY <3>3, <4>1
        <5>2. CASE k = Len(wire'[t])
          BY <3>3, <3>4, <3>6, <5>1, <5>2
        <5>3. CASE k \in 1..Len(wire[t])
          BY <3>2, <3>3, <4>1, <5>1, <5>3 DEF ListOf, InOrder
        <5>4. QED
          BY <3>5, <5>2, <5>3
      <4>2. QED
        BY <4>1 DEF InOrder
    <3>9. InOrder(wire[t])'
      BY <1>8, <3>8 DEF InOrder
    <3>10. ASSUME NEW n \in merged[t], NEW k \in 1..Len(wire'[t])
           PROVE  version[n] <= RankOf(wire'[t][k])
      BY <3>2, <3>3, <3>4, <3>5, <3>7 DEF ListOf
    <3>11. \A n \in merged[t] : version[n] = I!Latest => Current(t)'
      BY <1>9, <3>2 DEF ListOf
    <3>12. RankOf(wire'[t][Len(wire'[t])]) = I!Latest
      BY <3>3, <3>4
    <3>13. \A d : version'[d.message] = RankOf(d)
      BY <1>5 DEF RankOf
    <3>14. QED
      BY <1>5, <1>8, <3>3, <3>9, <3>10, <3>11, <3>12 DEF ListOf
  <2>3. QED
    BY <1>3, <2>1, <2>2
<1>11. QED
  BY <1>7, <1>10

LEMMA ListDies ==
  ASSUME ListKnown, NEW i \in Instances, I!Dies(i)
  PROVE  ListInv'
<1>1. LiveTyped
  BY DEF ListKnown, LiveKnown
<1>2. /\ claimed \subseteq claimed' /\ lossy \subseteq lossy'
      /\ \A e : InBus(e)' => InBus(e)
      /\ \A e : InBus(e) /\ e \notin claimed =>
           \/ InBus(e)' /\ e \notin claimed'
           \/ \A t \in Tabs : e.message \in missed'[t] /\ t \in lossy'
  BY <1>1, Died
<1>3. UNCHANGED <<version, due, wire, loaded, roomListed, fetch, snapshot, merged, overlapped>>
  BY DEF I!Dies, I!socket, I!screen, I!request
<1> SUFFICES ASSUME ~overlapped
             PROVE  Alone' /\ \A t \in Tabs \ lossy' : ListOf(t)'
  BY <1>3 DEF ListInv
<1>4. Alone'
  BY <1>2, <1>3, AloneLeft DEF ListKnown, ListInv
<1>5. ASSUME NEW t \in Tabs \ lossy'
      PROVE  ListOf(t)'
  <2>1. \A e : InBus(e) /\ e \notin claimed <=> InBus(e)' /\ e \notin claimed'
    BY <1>2
  <2>2. Underway' <=> Underway
    BY <1>3, <2>1 DEF Underway
  <2>3. I!Latest' = I!Latest
    BY <1>1, <1>3, RanksKept
  <2>4. Current(t) => Current(t)'
    BY <1>3, <2>3 DEF Current
  <2>5. ListOf(t)
    BY <1>2 DEF ListKnown, ListInv
  <2>6. QED
    BY <1>3, <2>2, <2>4, <2>5, ListLeft
<1>6. QED
  BY <1>4, <1>5

LEMMA ListDisconnect ==
  ASSUME ListKnown, NEW t \in Tabs, I!Disconnect(t)
  PROVE  ListInv'
<1>1. LiveTyped
  BY DEF ListKnown, LiveKnown
<1>2. PICK messages : messages = {wire[t][k].message : k \in DOMAIN wire[t]}
  OBVIOUS
<1>3. /\ wire' = [wire EXCEPT ![t] = <<>>] /\ I!Lose({t}, messages)
      /\ UNCHANGED <<version, due, bus, claimed, loaded, roomListed, fetch, snapshot, merged, overlapped>>
  BY <1>2 DEF I!Disconnect, I!server, I!api, I!screen, I!request
<1>4. lossy \subseteq lossy' /\ (messages # {} => t \in lossy')
  BY <1>3, Lost
<1>5. messages = {} => wire[t] = <<>>
  <2>1. wire[t] \in Seq(I!Event) /\ DOMAIN wire[t] = 1..Len(wire[t]) /\ Len(wire[t]) \in Nat
    BY <1>1, LenProperties DEF LiveTyped
  <2>2. messages = {} => Len(wire[t]) = 0
    <3>1. Len(wire[t]) # 0 => 1 \in 1..Len(wire[t])
      BY <2>1
    <3>2. 1 \in 1..Len(wire[t]) => wire[t][1].message \in messages
      BY <1>2, <2>1
    <3>3. QED
      BY <3>1, <3>2
  <2>3. QED
    BY <2>1, <2>2, EmptySeq
<1>6. \A u \in Tabs \ lossy' : wire'[u] = wire[u]
  BY <1>1, <1>3, <1>4, <1>5 DEF LiveTyped
<1> SUFFICES ASSUME ~overlapped
             PROVE  Alone' /\ \A u \in Tabs \ lossy' : ListOf(u)'
  BY <1>3 DEF ListInv
<1>7. Alone'
  BY <1>3, AloneLeft DEF ListKnown, ListInv, InBus
<1>8. ASSUME NEW u \in Tabs \ lossy'
      PROVE  ListOf(u)'
  <2>1. ListOf(u)
    BY <1>4 DEF ListKnown, ListInv
  <2>2. Underway' <=> Underway
    BY <1>3 DEF Underway, InBus
  <2>3. I!Latest' = I!Latest
    BY <1>1, <1>3, RanksKept
  <2>4. Current(u) => Current(u)'
    BY <1>3, <2>3 DEF Current
  <2>5. QED
    BY <1>3, <1>6, <2>1, <2>2, <2>4, ListLeft
<1>9. QED
  BY <1>7, <1>8

\* What the first event of the wire brings is not older than what was merged,
\* and nothing behind it is older.
LEMMA ListReceives ==
  ASSUME ListKnown, ~overlapped, NEW t \in Tabs \ lossy', I!Receive(t)
  PROVE  ListOf(t)'
<1>1. LiveTyped /\ EventsInv
  BY DEF ListKnown, LiveKnown
<1>2. PICK e \in I!Event :
        /\ e = Head(wire[t]) /\ e = wire[t][1] /\ wire[t] # <<>> /\ e.message \in Messages
        /\ wire' = [wire EXCEPT ![t] = Tail(wire[t])]
        /\ I!ReceiveNew(t) \/ I!ReceiveUpdate(t)
  BY <1>1, EventArrives
<1>3. /\ UNCHANGED <<version, due, bus, claimed, loaded, fetch, snapshot>>
      /\ I!Overtake(t, e.message)
      /\ \/ I!Merge(t, e.message)
         \/ merged' = merged /\ (t \in loaded => roomListed' = [roomListed EXCEPT ![t] = RankOf(e)])
  BY <1>2 DEF I!ReceiveNew, I!ReceiveUpdate, I!server, I!api, I!request, RankOf
<1>4. fetch[t] # "answered" /\ t \notin lossy
  BY <1>1, <1>2, <1>3, Overtaken
<1>5. ListOf(t) /\ wire[t] \in Seq(I!Event) /\ wire \in [Tabs -> Seq(I!Event)]
      /\ merged \in [Tabs -> SUBSET Messages] /\ DOMAIN roomListed = Tabs
  BY <1>1, <1>4 DEF ListKnown, ListInv, LiveTyped
<1>6. /\ wire'[t] = Tail(wire[t])
      /\ Len(wire[t]) \in Nat \ {0} /\ Len(wire'[t]) = Len(wire[t]) - 1
      /\ \A k \in 1..Len(wire'[t]) : k + 1 \in 1..Len(wire[t]) /\ wire'[t][k] = wire[t][k + 1]
      /\ wire'[t] # <<>> => wire'[t][Len(wire'[t])] = wire[t][Len(wire[t])]
      /\ wire'[t] = <<>> => e = wire[t][Len(wire[t])]
  BY <1>2, <1>5, TailOf
<1>7. I!Latest' = I!Latest /\ (Underway' <=> Underway) /\ \A d : RankOf(d)' = RankOf(d)
  BY <1>1, <1>3, RanksKept DEF Underway, InBus
<1>8. /\ \A k \in 1..Len(wire'[t]) : RankOf(e) <= RankOf(wire'[t][k])
      /\ \A n \in merged[t] : version[n] <= RankOf(e)
      /\ RankOf(e) \in Nat /\ RankOf(e) <= I!Latest /\ I!Latest \in Nat
  <2>1. 1 \in 1..Len(wire[t]) /\ \A k \in 1..Len(wire'[t]) : 1 < k + 1
    BY <1>6
  <2>2. \A k \in 1..Len(wire'[t]) : RankOf(e) <= RankOf(wire'[t][k])
    BY <1>2, <1>5, <1>6, <2>1 DEF ListOf, InOrder
  <2>3. \A n \in merged[t] : version[n] <= RankOf(e)
    BY <1>2, <1>5, <2>1 DEF ListOf
  <2>4. RankOf(e) \in Nat /\ RankOf(e) <= I!Latest /\ I!Latest \in Nat
    BY <1>1, <1>2, LatestIs DEF LiveTyped, RankOf
  <2>5. QED
    BY <2>2, <2>3, <2>4
<1>9. \A n \in merged'[t] : n \in merged[t] \/ n = e.message
  BY <1>3, <1>5 DEF I!Merge
<1>10. \A n \in merged'[t] : version[n] <= RankOf(e)
  BY <1>8, <1>9 DEF RankOf
<1>11. ASSUME RankOf(e) = I!Latest
       PROVE  Current(t)'
  <2>1. fetch'[t] # "answered"
    BY <1>3, <1>4
  <2>2. ASSUME t \in loaded
        PROVE  roomListed'[t] = I!Latest
    <3>1. CASE roomListed' = [roomListed EXCEPT ![t] = RankOf(e)]
      BY <1>5, <1>11, <3>1
    <3>2. CASE I!Merge(t, e.message) /\ e.message \notin merged[t]
      BY <1>5, <1>11, <2>2, <3>2 DEF I!Merge, RankOf
    <3>3. CASE I!Merge(t, e.message) /\ e.message \in merged[t]
      <4>1. roomListed' = roomListed
        BY <3>3 DEF I!Merge
      <4>2. Current(t)
        BY <1>5, <1>11, <3>3 DEF ListOf, RankOf
      <4>3. QED
        BY <2>2, <4>1, <4>2 DEF Current
    <3>4. QED
      BY <1>3, <2>2, <3>1, <3>2, <3>3
  <2>3. QED
    BY <1>3, <1>7, <2>1, <2>2 DEF Current
<1>12. InOrder(wire[t])'
  <2>1. ASSUME NEW j \in 1..Len(wire'[t]), NEW k \in 1..Len(wire'[t]), j < k
        PROVE  RankOf(wire'[t][j]) <= RankOf(wire'[t][k])
    <3>1. /\ j + 1 \in 1..Len(wire[t]) /\ k + 1 \in 1..Len(wire[t]) /\ j + 1 < k + 1
          /\ wire'[t][j] = wire[t][j + 1] /\ wire'[t][k] = wire[t][k + 1]
      BY <1>6, <2>1
    <3>2. QED
      BY <1>5, <3>1 DEF ListOf, InOrder
  <2>2. InOrder(wire'[t])
    BY <2>1 DEF InOrder
  <2>3. QED
    BY <1>7, <2>2 DEF InOrder
<1>13. \A n \in merged'[t], k \in 1..Len(wire'[t]) : version'[n] <= RankOf(wire[t][k])'
  <2>1. ASSUME NEW n \in merged'[t], NEW k \in 1..Len(wire'[t])
        PROVE  version[n] <= RankOf(wire'[t][k])
    <3>1. version[n] \in Nat
      BY <1>1, <1>2, <1>5, <1>9 DEF LiveTyped
    <3>2. RankOf(wire'[t][k]) \in Nat
      <4>1. wire[t][k + 1] \in I!Event
        BY <1>5, <1>6, ElementOfSeq
      <4>2. wire'[t][k].message \in Messages
        BY <1>6, <4>1, KindsAre
      <4>3. QED
        BY <1>1, <4>2 DEF LiveTyped, RankOf
    <3>3. QED
      BY <1>8, <1>10, <3>1, <3>2
  <2>2. QED
    BY <1>3, <1>7, <2>1
<1>14. wire'[t] # <<>> => Underway \/ RankOf(wire'[t][Len(wire'[t])]) = I!Latest
  BY <1>2, <1>5, <1>6 DEF ListOf
<1>15. ASSUME NEW n \in merged'[t], version[n] = I!Latest
       PROVE  Current(t)'
  BY <1>8, <1>10, <1>11, <1>15
<1>16. ~Underway /\ wire'[t] = <<>> => Current(t)'
  <2>1. ~Underway /\ wire'[t] = <<>> => RankOf(e) = I!Latest
    BY <1>2, <1>5, <1>6 DEF ListOf
  <2>2. QED
    BY <1>11, <2>1
<1>17. QED
  BY <1>3, <1>7, <1>12, <1>13, <1>14, <1>15, <1>16 DEF ListOf

LEMMA ListReceive ==
  ASSUME ListKnown, NEW t \in Tabs, I!Receive(t)
  PROVE  ListInv'
<1>1. LiveTyped
  BY DEF ListKnown, LiveKnown
<1>2. PICK e \in I!Event :
        /\ e = Head(wire[t]) /\ e.message \in Messages
        /\ wire' = [wire EXCEPT ![t] = Tail(wire[t])]
        /\ I!ReceiveNew(t) \/ I!ReceiveUpdate(t)
  BY <1>1, EventArrives
<1>3. /\ UNCHANGED <<version, due, bus, claimed, loaded, fetch, snapshot, overlapped>>
      /\ I!Overtake(t, e.message)
      /\ \A u \in Tabs \ {t} : merged'[u] = merged[u] /\ roomListed'[u] = roomListed[u]
  <2>1. merged \in [Tabs -> SUBSET Messages] /\ DOMAIN roomListed = Tabs
    BY <1>1 DEF LiveTyped
  <2>2. CASE I!ReceiveNew(t)
    BY <1>2, <2>1, <2>2 DEF I!ReceiveNew, I!Merge, I!server, I!api, I!request
  <2>3. CASE I!ReceiveUpdate(t)
    BY <1>2, <2>1, <2>3 DEF I!ReceiveUpdate, I!server, I!api, I!request
  <2>4. QED
    BY <1>2, <2>2, <2>3
<1>4. lossy \subseteq lossy'
  BY <1>1, <1>2, <1>3, Overtaken
<1> SUFFICES ASSUME ~overlapped
             PROVE  Alone' /\ \A u \in Tabs \ lossy' : ListOf(u)'
  BY <1>3 DEF ListInv
<1>5. Alone'
  BY <1>3, AloneLeft DEF ListKnown, ListInv, InBus
<1>6. ASSUME NEW u \in Tabs \ lossy', u # t
      PROVE  ListOf(u)'
  <2>1. ListOf(u)
    BY <1>4 DEF ListKnown, ListInv
  <2>2. Underway' <=> Underway
    BY <1>3 DEF Underway, InBus
  <2>3. wire'[u] = wire[u] /\ merged'[u] = merged[u] /\ I!Latest' = I!Latest
    BY <1>1, <1>2, <1>3, <1>6, RanksKept DEF LiveTyped
  <2>4. Current(u) => Current(u)'
    BY <1>3, <1>6, <2>3 DEF Current
  <2>5. QED
    BY <1>3, <2>1, <2>2, <2>3, <2>4, ListLeft
<1>7. QED
  BY <1>5, <1>6, ListReceives

LEMMA ListQuiet ==
  ASSUME ListKnown, NEW t \in Tabs, Quiet(t)
  PROVE  ListInv'
<1>1. LiveTyped
  BY DEF ListKnown, LiveKnown
<1>2. /\ UNCHANGED <<version, due, bus, claimed, wire, lossy, overlapped>>
      /\ \A u \in Tabs : merged'[u] \subseteq merged[u]
  BY <1>1, QuietKeeps DEF I!server, I!api
<1> SUFFICES ASSUME ~overlapped
             PROVE  Alone' /\ \A u \in Tabs \ lossy : ListOf(u)'
  BY <1>2 DEF ListInv
<1>3. Alone'
  BY <1>2, AloneLeft DEF ListKnown, ListInv, InBus
<1>4. I!Latest' = I!Latest
  BY <1>1, <1>2, RanksKept
<1>5. ASSUME NEW u \in Tabs, Current(u)
      PROVE  Current(u)'
  <2>1. CASE I!Connect(t) \/ I!Navigate(t) \/ I!Ask(t) \/ I!FetchFails(t)
    <3>1. /\ UNCHANGED <<loaded, roomListed>>
          /\ fetch'[u] = "answered" => fetch[u] = "answered" /\ snapshot'[u] = snapshot[u]
      BY <1>1, <2>1 DEF LiveTyped, I!Connect, I!Navigate, I!Ask, I!FetchFails, I!Settles,
                        I!screen, I!request
    <3>2. QED
      BY <1>4, <1>5, <3>1 DEF Current
  <2>2. CASE I!Answer(t)
    <3>1. /\ UNCHANGED <<loaded, roomListed>>
          /\ snapshot'[t].listed = I!Latest
          /\ u # t => fetch'[u] = fetch[u] /\ snapshot'[u] = snapshot[u]
      BY <1>1, <2>2 DEF LiveTyped, I!Answer, I!screen
    <3>2. QED
      BY <1>4, <1>5, <3>1 DEF Current
  <2>3. CASE I!Load(t)
    <3>1. /\ fetch[t] = "answered" /\ fetch'[t] = "none" /\ roomListed'[t] = snapshot[t].listed
          /\ loaded' = loaded \union {t}
          /\ u # t => /\ fetch'[u] = fetch[u] /\ snapshot'[u] = snapshot[u]
                      /\ roomListed'[u] = roomListed[u]
      BY <1>1, <2>3 DEF LiveTyped, I!Load, I!Settles
    <3>2. QED
      BY <1>4, <1>5, <3>1 DEF Current
  <2>4. QED
    BY <2>1, <2>2, <2>3 DEF Quiet
<1>6. ASSUME NEW u \in Tabs \ lossy
      PROVE  ListOf(u)'
  <2>1. ListOf(u)
    BY DEF ListKnown, ListInv
  <2>2. Underway' <=> Underway
    BY <1>2 DEF Underway, InBus
  <2>3. QED
    BY <1>2, <1>5, <2>1, <2>2, ListLeft
<1>7. QED
  BY <1>3, <1>6

LEMMA ListStep ==
  LiveKnown /\ ListInv /\ [DeskNext]_deskVars => ListInv'
<1> SUFFICES ASSUME ListKnown, [DeskNext]_deskVars
             PROVE  ListInv'
  BY DEF ListKnown
<1>1. CASE I!Next
  BY <1>1, LiveSteps, ListStore, ListPublish, ListClaim, ListDies, ListDisconnect,
     ListReceive, ListQuiet
<1>2. CASE UNCHANGED liveState
  <2>1. LiveTyped /\ I!Latest' = I!Latest /\ (Underway' <=> Underway)
    BY <1>2, RanksKept DEF ListKnown, LiveKnown, liveState, Underway, InBus
  <2>2. ASSUME ~overlapped
        PROVE  Alone' /\ \A u \in Tabs \ lossy : ListOf(u)'
    <3>1. Alone'
      BY <1>2, <2>2, AloneLeft DEF ListKnown, ListInv, liveState, InBus
    <3>2. ASSUME NEW u \in Tabs \ lossy
          PROVE  ListOf(u)'
      <4>1. ListOf(u)
        BY <2>2 DEF ListKnown, ListInv
      <4>2. Current(u) => Current(u)'
        BY <1>2, <2>1 DEF Current, liveState
      <4>3. QED
        BY <1>2, <2>1, <4>1, <4>2, ListLeft DEF liveState
    <3>3. QED
      BY <3>1, <3>2
  <2>3. QED
    BY <1>2, <2>2 DEF ListInv, liveState
<1>3. QED
  BY <1>1, <1>2, OneScene

LEMMA ListStart == DeskInit => ListInv
<1> SUFFICES ASSUME DeskInit
             PROVE  ListInv
  OBVIOUS
<1>1. I!Init
  BY DEF DeskInit
<1>2. Alone
  BY <1>1, NothingOn DEF I!Init, Alone, InBus
<1>3. ASSUME NEW t \in Tabs
      PROVE  ListOf(t)
  <2>1. wire[t] = <<>> /\ merged[t] = {} /\ loaded = {} /\ fetch[t] = "asked"
    BY <1>1 DEF I!Init
  <2>2. InOrder(<<>>) /\ \A k \in 1..Len(<<>>) : FALSE
    BY DEF InOrder
  <2>3. QED
    BY <2>1, <2>2 DEF ListOf, Current
<1>4. QED
  BY <1>2, <1>3 DEF ListInv

\* With nothing on its way, a browser shows each message of the page or is known
\* to have missed it, and its list shows the conversation as it is unless it lost
\* an event or the events of two messages were under way together: however the
\* answers of requests and the events of SocketProvider follow each other.
THEOREM MessagesAreShown == DeskSpec => []ShownOrMissed
<1>1. LiveKnown /\ ShownInv /\ ListInv => ShownOrMissed
  <2> SUFFICES ASSUME LiveKnown, ShownInv, ListInv, NEW t \in loaded, I!Settled(t)
               PROVE  /\ I!Page \ missed[t] \subseteq cache[t]
                      /\ (t \notin lossy /\ ~overlapped) => roomListed[t] = I!Latest
    BY DEF ShownOrMissed, I!ShownOrMissed
  <2>1. LiveTyped /\ EventsInv
    BY DEF LiveKnown
  <2>2. t \in Tabs /\ wire[t] = <<>> /\ \A m \in Messages : ~I!UnderWay(m)
    BY <2>1 DEF LiveTyped, I!Settled
  <2>3. due = {} /\ \A e : ~InBus(e)
    <3>1. due = {}
      BY <2>1, <2>2 DEF LiveTyped, I!UnderWay
    <3>2. ASSUME NEW i \in Instances, NEW e, On(bus[i], e)
          PROVE  FALSE
      <4>1. InBus(e)
        BY <3>2 DEF InBus
      <4>2. e \in I!Event
        BY <2>1, <4>1 DEF EventsInv
      <4>3. bus[i] \in Seq(I!Event) /\ DOMAIN bus[i] = 1..Len(bus[i])
        BY <2>1, LenProperties DEF LiveTyped
      <4>4. e.message \in Messages /\ I!UnderWay(e.message)
        BY <3>2, <4>2, <4>3, KindsAre DEF On, I!Contains, I!UnderWay
      <4>5. QED
        BY <2>2, <4>4
    <3>3. QED
      BY <3>1, <3>2 DEF InBus
  <2>4. \A m : ~Coming(t, m)
    BY <2>2, <2>3, NothingOn DEF Coming
  <2>5. I!Page \ missed[t] \subseteq cache[t]
    BY <2>2, <2>4 DEF ShownInv, ShownOf
  <2>6. ~Underway
    BY <2>3 DEF Underway
  <2>7. (t \notin lossy /\ ~overlapped) => roomListed[t] = I!Latest
    BY <2>2, <2>6 DEF ListInv, ListOf, Current
  <2>8. QED
    BY <2>5, <2>7
<1>2. QED
  BY <1>1, KnownStart, KnownStep, ShownStart, ShownStep, ListStart, ListStep, PTL DEF DeskSpec

-----------------------------------------------------------------------------
(* The inbox in the browser: types. What a browser knows of is stored, and no *)
(* rank is of a conversation to come.                                        *)

RanksDiffer == \A m, n \in I!Stored : version[m] = version[n] => m = n

\* What is shown, and what is known as missed, is of stored messages.
ScreenOf(S, n) ==
  /\ cache \in [Tabs -> SUBSET S] /\ roomListed \in [Tabs -> 0..n]
  /\ fetch \in [Tabs -> {"none", "asked", "answered"}]
  /\ snapshot \in [Tabs -> [items : SUBSET S, listed : 0..n]]
  /\ notified \in [Tabs -> SUBSET S]

LossesOf(S) ==
  /\ doubted \subseteq S /\ missed \in [Tabs -> SUBSET S]
  /\ lossy \subseteq Tabs /\ overlapped \in BOOLEAN

WiresFit == wired \subseteq Tabs /\ \A t \in Tabs : t \notin wired => wire[t] = <<>>

TypesInv ==
  RanksDiffer /\ ScreenOf(I!Stored, I!Latest) /\ LossesOf(I!Stored) /\ WiresFit

LEMMA Typed ==
  ASSUME LiveKnown, TypesInv
  PROVE  I!TypeOK
<1>1. LiveTyped /\ EventsInv
  BY DEF LiveKnown
<1>2. due \subseteq I!Stored /\ claimed \subseteq I!Event
  BY <1>1 DEF LiveTyped, EventsInv, I!Stored
<1>3. merged \in [Tabs -> SUBSET I!Stored]
  <2>1. \A t \in Tabs : merged[t] \in SUBSET I!Stored
    BY <1>1 DEF LiveTyped, EventsInv, I!Stored
  <2>2. QED
    BY <1>1, <2>1 DEF LiveTyped
<1>4. QED
  BY <1>1, <1>2, <1>3
  DEF LiveTyped, TypesInv, RanksDiffer, ScreenOf, LossesOf, WiresFit, I!TypeOK

LEMMA Grown ==
  ASSUME NEW S, NEW T, S \subseteq T, NEW m \in Nat, NEW n \in Nat, m <= n
  PROVE  /\ ScreenOf(S, m) => ScreenOf(T, n)
         /\ LossesOf(S) => LossesOf(T)
<1>1. SUBSET S \subseteq SUBSET T /\ 0..m \subseteq 0..n
  OBVIOUS
<1>2. [items : SUBSET S, listed : 0..m] \subseteq [items : SUBSET T, listed : 0..n]
  BY <1>1
<1>3. QED
  BY <1>1, <1>2 DEF ScreenOf, LossesOf

\* What is lost is of stored messages.
LEMMA LossesTyped ==
  ASSUME LossesOf(I!Stored), NEW tabs \in SUBSET Tabs, NEW messages \in SUBSET I!Stored,
         I!Lose(tabs, messages)
  PROVE  missed' \in [Tabs -> SUBSET I!Stored] /\ lossy' \subseteq Tabs
  BY DEF LossesOf, I!Lose

LEMMA TypesStore ==
  ASSUME LiveKnown, TypesInv, NEW m \in Messages, I!Store(m)
  PROVE  TypesInv'
<1>1. LiveTyped
  BY DEF LiveKnown
<1>2. /\ version' \in [Messages -> Nat] /\ version[m] = 0
      /\ \A n \in Messages : n # m => version'[n] = version[n]
      /\ I!Latest \in Nat /\ I!Latest' = I!Latest + 1 /\ version'[m] = I!Latest'
  BY <1>1, StoredLatest
<1>3. /\ overlapped' = (overlapped \/ \E n \in Messages : I!UnderWay(n))
      /\ UNCHANGED <<wired, wire, cache, roomListed, fetch, snapshot, notified, doubted, missed, lossy>>
  BY DEF I!Store, I!socket, I!screen, I!request
<1>4. I!Stored \subseteq I!Stored' /\ I!Latest' \in Nat /\ I!Latest <= I!Latest'
  <2>1. \A n \in I!Stored : n \in Messages /\ n # m /\ version'[n] > 0
    BY <1>2 DEF I!Stored
  <2>2. I!Stored \subseteq I!Stored'
    BY <2>1 DEF I!Stored
  <2>3. \A k \in Nat : k + 1 \in Nat /\ k <= k + 1
    OBVIOUS
  <2>4. QED
    BY <1>2, <2>2, <2>3
<1>5. ScreenOf(I!Stored', I!Latest') /\ LossesOf(I!Stored')
  BY <1>2, <1>4, Grown DEF TypesInv
<1>6. (ScreenOf(I!Stored, I!Latest))' /\ (LossesOf(I!Stored))'
  BY <1>3, <1>5 DEF ScreenOf, LossesOf
<1>7. RanksDiffer'
  <2>1. \A n \in I!Stored' : n \in Messages /\ (n # m => n \in I!Stored /\ version'[n] = version[n])
    BY <1>2 DEF I!Stored
  <2>2. \A n \in I!Stored' : n # m => version'[n] <= I!Latest /\ version'[n] \in Nat
    BY <1>1, <1>2, <2>1 DEF LiveTyped
  <2>3. \A n \in I!Stored' : n # m => version'[n] # version'[m]
    BY <1>2, <2>2
  <2>4. QED
    BY <2>1, <2>3 DEF TypesInv, RanksDiffer
<1>8. WiresFit'
  BY <1>3 DEF TypesInv, WiresFit
<1>9. QED
  BY <1>6, <1>7, <1>8 DEF TypesInv

\* What is left to show of a step that stores nothing.
LEMMA TypesLeft ==
  ASSUME LiveKnown, TypesInv, UNCHANGED <<version, overlapped>>,
         wired' \subseteq Tabs, \A t \in Tabs : t \notin wired' => wire'[t] = <<>>,
         cache' \in [Tabs -> SUBSET I!Stored], roomListed' \in [Tabs -> 0..I!Latest],
         fetch' \in [Tabs -> {"none", "asked", "answered"}],
         snapshot' \in [Tabs -> [items : SUBSET I!Stored, listed : 0..I!Latest]],
         notified' \in [Tabs -> SUBSET I!Stored],
         doubted' \subseteq I!Stored, missed' \in [Tabs -> SUBSET I!Stored], lossy' \subseteq Tabs
  PROVE  TypesInv'
<1>1. I!Stored' = I!Stored /\ I!Latest' = I!Latest
  BY DEF I!Stored, I!Latest
<1>2. QED
  BY <1>1 DEF TypesInv, RanksDiffer, ScreenOf, LossesOf, WiresFit

\* The server changes nothing in a browser.
LEMMA TypesServer ==
  ASSUME LiveKnown, TypesInv, UNCHANGED <<version, overlapped, wired, I!screen, I!request>>,
         \A t \in Tabs : t \notin wired => wire'[t] = wire[t],
         doubted' \subseteq I!Stored, missed' \in [Tabs -> SUBSET I!Stored], lossy' \subseteq Tabs
  PROVE  TypesInv'
  BY TypesLeft DEF TypesInv, ScreenOf, WiresFit, I!screen, I!request

LEMMA TypesPublish ==
  ASSUME LiveKnown, TypesInv, NEW m \in Messages, I!Publish(m) \/ I!PublishFails(m)
  PROVE  TypesInv'
<1>1. LossesOf(I!Stored) /\ m \in I!Stored
  BY DEF TypesInv, LiveKnown, EventsInv, I!Stored, I!Publish, I!PublishFails
<1>2. missed' \in [Tabs -> SUBSET I!Stored] /\ lossy' \subseteq Tabs
  <2>1. CASE I!Publish(m)
    BY <1>1, <2>1 DEF I!Publish, I!history, LossesOf
  <2>2. CASE I!PublishFails(m)
    <3>1. I!Lose(Tabs, {m}) /\ {m} \in SUBSET I!Stored
      BY <1>1, <2>2 DEF I!PublishFails
    <3>2. QED
      BY <1>1, <3>1, LossesTyped
  <2>3. QED
    BY <2>1, <2>2
<1>3. UNCHANGED <<version, overlapped, wired, wire, doubted, I!screen, I!request>>
  BY DEF I!Publish, I!PublishFails, I!socket, I!history
<1>4. QED
  BY <1>1, <1>2, <1>3, TypesServer DEF LossesOf

LEMMA TypesClaim ==
  ASSUME LiveKnown, TypesInv, NEW i \in Instances, I!Claim(i) \/ I!ClaimFails(i)
  PROVE  TypesInv'
<1>1. LossesOf(I!Stored) /\ LiveTyped /\ EventsInv
  BY DEF TypesInv, LiveKnown
<1>2. PICK e : e = Head(bus[i])
  OBVIOUS
<1>3. /\ bus[i] # <<>> /\ I!Shift(i)
      /\ UNCHANGED <<version, wired, I!screen, I!request, overlapped>>
      /\ doubted' = doubted \/ doubted' = doubted \union {e.message}
      /\ I!Emit(e) \/ UNCHANGED <<wire, missed, lossy>>
  BY <1>2 DEF I!Claim, I!ClaimFails
<1>4. e \in I!Event /\ InBus(e)
  BY <1>1, <1>2, <1>3, Shifted
<1>5. e.message \in I!Stored
  BY <1>1, <1>4, KindsAre DEF EventsInv, RankOf, I!Stored
<1>6. /\ missed' \in [Tabs -> SUBSET I!Stored] /\ lossy' \subseteq Tabs
      /\ \A t \in Tabs : t \notin wired => wire'[t] = wire[t]
  <2>1. CASE I!Emit(e)
    <3>1. I!Lose(Tabs \ wired, {e.message}) /\ {e.message} \in SUBSET I!Stored
      BY <1>5, <2>1 DEF I!Emit
    <3>2. missed' \in [Tabs -> SUBSET I!Stored] /\ lossy' \subseteq Tabs
      BY <1>1, <3>1, LossesTyped
    <3>3. QED
      BY <1>1, <1>4, <2>1, <3>2, Emitted
  <2>2. CASE UNCHANGED <<wire, missed, lossy>>
    BY <1>1, <2>2 DEF LossesOf
  <2>3. QED
    BY <1>3, <2>1, <2>2
<1>7. doubted' \subseteq I!Stored
  BY <1>1, <1>3, <1>5 DEF LossesOf
<1>8. QED
  BY <1>3, <1>6, <1>7, TypesServer

LEMMA TypesDies ==
  ASSUME LiveKnown, TypesInv, NEW i \in Instances, I!Dies(i)
  PROVE  TypesInv'
<1>1. LossesOf(I!Stored) /\ LiveTyped /\ EventsInv
  BY DEF TypesInv, LiveKnown
<1>2. PICK mine : mine = {bus[i][k] : k \in DOMAIN bus[i]}
  OBVIOUS
<1>3. \E lost \in SUBSET mine : I!Lose(Tabs, {e.message : e \in lost})
  <2>1. PICK taken \in {{}, {bus[i][k] : k \in DOMAIN bus[i] \intersect {1}} \ claimed} :
          LET pending == {bus[i][k] : k \in DOMAIN bus[i]} \ (claimed \union taken)
          IN \E left_over \in SUBSET pending :
               I!Lose(Tabs, {e.message : e \in (pending \ left_over) \union taken})
    BY DEF I!Dies
  <2>2. taken \subseteq mine
    BY <1>2
  <2>3. QED
    BY <1>2, <2>1, <2>2
<1>4. \A e \in mine : e.message \in I!Stored
  <2>1. bus[i] \in Seq(I!Event) /\ DOMAIN bus[i] = 1..Len(bus[i])
    BY <1>1, LenProperties DEF LiveTyped
  <2>2. \A e \in mine : InBus(e)
    BY <1>2, <2>1 DEF InBus, On, I!Contains
  <2>3. QED
    BY <1>1, <2>2, KindsAre DEF EventsInv, RankOf, I!Stored
<1>5. missed' \in [Tabs -> SUBSET I!Stored] /\ lossy' \subseteq Tabs
  <2>1. PICK lost \in SUBSET mine : I!Lose(Tabs, {e.message : e \in lost})
    BY <1>3
  <2>2. {e.message : e \in lost} \in SUBSET I!Stored
    BY <1>4
  <2>3. QED
    BY <1>1, <2>1, <2>2, LossesTyped
<1>6. UNCHANGED <<version, overlapped, wired, wire, doubted, I!screen, I!request>>
  BY DEF I!Dies, I!socket
<1>7. QED
  BY <1>1, <1>5, <1>6, TypesServer DEF LossesOf

LEMMA TypesTab ==
  ASSUME LiveKnown, TypesInv, NEW t \in Tabs, I!Disconnect(t) \/ I!Receive(t) \/ Quiet(t)
  PROVE  TypesInv'
<1>1. /\ LiveTyped /\ EventsInv /\ LossesOf(I!Stored) /\ ScreenOf(I!Stored, I!Latest)
      /\ WiresFit /\ I!Latest \in Nat
  BY LatestIs DEF TypesInv, LiveKnown, LiveTyped
<1> USE DEF ScreenOf, LossesOf, WiresFit
<1>2. \A e : On(wire[t], e) => e.message \in I!Stored
  BY <1>1, OnWireIs DEF EventsInv, RankOf, I!Stored
<1>3. CASE I!Disconnect(t)
  <2>1. PICK messages : messages = {wire[t][k].message : k \in DOMAIN wire[t]}
    OBVIOUS
  <2>2. /\ wired' = wired \ {t} /\ wire' = [wire EXCEPT ![t] = <<>>] /\ I!Lose({t}, messages)
        /\ UNCHANGED <<version, cache, roomListed, fetch, snapshot, notified, doubted, overlapped>>
    BY <1>3, <2>1 DEF I!Disconnect, I!server, I!screen, I!request
  <2>3. wire[t] \in Seq(I!Event) /\ DOMAIN wire[t] = 1..Len(wire[t])
    BY <1>1, LenProperties DEF LiveTyped
  <2>4. messages \in SUBSET I!Stored
    BY <1>2, <2>1, <2>3 DEF On, I!Contains
  <2>5. missed' \in [Tabs -> SUBSET I!Stored] /\ lossy' \subseteq Tabs
    BY <1>1, <2>2, <2>4, LossesTyped
  <2>6. \A u \in Tabs : wire'[u] = IF u = t THEN <<>> ELSE wire[u]
    BY <1>1, <2>2 DEF LiveTyped
  <2>7. QED
    BY <1>1, <2>2, <2>5, <2>6, TypesLeft
<1>4. CASE I!Receive(t)
  <2>1. PICK e \in I!Event :
          /\ e = Head(wire[t]) /\ On(wire[t], e) /\ wire[t] # <<>> /\ e.message \in Messages
          /\ wire' = [wire EXCEPT ![t] = Tail(wire[t])]
          /\ I!ReceiveNew(t) \/ I!ReceiveUpdate(t)
    BY <1>1, <1>4, EventArrives
  <2>2. PICK m : m = e.message
    OBVIOUS
  <2>3. m \in I!Stored /\ m \in Messages /\ version[m] \in 0..I!Latest
    BY <1>1, <1>2, <2>1, <2>2 DEF LiveTyped
  <2>4. /\ UNCHANGED <<version, wired, fetch, snapshot, doubted, overlapped>>
        /\ I!Overtake(t, m)
        /\ notified' = notified \/ notified' = [notified EXCEPT ![t] = @ \union {m}]
        /\ cache' = cache \/ cache' = [cache EXCEPT ![t] = @ \union {m}]
        /\ roomListed' = roomListed \/ roomListed' = [roomListed EXCEPT ![t] = version[m]]
    BY <2>1, <2>2 DEF I!ReceiveNew, I!ReceiveUpdate, I!Merge, I!server, I!request
  <2>5. missed' \in [Tabs -> SUBSET I!Stored] /\ lossy' \subseteq Tabs
    <3>1. CASE I!Lose({t}, {m})
      BY <1>1, <2>3, <3>1, LossesTyped
    <3>2. CASE UNCHANGED <<missed, lossy>>
      BY <1>1, <3>2
    <3>3. QED
      BY <2>4, <3>1, <3>2 DEF I!Overtake
  <2>6. \A f \in [Tabs -> SUBSET I!Stored] :
          [f EXCEPT ![t] = @ \union {m}] \in [Tabs -> SUBSET I!Stored]
    <3>1. \A f \in [Tabs -> SUBSET I!Stored] : f[t] \union {m} \in SUBSET I!Stored
      BY <2>3
    <3>2. QED
      BY <3>1
  <2>7. notified' \in [Tabs -> SUBSET I!Stored]
    <3>1. CASE notified' = [notified EXCEPT ![t] = @ \union {m}]
      BY <1>1, <2>6, <3>1
    <3>2. QED
      BY <1>1, <2>4, <3>1
  <2>8. cache' \in [Tabs -> SUBSET I!Stored]
    <3>1. CASE cache' = [cache EXCEPT ![t] = @ \union {m}]
      BY <1>1, <2>6, <3>1
    <3>2. QED
      BY <1>1, <2>4, <3>1
  <2>9. roomListed' \in [Tabs -> 0..I!Latest]
    BY <1>1, <2>3, <2>4
  <2>10. t \in wired /\ \A u \in Tabs \ {t} : wire'[u] = wire[u]
    BY <1>1, <2>1 DEF LiveTyped
  <2>11. QED
    BY <1>1, <2>4, <2>5, <2>7, <2>8, <2>9, <2>10, TypesLeft
<1>5. CASE Quiet(t)
  <2>1. UNCHANGED <<version, wire, lossy, doubted, overlapped>>
    BY <1>1, <1>5, QuietKeeps DEF I!server
  <2>2. I!Page \in SUBSET I!Stored /\ I!Latest \in 0..I!Latest /\ 0 \in 0..I!Latest
    BY <1>1 DEF I!Page
  <2>3. /\ [items |-> I!Page, listed |-> I!Latest] \in [items : SUBSET I!Stored, listed : 0..I!Latest]
        /\ I!Nothing \in [items : SUBSET I!Stored, listed : 0..I!Latest]
    BY <2>2 DEF I!Nothing
  <2>4. wired' \subseteq Tabs /\ \A u \in Tabs : u \notin wired' => wire'[u] = <<>>
    BY <1>1, <1>5, <2>1 DEF Quiet, I!Connect, I!Navigate, I!Ask, I!Answer, I!FetchFails, I!Load, I!socket
  <2>5. /\ fetch' \in [Tabs -> {"none", "asked", "answered"}]
        /\ snapshot' \in [Tabs -> [items : SUBSET I!Stored, listed : 0..I!Latest]]
    <3>1. fetch' = fetch \/ \E x \in {"none", "asked", "answered"} : fetch' = [fetch EXCEPT ![t] = x]
      BY <1>5
      DEF Quiet, I!Connect, I!Navigate, I!Ask, I!Answer, I!FetchFails, I!Load, I!Settles, I!request
    <3>2. \/ snapshot' = snapshot \/ snapshot' = [snapshot EXCEPT ![t] = I!Nothing]
          \/ snapshot' = [snapshot EXCEPT ![t] = [items |-> I!Page, listed |-> I!Latest]]
      BY <1>5
      DEF Quiet, I!Connect, I!Navigate, I!Ask, I!Answer, I!FetchFails, I!Load, I!Settles, I!request
    <3>3. fetch' \in [Tabs -> {"none", "asked", "answered"}]
      BY <1>1, <3>1
    <3>4. \A x \in [items : SUBSET I!Stored, listed : 0..I!Latest] :
            [snapshot EXCEPT ![t] = x] \in [Tabs -> [items : SUBSET I!Stored, listed : 0..I!Latest]]
      BY <1>1
    <3>5. QED
      BY <1>1, <2>3, <3>2, <3>3, <3>4
  <2>6. /\ cache' \in [Tabs -> SUBSET I!Stored] /\ roomListed' \in [Tabs -> 0..I!Latest]
        /\ missed' \in [Tabs -> SUBSET I!Stored]
    <3>1. CASE I!Load(t)
      <4>1. snapshot[t].items \in SUBSET I!Stored /\ snapshot[t].listed \in 0..I!Latest
        BY <1>1
      <4>2. cache' = [cache EXCEPT ![t] = snapshot[t].items]
            /\ roomListed' = [roomListed EXCEPT ![t] = snapshot[t].listed]
            /\ missed' = [missed EXCEPT ![t] = missed[t] \ snapshot[t].items]
        BY <3>1 DEF I!Load
      <4>3. missed[t] \ snapshot[t].items \in SUBSET I!Stored
        BY <1>1
      <4>4. QED
        BY <1>1, <4>1, <4>2, <4>3
    <3>2. CASE ~I!Load(t)
      <4>1. UNCHANGED <<cache, roomListed, missed>>
        BY <1>5, <3>2 DEF Quiet, I!Connect, I!Navigate, I!Ask, I!Answer, I!FetchFails, I!screen, I!history
      <4>2. QED
        BY <1>1, <4>1
    <3>3. QED
      BY <3>1, <3>2
  <2>7. notified' \in [Tabs -> SUBSET I!Stored]
    BY <1>1, <1>5 DEF Quiet, I!Connect, I!Navigate, I!Ask, I!Answer, I!FetchFails, I!Load, I!screen
  <2>8. QED
    BY <1>1, <2>1, <2>4, <2>5, <2>6, <2>7, TypesLeft
<1>6. QED
  BY <1>3, <1>4, <1>5

LEMMA TypesStep ==
  LiveKnown /\ TypesInv /\ [DeskNext]_deskVars => TypesInv'
<1> SUFFICES ASSUME LiveKnown, TypesInv, [DeskNext]_deskVars
             PROVE  TypesInv'
  OBVIOUS
<1>1. CASE I!Next
  BY <1>1, LiveSteps, TypesStore, TypesPublish, TypesClaim, TypesDies, TypesTab
<1>2. CASE UNCHANGED liveState
  <2>1. UNCHANGED <<version, overlapped, wired, wire, doubted, missed, lossy, I!screen, I!request>>
    BY <1>2 DEF liveState, I!screen, I!request
  <2>2. QED
    BY <2>1, TypesServer DEF TypesInv, LossesOf
<1>3. QED
  BY <1>1, <1>2, OneScene

LEMMA TypesStart == DeskInit => TypesInv
<1> SUFFICES ASSUME DeskInit
             PROVE  TypesInv
  OBVIOUS
<1>1. I!Init
  BY DEF DeskInit
<1>2. I!Stored = {}
  BY <1>1 DEF I!Init, I!Stored
<1>3. I!Latest = 0
  BY <1>2, FS_EmptySet, SameSize DEF I!Latest
<1>4. I!Nothing \in [items : SUBSET I!Stored, listed : 0..I!Latest]
  BY <1>2, <1>3 DEF I!Nothing
<1>5. RanksDiffer
  BY <1>2 DEF RanksDiffer
<1>6. ScreenOf(I!Stored, I!Latest)
  <2>1. /\ cache = [t \in Tabs |-> {}] /\ roomListed = [t \in Tabs |-> 0]
        /\ fetch = [t \in Tabs |-> "asked"] /\ snapshot = [t \in Tabs |-> I!Nothing]
        /\ notified = [t \in Tabs |-> {}]
    BY <1>1 DEF I!Init
  <2>2. 0 \in 0..I!Latest
    BY <1>3
  <2>3. QED
    BY <1>4, <2>1, <2>2 DEF ScreenOf
<1>7. LossesOf(I!Stored) /\ WiresFit
  BY <1>1 DEF I!Init, LossesOf, WiresFit
<1>8. QED
  BY <1>5, <1>6, <1>7 DEF TypesInv

\* Type correctness of the inbox in the browser: no rank is given twice or is of
\* a message to come, and no browser knows of a message that was not stored.
THEOREM LiveTypeCorrect == DeskSpec => []I!TypeOK
<1>1. LiveKnown /\ TypesInv => I!TypeOK
  BY Typed
<1>2. QED
  BY <1>1, KnownStart, KnownStep, TypesStart, TypesStep, PTL DEF DeskSpec
=============================================================================
