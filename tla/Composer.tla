------------------------------- MODULE Composer -------------------------------
(***************************************************************************)
(* The composer of the inbox page: a text and a file that are sent to the    *)
(* conversation that is selected, requests that wait while the browser is    *)
(* offline, and voice notes: the prompt for the microphone, the recorder and *)
(* the stream, whose tracks must be stopped. An action is one callback.      *)
(***************************************************************************)
EXTENDS Naturals, FiniteSets, Sequences

CONSTANTS
  People,   \* customers with a conversation
  Drafts,   \* what may be typed
  Papers,   \* files that may be attached
  Budget    \* how often each event may happen

Empty == "empty"
ComposerEvents == {"step", "trouble"}

\* What the constants have to be.
ComposerConstants ==
  /\ Empty \notin Drafts \union Papers
  /\ \A e \in ComposerEvents : Budget[e] \in Nat

VARIABLES
  selected,  \* selectedCustomerId
  inList,    \* the conversations that the list holds; others have no composer
  draft, paper,
  posts,     \* mutations under way
  network,   \* the browser is online
  mics,      \* per composer that was mounted, the last one present or next: the
             \* streams of streamRef and recorderRef, stopActionRef
  recording, \* the page shows that it records
  prompts,   \* questions for the microphone that are open
  streams,   \* streams of the microphone that are open
  ending,    \* streams whose recorder has stopped and whose stop event is due
  arrived,   \* history: what the server was sent, and what the page showed
  stray,     \* history: streams that no reference of a mounted composer leads to
  left       \* what remains of Budget

voice == <<mics, recording, prompts, streams, ending, stray>>
composerState == <<selected, inList, draft, paper, posts, network, voice, arrived>>

Does(e) == left[e] > 0 /\ left' = [left EXCEPT ![e] = @ - 1]

\* A stream is told by its number and the composer that asked for it.
NoStream == <<0, 0>>
Home(s) == s[2]
Off == [stream |-> NoStream, rec |-> NoStream, action |-> "none", for |-> Empty]
Current == Len(mics)
Mounted == selected \in inList
Pending(kind) == \E p \in posts : p.kind = kind

\* What a mutation sends is read when its function runs: at once, or, if it has
\* to wait for the network, from the last rendering.
Mutate(kind, what, shownTo) ==
  posts' = posts \union {[kind |-> kind, to |-> selected, what |-> what, shownTo |-> shownTo,
                         shown |-> what, at |-> IF network THEN "sent" ELSE "paused"]}

-----------------------------------------------------------------------------
(* The conversation, the text and the file. One draft serves all conversations. *)

\* Without a composer its effects are cleaned up: the timer and the tracks of
\* the stream that streamRef names, whose recorder stops with them. Another
\* composer has references of its own.
Unmounts(s, listed) ==
  IF Mounted /\ s \notin listed
  THEN LET x == mics[Current].stream
       IN /\ streams' = streams \ {x} /\ ending' = ending \union ({x} \intersect streams)
          /\ mics' = Append(mics, Off) /\ recording' = FALSE
          /\ UNCHANGED <<prompts, stray>>
  ELSE UNCHANGED voice

SelectConversation(c) ==
  /\ c \in inList \ {selected} /\ Does("step")
  /\ selected' = c /\ Unmounts(c, inList)
  /\ UNCHANGED <<inList, draft, paper, posts, network, arrived>>

\* A search or a filter, or a refetch, takes conversations from the list.
ListChanges(S) ==
  /\ S # inList /\ Does("step")
  /\ inList' = S /\ Unmounts(selected, S)
  /\ UNCHANGED <<selected, draft, paper, posts, network, arrived>>

Type(x) ==
  /\ Mounted /\ ~recording /\ x # draft /\ Does("step") /\ draft' = x
  /\ UNCHANGED <<selected, inList, paper, posts, network, voice, arrived>>

\* A file is attached outside a recording, and taken off beside it as well.
Attach(f) ==
  /\ Mounted /\ f # paper /\ Does("step")
  /\ f = Empty \/ ~(recording \/ Pending("file") \/ Pending("voice"))
  /\ paper' = f
  /\ UNCHANGED <<selected, inList, draft, posts, network, voice, arrived>>

\* By the button, or by the Enter key, which does not mind an attached file.
SendText ==
  /\ Mounted /\ ~recording /\ draft # Empty /\ ~Pending("text")
  /\ Mutate("text", draft, selected)
  /\ UNCHANGED <<selected, inList, draft, paper, network, voice, arrived, left>>

SendFile ==
  /\ Mounted /\ ~recording /\ paper # Empty /\ ~Pending("file")
  /\ Mutate("file", paper, selected)
  /\ UNCHANGED <<selected, inList, draft, paper, network, voice, arrived, left>>

GoesOffline ==
  /\ network /\ Does("trouble") /\ network' = FALSE
  /\ UNCHANGED <<selected, inList, draft, paper, posts, voice, arrived>>

\* A paused mutation goes on: text and file are those of now; a recording was
\* given to its mutation.
Continued(p) ==
  [p EXCEPT !.at = "sent", !.to = selected,
            !.what = CASE p.kind = "text" -> draft
                       [] p.kind = "file" -> paper
                       [] OTHER -> p.what]

\* Without a file the mutation fails.
GoesOnline ==
  /\ ~network /\ network' = TRUE
  /\ posts' = {p \in posts : p.at = "sent"} \union
               {Continued(p) : p \in {q \in posts : q.at = "paused" /\ (q.kind # "file" \/ paper # Empty)}}
  /\ UNCHANGED <<selected, inList, draft, paper, voice, arrived, left>>

\* The server answers: the draft is cleared, with whatever was typed since.
PostSucceeds(p) ==
  /\ p.at = "sent" /\ posts' = posts \ {p} /\ arrived' = arrived \union {p}
  /\ draft' = IF p.kind = "text" THEN Empty ELSE draft
  /\ paper' = IF p.kind = "file" THEN Empty ELSE paper
  /\ UNCHANGED <<selected, inList, network, voice, left>>

\* The request fails, before or after the server took it.
PostFails(p) ==
  /\ p.at = "sent" /\ Does("trouble") /\ posts' = posts \ {p}
  /\ arrived' \in {arrived, arrived \union {p}}
  /\ UNCHANGED <<selected, inList, draft, paper, network, voice>>

-----------------------------------------------------------------------------
(* Voice notes. *)

\* Numbers for streams, and those that no stream has had.
Numbers == 1..(Budget["step"] + 1)
Known == prompts \union streams \union ending \union stray
         \union UNION {{mics[k].stream, mics[k].rec} : k \in DOMAIN mics}
Unused == {n \in Numbers : \A s \in Known : s[1] # n}

\* The button stays while the prompt is open.
StartRecording(n) ==
  /\ Mounted /\ ~recording /\ draft = Empty /\ paper = Empty
  /\ ~Pending("voice") /\ ~Pending("file") /\ Does("step")
  /\ n \in Unused /\ \A k \in Unused : n <= k
  /\ prompts' = prompts \union {<<n, Current>>}
  /\ UNCHANGED <<selected, inList, draft, paper, posts, network, mics, recording, streams,
                 ending, arrived, stray>>

\* What streamRef named is out of reach when another stream takes its place.
Replaced(k) == {mics[k].stream} \ ({NoStream} \union ending)

\* The stream arrives: the references of the composer that asked are overwritten,
\* the recorder starts, and the page shows it, if it has that composer still.
Granted(s) ==
  /\ s \in prompts /\ prompts' = prompts \ {s}
  /\ streams' = streams \union {s}
  /\ mics' = [mics EXCEPT ![Home(s)] = [Off EXCEPT !.stream = s, !.rec = s]]
  /\ recording' = (recording \/ Home(s) = Current)
  /\ stray' = stray \union Replaced(Home(s)) \union (IF Home(s) = Current THEN {} ELSE {s})
  /\ UNCHANGED <<selected, inList, draft, paper, posts, network, ending, arrived, left>>

\* The prompt is refused; the references are those of an earlier stream, whose
\* tracks are stopped.
Refused(s) ==
  /\ s \in prompts /\ Does("trouble") /\ prompts' = prompts \ {s}
  /\ LET x == mics[Home(s)].stream
     IN streams' = streams \ {x} /\ ending' = ending \union ({x} \intersect streams)
  /\ mics' = [mics EXCEPT ![Home(s)].stream = NoStream]
  /\ recording' = (recording /\ Home(s) # Current)
  /\ UNCHANGED <<selected, inList, draft, paper, posts, network, arrived, stray>>

\* The recorder cannot be made, or not be started. In the one case streamRef is
\* not yet the stream that arrived, which stays open; in the other it is.
NoRecorder(s) ==
  /\ s \in prompts /\ Does("trouble") /\ prompts' = prompts \ {s}
  /\ LET k == Home(s)
         x == mics[k].stream
     IN \/ /\ streams' = (streams \ {x}) \union {s}
           /\ ending' = ending \union ({x} \intersect streams)
           /\ mics' = [mics EXCEPT ![k].stream = NoStream]
           /\ stray' = stray \union {s}
        \/ /\ mics' = [mics EXCEPT ![k] = [Off EXCEPT !.rec = s]]
           /\ stray' = stray \union Replaced(k)
           /\ UNCHANGED <<streams, ending>>
  /\ recording' = (recording /\ Home(s) # Current)
  /\ UNCHANGED <<selected, inList, draft, paper, posts, network, arrived>>

\* A press stops the recorder if it runs. Pressed again before the stop event,
\* it takes the other action and hides the recording.
StopRecorder(action) ==
  /\ Mounted /\ recording
  /\ action = "send" => ~Pending("voice")
  /\ mics' = [mics EXCEPT ![Current].action = action, ![Current].for = selected]
  /\ IF mics[Current].rec \in streams \ ending
     THEN ending' = ending \union {mics[Current].rec} /\ UNCHANGED recording
     ELSE recording' = FALSE /\ UNCHANGED ending
  /\ UNCHANGED <<selected, inList, draft, paper, posts, network, prompts, streams, arrived,
                 stray, left>>

\* The handler of the stop event forgets the references, whatever they name now.
Stopped(s) ==
  LET mic == mics[Home(s)]
  IN /\ s \in ending /\ ending' = ending \ {s}
     /\ IF mic.action = "send" THEN Mutate("voice", "recording", mic.for) ELSE UNCHANGED posts
     /\ mics' = [mics EXCEPT ![Home(s)] = Off]
     /\ recording' = (recording /\ Home(s) # Current)
     /\ stray' = stray \union (Replaced(Home(s)) \ {s})
     /\ UNCHANGED <<selected, inList, draft, paper, network, prompts, arrived, left>>

OnStopKeepsStream(s) ==  \* faulty variant: the tracks of a recording that is sent go on
  /\ Stopped(s)
  /\ streams' = IF mics[Home(s)].action = "send" THEN streams ELSE streams \ {s}

\* The stop event of a recorder, which comes as a task of its own.
OnStop(s) ==
  /\ Stopped(s)
  /\ streams' = streams \ {s}

ComposerInit ==
  /\ inList = People /\ selected \in People
  /\ draft = Empty /\ paper = Empty /\ posts = {} /\ network = TRUE
  /\ mics = <<Off>> /\ recording = FALSE /\ prompts = {} /\ streams = {} /\ ending = {}
  /\ arrived = {} /\ stray = {} /\ left = Budget

ComposerNext ==
  \/ \E c \in People : SelectConversation(c)
  \/ \E S \in SUBSET People : ListChanges(S)
  \/ \E x \in Drafts \union {Empty} : Type(x)
  \/ \E f \in Papers \union {Empty} : Attach(f)
  \/ SendText \/ SendFile \/ GoesOffline \/ GoesOnline
  \/ \E p \in posts : PostSucceeds(p) \/ PostFails(p)
  \/ \E n \in Numbers : StartRecording(n)
  \/ \E s \in prompts : Granted(s) \/ Refused(s) \/ NoRecorder(s)
  \/ \E action \in {"send", "cancel"} : StopRecorder(action)
  \/ \E s \in ending : OnStop(s)

-----------------------------------------------------------------------------
\* What is sent goes to the customer whose conversation was on the page when it
\* was sent, as it was then, whatever is typed, attached or selected until the
\* server answers.
SentWhereShown == \A m \in arrived : m.to = m.shownTo /\ m.what = m.shown

\* The page shows that the stream is recorded.
Visible(s) == Mounted /\ recording /\ s = mics[Current].stream

\* A stream of the microphone that is open is shown on the page, or its stop
\* event is due, however presses, prompts, selections and stop events cross. The
\* streams the code loses hold are those in `stray`: replaced by the stream of a
\* second prompt, granted to a composer that is gone, without a recorder, or
\* forgotten when the stop event of an earlier recorder came after them.
MicrophoneClosed == \A s \in streams \ stray : s \in ending \/ Visible(s)

\* No stream of the microphone is left open behind the page.
MicrophoneShown == \A s \in streams : s \in ending \/ Visible(s)
=============================================================================
