--------------------------------- MODULE Desk ---------------------------------
(***************************************************************************)
(* What a member of the staff works with: the campaign page, the letters of  *)
(* a campaign, the composer of the inbox, its media and its live lists, and  *)
(* the limiter that his requests pass. They have no state in common, so a    *)
(* behaviour plays in one of the six scenes, and the states of the scenes    *)
(* add up where their product would say nothing more.                       *)
(***************************************************************************)
EXTENDS CampaignPage

CONSTANTS
  Rows, Texts, Rules, Contents,   \* see Letters
  Inbound, Uploads, Allowed, Sizes,  \* see Media
  People, Drafts, Papers,         \* see Composer
  Messages, Instances, Tabs, PageSize,      \* see LiveInbox
  Processes, Limit, Window, Pause, Horizon  \* see RateLimit

VARIABLES
  meta, template, mapping, data, glimpse, job, letters, fate, changed,
  files, stored, mediaUrl, tasks, known, bubble, fetches, objects, made,
  selected, inList, draft, paper, posts, network, mics, recording, prompts, streams,
  ending, arrived, stray,
  version, due, bus, claimed, wired, wire, loaded, cache, roomListed, fetch, snapshot,
  merged, notified, rung, visits, doubted, missed, lossy, overlapped,
  now, required, key, memory, avoid, calls, refused, orphans,
  scene

L == INSTANCE Letters
M == INSTANCE Media
C == INSTANCE Composer
I == INSTANCE LiveInbox WITH listed <- roomListed
R == INSTANCE RateLimit

ASSUME DeskAssumption ==
  /\ L!LettersConstants /\ M!MediaConstants /\ C!ComposerConstants
  /\ I!LiveConstants /\ R!LimitConstants

letterVars == <<meta, template, mapping, data, glimpse, job, letters, fate, changed>>
mediaVars == <<files, stored, mediaUrl, tasks, known, bubble, fetches, objects, made>>
composerVars == <<selected, inList, draft, paper, posts, network, mics, recording, prompts,
                  streams, ending, arrived, stray>>
liveState == <<version, due, bus, claimed, wired, wire, loaded, cache, roomListed, fetch, snapshot,
               merged, notified, rung, visits, doubted, missed, lossy, overlapped>>
limitState == <<now, required, key, memory, avoid, calls, refused, orphans>>
pageState == <<form, listed, mapped, shown, consent, mutation, online, asked>>
deskVars == <<pageState, letterVars, mediaVars, composerVars, liveState, limitState, left, scene>>

\* Where it does not play, a scene starts in one way only.
Still ==
  /\ scene # "letters" =>
       /\ meta = CHOOSE t \in Texts : TRUE
       /\ mapping = [v \in template |-> CHOOSE x \in Rules : TRUE]
       /\ data = [r \in Rows |-> CHOOSE d \in Contents : TRUE]
  /\ scene # "composer" => selected = CHOOSE p \in People : TRUE
  /\ scene # "limits" => required

DeskInit ==
  /\ Init /\ L!LettersInit /\ M!MediaInit /\ C!ComposerInit /\ I!Init /\ R!LimitInit
  /\ scene \in {"campaign", "letters", "media", "composer", "live", "limits"}
  /\ Still

DeskNext ==
  /\ UNCHANGED scene
  /\ \/ scene = "campaign" /\ Next
        /\ UNCHANGED <<letterVars, mediaVars, composerVars, liveState, limitState>>
     \/ scene = "letters" /\ L!LettersNext
        /\ UNCHANGED <<pageState, mediaVars, composerVars, liveState, limitState>>
     \/ scene = "media" /\ M!MediaNext
        /\ UNCHANGED <<pageState, letterVars, composerVars, liveState, limitState>>
     \/ scene = "composer" /\ C!ComposerNext
        /\ UNCHANGED <<pageState, letterVars, mediaVars, liveState, limitState>>
     \/ scene = "live" /\ I!Next
        /\ UNCHANGED <<pageState, letterVars, mediaVars, composerVars, limitState>>
     \/ scene = "limits" /\ R!LimitNext
        /\ UNCHANGED <<pageState, letterVars, mediaVars, composerVars, liveState>>

DeskSpec == DeskInit /\ [][DeskNext]_deskVars

\* The properties of the parts, each looked at where its part plays.

\* A letter that was prepared fits, see Letters.
LettersFit == scene = "letters" => L!LettersFit

\* A row that names a file names a whole one of its message, see Media.
UrlIsWhole == scene = "media" => M!UrlIsWhole

\* A bubble shows its message, and no object URL leaks, see Media.
BubbleIsItsMessage == scene = "media" => M!BubbleIsItsMessage

\* What is sent goes where the page showed it going, see Composer.
SentWhereShown == scene = "composer" => C!SentWhereShown

\* An open microphone is on the page, or about to be closed, see Composer.
MicrophoneClosed == scene = "composer" => C!MicrophoneClosed

\* No microphone is left open behind the page, see Composer.
MicrophoneShown == scene = "composer" => C!MicrophoneShown

\* A browser rings once for a message, see LiveInbox.
RingsOnce == scene = "live" => I!RingsOnce

\* A browser shows each message of its page or has missed it, see LiveInbox.
ShownOrMissed == scene = "live" => I!ShownOrMissed

\* Whoever is refused and waits is let through in the end, see RateLimit.
RefusalEnds == scene = "limits" => R!RefusalEnds
=============================================================================
