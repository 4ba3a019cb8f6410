------------------------------- MODULE Services -------------------------------
(***************************************************************************)
(* Two services beside the pipelines of messages: presence and the templates. *)
(* They have no state in common, so a behaviour plays in one of two scenes,  *)
(* and the states of the scenes add up where their product would say nothing *)
(* more.                                                                   *)
(***************************************************************************)
EXTENDS Presence

CONSTANTS
  Order, PageSize, Shapes, Held, Profile, Asks, Saves, Choices, Sends, Fillings,
  MaxAttempts  \* see Templates

VARIABLES
  meta, table, mapping, sync, ask, save, send, heard, changed, chosen, raced, blamed,
  scene

T == INSTANCE Templates WITH crossed <- raced

ASSUME ServicesAssumption == T!TemplateConstants

presenceState == <<conn, maps, saves, ended, announced, crossed, watcher>>
templateState == <<meta, table, mapping, sync, ask, save, send, heard, changed, chosen, raced,
                   blamed>>
serviceVars == <<presenceState, templateState, left, scene>>

ServicesInit == Init /\ T!Init /\ scene \in {"presence", "templates"}

ServicesNext ==
  /\ UNCHANGED scene
  /\ \/ scene = "presence" /\ Next /\ UNCHANGED templateState
     \/ scene = "templates" /\ T!Next /\ UNCHANGED presenceState

\* The fairness of Presence, and a sync that runs goes on: each of its calls is
\* answered or fails.
ServicesSpec ==
  /\ ServicesInit /\ [][ServicesNext]_serviceVars
  /\ Fairness /\ WF_<<templateState, left>>(T!SyncStep)

\* The properties of the parts, each looked at where its part plays; those of
\* Presence hold everywhere.

\* A clean sync leaves nothing older than itself, see Templates.
SyncedIsRecent == scene = "templates" => T!SyncedIsRecent

\* A mapping that was saved stays, see Templates.
ChosenMappingKept == scene = "templates" => T!ChosenMappingKept

\* A refused message is one whose template was changed, see Templates.
RefusedIsStale == scene = "templates" => T!RefusedIsStale

\* Whoever asks for a sync is answered, see Templates.
SyncAnswers == T!SyncAnswers
=============================================================================
