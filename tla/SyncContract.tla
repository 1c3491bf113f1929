---------------------------- MODULE SyncContract ----------------------------
(***************************************************************************)
(* What the one-shot subtitle sync promises its user, without threads,     *)
(* locks, generations or transcribers (docs/rest-api.md, PUT and GET       *)
(* /api/subtitle-sync). SubtitleSync implements it.                        *)
(***************************************************************************)
CONSTANTS Files, NoFile

VARIABLES
  attached,  \* the file on screen
  target,    \* the file a live or locked session matched against
  phase,     \* where the session got to; "locked" is synced but not applied
  clock      \* what last moved the SRT position

vars == <<attached, target, phase, clock>>

Init ==
  /\ attached \in Files \cup {NoFile} /\ target = NoFile
  /\ phase = "idle" /\ clock = "start"

\* A session starts for the attached file; an earlier one is forgotten.
Start ==
  /\ attached # NoFile
  /\ target' = attached /\ phase' = "listening"
  /\ UNCHANGED <<attached, clock>>

Lock ==
  /\ phase = "listening" /\ phase' = "locked"
  /\ UNCHANGED <<attached, target, clock>>

Fail ==
  /\ phase \in {"listening", "locked"}
  /\ phase' = "failed" /\ target' = NoFile
  /\ UNCHANGED <<attached, clock>>

\* Whoever cancels leaves no trace of the session. A user may move the clock
\* in the same stroke; a switch changes the file.
Cancel ==
  /\ phase' = "idle" /\ target' = NoFile
  /\ attached' \in Files \cup {NoFile}
  /\ clock' \in {clock, "user"}

\* The one step that lets a session move the SRT clock. An output that died
\* has none to move.
Apply ==
  /\ phase = "locked" /\ target = attached
  /\ phase' = "synced" /\ target' = NoFile
  /\ clock' \in {clock, "sync"}
  /\ UNCHANGED attached

\* A switch completes or is rolled back; nothing listens meanwhile.
Settle ==
  /\ phase = "idle"
  /\ attached' \in {attached} \cup Files \cup {NoFile}
  /\ clock' \in {clock, "start"}
  /\ UNCHANGED <<target, phase>>

Resolve == Lock \/ Fail \/ Apply \/ (phase \in {"listening", "locked"} /\ Cancel)

Next == Start \/ Resolve \/ Cancel \/ Settle

Safety == Init /\ [][Next]_vars

\* Every session is resolved: it is never left listening or unapplied.
Spec == Safety /\ WF_vars(Resolve)
=============================================================================
