---------------------------- MODULE SubtitleClock ----------------------------
(***************************************************************************)
(* The SRT position of stream/stream.cpp: cue time t renders at            *)
(* anchor + delay + t, through a pad offset that reaches only cues parsed  *)
(* after it changed. Seeks, trims, pauses and sync locks recombine anchor, *)
(* delay and frozen position; a switch of the file replaces the elements   *)
(* they act on, and rolls all of it back when it fails.                    *)
(*                                                                         *)
(* Everything here runs under mutex_, on the io thread or, for a sync      *)
(* lock, on main. A switch holds it across blocking work, while time goes  *)
(* on; every other operation is one step. Times are in nanoseconds; users  *)
(* speak milliseconds.                                                     *)
(***************************************************************************)
EXTENDS Integers

CONSTANTS
  Millisecond,  \* GST_MSECOND
  Seeks,        \* positions users ask for, in milliseconds
  Delays,       \* trims users ask for, in milliseconds
  Thetas,       \* offsets a sync locks at, in nanoseconds
  MaxTime,      \* bound: the running time stops here
  MaxAnchor     \* bound: no resume moves the anchor further

ASSUME ClockAssumption ==
  /\ Millisecond \in Nat \ {0} /\ {MaxTime, MaxAnchor} \subseteq Nat
  /\ Seeks \subseteq Int /\ Delays \subseteq Int /\ Thetas \subseteq Int

VARIABLES
  now,                     \* MasterRunningTime()
  path,                    \* subtitle_path_ is set
  anchor, delay,           \* subtitle_anchor_, subtitle_delay_
  paused, frozen,          \* subtitle_frozen_: has_value(), and the value
  visible,                 \* subtitles_visible_
  branch,                  \* overlay, parser and source exist
  silent, padOffset,       \* the overlay's and the parser's properties
  cueOffset,               \* the offset of the cues that wait in the overlay
  switchPc, saved,         \* SetSubtitleFile, and what it restores
  output,                  \* output_pipeline_: none, old, or new in this switch
  failed                   \* output_failed_

settings == <<path, anchor, delay, paused, frozen, visible>>
elements == <<branch, silent, padOffset, cueOffset>>
control  == <<switchPc, saved, output, failed>>
vars     == <<now, settings, elements, control>>

\* The field branch is for the properties: whether the elements were there.
NothingSaved == [path |-> FALSE, anchor |-> 0, delay |-> 0, paused |-> FALSE,
                 frozen |-> 0, output |-> "none", branch |-> FALSE]

Init ==
  /\ now = 0 /\ path \in BOOLEAN /\ anchor = 0 /\ delay = 0
  /\ paused = FALSE /\ frozen = 0 /\ visible = TRUE
  /\ branch = path /\ silent = FALSE /\ padOffset = 0 /\ cueOffset = 0
  /\ switchPc = "idle" /\ saved = NothingSaved /\ output = "old"
  /\ failed = FALSE

Position == IF paused THEN frozen ELSE now - anchor - delay

-----------------------------------------------------------------------------
(* What the operations share. Definitions whose name ends in a _Word are       *)
(* faults: each stands for a plausible bug in the definition it precedes, and  *)
(* shows that a property would notice it.                                      *)

\* ApplySubtitleSilent
ApplySilent == silent' = IF branch' THEN paused' \/ ~visible' ELSE silent

\* ReparseSubtitles: the new offset, and a seek that emits every cue again.
Reparse_OffsetOnly ==
  /\ padOffset' = IF branch THEN anchor' + delay' ELSE padOffset
  /\ UNCHANGED cueOffset
Reparse ==
  IF branch THEN padOffset' = anchor' + delay' /\ cueOffset' = padOffset'
            ELSE UNCHANGED <<padOffset, cueOffset>>

\* C++ division, which drops the fraction of negative numbers too.
ToMilliseconds(time) ==
  IF time >= 0 THEN time \div Millisecond ELSE -((-time) \div Millisecond)

\* ApplySubtitleTimeLocked
ApplyTime(time) ==
  /\ UNCHANGED <<path, delay, paused, visible, branch, silent>>
  /\ IF paused
     THEN frozen' = time * Millisecond /\ UNCHANGED <<anchor, padOffset, cueOffset>>
     ELSE /\ anchor' = now - delay - time * Millisecond /\ UNCHANGED frozen
          /\ Reparse

-----------------------------------------------------------------------------
(* The operations, while no switch holds mutex_. *)

Tick ==
  /\ now < MaxTime /\ now' = now + 1
  /\ UNCHANGED <<settings, elements, control>>

\* Without a branch there is no position to move.
SetSubtitleTime(time) ==
  /\ switchPc = "idle" /\ branch
  /\ ApplyTime(time)
  /\ UNCHANGED <<now, control>>

\* Poll applies a lock: the position is that of the moment, not of the lock.
ApplyLock(theta) ==
  /\ switchPc = "idle" /\ branch
  /\ ApplyTime(ToMilliseconds(now + theta))
  /\ UNCHANGED <<now, control>>

\* While paused the trim waits for the resume; without a branch, for nothing.
SetSubtitleDelay(time) ==
  /\ switchPc = "idle"
  /\ delay' = time * Millisecond
  /\ UNCHANGED <<path, anchor, paused, frozen, visible, branch, silent>>
  /\ IF paused THEN UNCHANGED <<padOffset, cueOffset>> ELSE Reparse
  /\ UNCHANGED <<now, control>>

PauseSubtitles ==
  /\ switchPc = "idle" /\ branch /\ ~paused
  /\ paused' = TRUE /\ frozen' = now - anchor - delay
  /\ UNCHANGED <<path, anchor, delay, visible, branch, padOffset, cueOffset>>
  /\ ApplySilent
  /\ UNCHANGED <<now, control>>

\* Resuming moves the anchor, by the trim of now.
ResumeAnchor_Kept == anchor
ResumeAnchor == now - delay - frozen

ResumeSubtitles ==
  /\ switchPc = "idle" /\ branch /\ paused
  /\ ResumeAnchor \in -MaxAnchor..MaxAnchor
  /\ paused' = FALSE /\ frozen' = 0 /\ anchor' = ResumeAnchor
  /\ UNCHANGED <<path, delay, visible, branch>>
  /\ Reparse /\ ApplySilent
  /\ UNCHANGED <<now, control>>

SetSubtitlesVisible(show) ==
  /\ switchPc = "idle"
  /\ visible' = show
  /\ UNCHANGED <<path, anchor, delay, paused, frozen, branch, padOffset, cueOffset>>
  /\ ApplySilent
  /\ UNCHANGED <<now, control>>

-----------------------------------------------------------------------------
(* SetSubtitleFile, which holds mutex_ all the way. *)

BeginSwitch(attach) ==
  /\ switchPc = "idle"
  /\ saved' = [path |-> path, anchor |-> anchor, delay |-> delay, paused |-> paused,
               frozen |-> frozen, output |-> output, branch |-> branch]
  /\ path' = attach /\ delay' = 0
  /\ switchPc' = "construct"
  /\ UNCHANGED <<now, anchor, paused, frozen, visible, elements, output, failed>>

\* StartOutputLocked, its commit: the old output is down. With an SRT, its
\* position starts here, and no pause survives.
CommitOutput ==
  /\ switchPc \in {"construct", "reopen"}
  /\ branch' = path /\ output' = "new" /\ failed' = FALSE
  /\ UNCHANGED <<path, delay, visible>>
  /\ IF path
     THEN /\ anchor' = now /\ paused' = FALSE /\ frozen' = 0
          /\ padOffset' = anchor' + delay /\ cueOffset' = padOffset'
     ELSE UNCHANGED <<anchor, paused, frozen>> /\ padOffset' = 0 /\ cueOffset' = 0
  /\ silent' = (path /\ ~visible)
  /\ switchPc' = IF switchPc = "construct" THEN "start" ELSE "reopened"
  /\ UNCHANGED <<now, saved>>

\* The candidate cannot be built: nothing has changed yet.
ConstructionFails ==
  /\ switchPc = "construct"
  /\ switchPc' = "rollback"
  /\ UNCHANGED <<now, settings, elements, saved, output, failed>>

EndSwitch == switchPc' = "idle" /\ saved' = NothingSaved

SwitchDone ==
  /\ switchPc = "start"
  /\ EndSwitch /\ output' = "old"
  /\ UNCHANGED <<now, settings, elements, failed>>

\* StopOutputPipeline
NoOutput ==
  /\ output' = "none"
  /\ branch' = FALSE /\ silent' = FALSE /\ padOffset' = 0 /\ cueOffset' = 0

\* The candidate does not start, and is taken down again.
StartupFails ==
  /\ switchPc = "start"
  /\ NoOutput /\ failed' = TRUE
  /\ switchPc' = "rollback"
  /\ UNCHANGED <<now, settings, saved>>

\* The candidate runs, but the file it detached cannot be removed.
CommitFails ==
  /\ switchPc = "start" /\ ~path
  /\ switchPc' = "rollback"
  /\ UNCHANGED <<now, settings, elements, saved, output, failed>>

\* Whatever happened, path and delay are those from before.
RestoreSettings == path' = saved.path /\ delay' = saved.delay

RestoreClock ==
  /\ anchor' = saved.anchor /\ paused' = saved.paused /\ frozen' = saved.frozen
  /\ UNCHANGED <<visible, branch>>
  /\ ApplySilent /\ Reparse

\* The output is the one from before, or missing as before: its clock goes on.
KeepOutput ==
  /\ switchPc = "rollback" /\ output = saved.output
  /\ RestoreSettings /\ RestoreClock
  /\ EndSwitch /\ UNCHANGED <<now, output, failed>>

ReopenOutput ==
  /\ switchPc = "rollback" /\ output # saved.output
  /\ RestoreSettings /\ switchPc' = "reopen"
  /\ UNCHANGED <<now, anchor, paused, frozen, visible, elements, saved, output,
                 failed>>

\* It runs again: its clock goes on as if it had never stopped.
Reopened ==
  /\ switchPc = "reopened"
  /\ UNCHANGED <<path, delay>> /\ RestoreClock
  /\ EndSwitch /\ output' = "old"
  /\ UNCHANGED <<now, failed>>

\* An upload that replaced a file cannot bring its old bytes back.
RestoreFails ==
  /\ switchPc = "rollback" /\ path
  /\ RestoreSettings /\ NoOutput /\ failed' = TRUE
  /\ EndSwitch
  /\ UNCHANGED <<now, anchor, paused, frozen, visible>>

\* The previous output cannot be built: what ran instead, if anything, remains.
RebuildFails ==
  /\ switchPc = "reopen"
  /\ failed' = TRUE
  /\ EndSwitch /\ output' = IF output = "none" THEN "none" ELSE "old"
  /\ UNCHANGED <<now, settings, elements>>

\* The previous output does not start again.
ReopenFails ==
  /\ switchPc = "reopened"
  /\ NoOutput /\ failed' = TRUE
  /\ EndSwitch
  /\ UNCHANGED <<now, settings>>

\* Poll finds the output dead, or an unusable upload cannot be undone: the process
\* is about to end, but not before the requests that wait for mutex_.
OutputFails ==
  /\ switchPc = "idle"
  /\ failed' = TRUE
  /\ UNCHANGED <<now, settings, elements, switchPc, saved, output>>

Next ==
  \/ Tick
  \/ \E time \in Seeks : SetSubtitleTime(time)
  \/ \E theta \in Thetas : ApplyLock(theta)
  \/ \E time \in Delays : SetSubtitleDelay(time)
  \/ PauseSubtitles \/ ResumeSubtitles
  \/ \E show \in BOOLEAN : SetSubtitlesVisible(show)
  \/ \E attach \in BOOLEAN : BeginSwitch(attach)
  \/ CommitOutput \/ ConstructionFails \/ SwitchDone \/ StartupFails \/ CommitFails
  \/ KeepOutput \/ ReopenOutput \/ Reopened
  \/ RestoreFails \/ RebuildFails \/ ReopenFails \/ OutputFails

Spec == Init /\ [][Next]_vars

-----------------------------------------------------------------------------
(* Properties. *)

\* Every variable keeps its type, and the elements are there for the file that is
\* selected, unless the output has failed.
TypeOK ==
  /\ now \in Nat
  /\ {anchor, delay, frozen, padOffset, cueOffset} \subseteq Int
  /\ {path, paused, visible, branch, silent, failed} \subseteq BOOLEAN
  /\ saved \in [path : BOOLEAN, anchor : Int, delay : Int, paused : BOOLEAN,
                frozen : Int, output : {"none", "old"}, branch : BOOLEAN]
  /\ output \in {"none", "old", "new"}
  /\ switchPc \in {"idle", "construct", "start", "rollback", "reopen", "reopened"}
  /\ switchPc = "idle" => (branch => path) /\ (~failed => (branch <=> path))

\* Cue time t is drawn at anchor + delay + t.
CuesFollowClock ==
  branch /\ ~paused /\ switchPc = "idle" => cueOffset = anchor + delay

\* Subtitles are drawn when neither pause nor visibility forbids it.
SilentWhenAsked == branch /\ switchPc = "idle" => (silent <=> paused \/ ~visible)

\* The overlay follows the clock and the switches of its user, whatever moved anchor,
\* trim, pause or visibility last, also in an output that was started or reopened
\* meanwhile (ReparseSubtitles, ApplySubtitleSilent).
OverlayFollows == CuesFollowClock /\ SilentWhenAsked

\* A switch that fails leaves position, trim, pause and visibility as they would be
\* without it; every other operation moves the one position or holds it, as its
\* user expects.
Contract == INSTANCE ClockContract WITH
  Positions <- {time * Millisecond : time \in Seeks},
  attached <- IF switchPc = "idle" THEN branch ELSE saved.branch,
  paused   <- IF switchPc = "idle" THEN paused ELSE saved.paused,
  clock    <- IF switchPc = "idle"
              THEN IF paused THEN frozen ELSE anchor + delay
              ELSE IF saved.paused THEN saved.frozen ELSE saved.anchor + saved.delay,
  trim     <- IF switchPc = "idle" THEN delay ELSE saved.delay

ImplementsContract == Contract!Spec
=============================================================================
