------------------------- MODULE SubtitleClockProofs -------------------------
(***************************************************************************)
(* Proofs about SubtitleClock for any positions, trims, offsets and        *)
(* bounds. What a running switch has saved, and how far it got, decides    *)
(* what its last step restores: IInv adds that to the properties.          *)
(***************************************************************************)
EXTENDS SubtitleClock, TLAPS

\* A switch replaces the output between its first two stages, with no trim.
Stages == /\ switchPc \in {"idle", "construct"} => output # "new"
          /\ switchPc = "construct" => delay = 0
          /\ switchPc \in {"start", "reopened"} => output = "new"

\* Without an output there are no elements, and it has failed.
Bare == output = "none" => ~branch /\ failed

\* What a switch remembers was so when it began.
Memory ==
  switchPc # "idle" =>
    (saved.branch => saved.path) /\ (saved.output = "none" => ~saved.branch)

\* What a switch that has not replaced the output can go back to, and what one
\* that has replaced it finds.
Untouched ==
  /\ switchPc = "construct" \/ (switchPc = "rollback" /\ output = "old") =>
       /\ anchor = saved.anchor /\ paused = saved.paused /\ frozen = saved.frozen
       /\ branch = saved.branch /\ output = saved.output
       /\ ~failed => (branch <=> saved.path)
  /\ switchPc = "rollback" /\ output = "new" => ~branch

\* A candidate that runs: its clock is that of its start.
Candidate ==
  switchPc = "start" =>
    /\ branch <=> path
    /\ delay = 0
    /\ IF path THEN ~paused /\ anchor <= now /\ cueOffset = anchor + delay
               ELSE paused = saved.paused /\ frozen = saved.frozen
    /\ silent <=> path /\ ~visible

\* An output that is opened again is the one from before.
Reopening ==
  /\ switchPc \in {"reopen", "reopened"} => path = saved.path /\ delay = saved.delay
  /\ switchPc = "reopen" => ~branch
  /\ switchPc = "reopened" => (branch <=> path)

\* The elements are those of the file that is selected.
Selected ==
  switchPc = "idle" => (branch => path) /\ (~failed => (branch <=> path))

Agreement ==
  /\ Stages /\ Bare /\ Memory /\ Untouched /\ Candidate /\ Reopening /\ Selected
  /\ CuesFollowClock /\ SilentWhenAsked

IInv == TypeOK /\ Agreement

-----------------------------------------------------------------------------
(* Types. Flags are apart from numbers: each kind has its prover. *)

Flags == {path, paused, visible, branch, silent, failed} \subseteq BOOLEAN

Numbers ==
  /\ now \in Nat
  /\ {anchor, delay, frozen, padOffset, cueOffset} \subseteq Int
  /\ saved \in [path : BOOLEAN, anchor : Int, delay : Int, paused : BOOLEAN,
                frozen : Int, output : {"none", "old"}, branch : BOOLEAN]
  /\ output \in {"none", "old", "new"}
  /\ switchPc \in {"idle", "construct", "start", "rollback", "reopen", "reopened"}

\* A position given in milliseconds, or a time divided into them, is a number.
LEMMA Conversion ==
  ASSUME NEW time \in Int
  PROVE  time * Millisecond \in Int /\ ToMilliseconds(time) \in Int
BY ClockAssumption DEF ToMilliseconds

\* No operation and no step of a switch gives a number another type.
LEMMA NumbersNext == TypeOK /\ Stages /\ [Next]_vars => Numbers'
<1> SUFFICES ASSUME TypeOK, Stages, [Next]_vars PROVE Numbers'
  OBVIOUS
<1> USE ClockAssumption, Conversion DEF TypeOK, Numbers, settings, elements, control
<1>1. CASE Tick
  BY <1>1 DEF Tick
<1>2. ASSUME NEW time \in Seeks, SetSubtitleTime(time) PROVE Numbers'
  BY <1>2 DEF SetSubtitleTime, ApplyTime, Reparse
<1>3. ASSUME NEW theta \in Thetas, ApplyLock(theta) PROVE Numbers'
  BY <1>3 DEF ApplyLock, ApplyTime, Reparse
<1>4. ASSUME NEW time \in Delays, SetSubtitleDelay(time) PROVE Numbers'
  BY <1>4 DEF SetSubtitleDelay, Reparse
<1>5. CASE PauseSubtitles
  BY <1>5 DEF PauseSubtitles, ApplySilent
<1>6. CASE ResumeSubtitles
  BY <1>6 DEF ResumeSubtitles, ResumeAnchor, Reparse, ApplySilent
<1>7. ASSUME NEW show \in BOOLEAN, SetSubtitlesVisible(show) PROVE Numbers'
  BY <1>7 DEF SetSubtitlesVisible, ApplySilent
<1>8. ASSUME NEW attach \in BOOLEAN, BeginSwitch(attach) PROVE Numbers'
  BY <1>8 DEF BeginSwitch, Stages
<1>9. CASE CommitOutput
  BY <1>9 DEF CommitOutput
<1>10. CASE ConstructionFails
  BY <1>10 DEF ConstructionFails
<1>11. CASE SwitchDone
  BY <1>11 DEF SwitchDone, EndSwitch, NothingSaved
<1>12. CASE StartupFails
  BY <1>12 DEF StartupFails, NoOutput
<1>13. CASE CommitFails
  BY <1>13 DEF CommitFails
<1>14. CASE KeepOutput
  BY <1>14 DEF KeepOutput, RestoreSettings, RestoreClock, ApplySilent,
     Reparse, EndSwitch, NothingSaved
<1>15. CASE ReopenOutput
  BY <1>15 DEF ReopenOutput, RestoreSettings
<1>16. CASE Reopened
  BY <1>16 DEF Reopened, RestoreClock, ApplySilent, Reparse, EndSwitch,
     NothingSaved
<1>17. CASE RestoreFails
  BY <1>17 DEF RestoreFails, RestoreSettings, NoOutput, EndSwitch,
     NothingSaved
<1>18. CASE ReopenFails
  BY <1>18 DEF ReopenFails, NoOutput, EndSwitch, NothingSaved
<1>19. CASE RebuildFails
  BY <1>19 DEF RebuildFails, EndSwitch, NothingSaved
<1>20. CASE OutputFails
  BY <1>20 DEF OutputFails
<1>21. CASE UNCHANGED vars
  BY <1>21 DEF vars
<1> QED
  BY <1>1, <1>2, <1>3, <1>4, <1>5, <1>6, <1>7, <1>8, <1>9, <1>10, <1>11,
     <1>12, <1>13, <1>14, <1>15, <1>16, <1>17, <1>18, <1>19, <1>20, <1>21 DEF Next

\* No step gives a flag a value that is not a Boolean.
LEMMA FlagsNext == TypeOK /\ [Next]_vars => Flags'
  BY DEF TypeOK, Flags, Next, vars, settings, elements, control, Tick,
     SetSubtitleTime, ApplyTime, Reparse, ApplyLock, SetSubtitleDelay,
     PauseSubtitles, ApplySilent, ResumeSubtitles, ResumeAnchor,
     SetSubtitlesVisible, BeginSwitch, CommitOutput, ConstructionFails,
     SwitchDone, NothingSaved, StartupFails, NoOutput, CommitFails,
     KeepOutput, RestoreSettings, RestoreClock, EndSwitch, ReopenOutput,
     Reopened, RestoreFails, RebuildFails, ReopenFails, OutputFails

\* The clock starts at rest, with nothing to go back to.
LEMMA InvariantInit == Init => IInv
<1> USE DEF Init, NothingSaved
<1>1. Init => Numbers
  BY DEF Numbers
<1>2. Init => Flags
  BY DEF Flags
<1>3. Init => Selected
  BY DEF Selected
<1>4. Init => Stages /\ Bare /\ Memory /\ Untouched /\ Candidate /\ Reopening
  BY DEF Stages, Bare, Memory, Untouched, Candidate, Reopening
<1>5. Init => CuesFollowClock /\ SilentWhenAsked
  BY DEF CuesFollowClock, SilentWhenAsked
<1> QED
  BY <1>1, <1>2, <1>3, <1>4, <1>5 DEF Numbers, Flags, IInv, TypeOK, Agreement,
     Selected

\* No step lets cues, elements or a switch's memory disagree with the clock.
LEMMA AgreementNext == IInv /\ [Next]_vars => Agreement'
<1> SUFFICES ASSUME IInv, [Next]_vars PROVE Agreement'
  OBVIOUS
<1> USE ClockAssumption, Conversion DEF IInv, TypeOK, Agreement, Stages, Bare, Memory,
     Untouched, Candidate, Reopening, Selected, CuesFollowClock, SilentWhenAsked,
     settings, elements, control
<1>1. CASE Tick
  BY <1>1 DEF Tick
<1>2. ASSUME NEW time \in Seeks, SetSubtitleTime(time) PROVE Agreement'
  BY <1>2 DEF SetSubtitleTime, ApplyTime, Reparse
<1>3. ASSUME NEW theta \in Thetas, ApplyLock(theta) PROVE Agreement'
  BY <1>3 DEF ApplyLock, ApplyTime, Reparse
<1>4. ASSUME NEW time \in Delays, SetSubtitleDelay(time) PROVE Agreement'
  BY <1>4 DEF SetSubtitleDelay, Reparse
<1>5. CASE PauseSubtitles
  BY <1>5 DEF PauseSubtitles, ApplySilent
<1>6. CASE ResumeSubtitles
  BY <1>6 DEF ResumeSubtitles, ResumeAnchor, Reparse, ApplySilent
<1>7. ASSUME NEW show \in BOOLEAN, SetSubtitlesVisible(show) PROVE Agreement'
  BY <1>7 DEF SetSubtitlesVisible, ApplySilent
<1>8. ASSUME NEW attach \in BOOLEAN, BeginSwitch(attach) PROVE Agreement'
  BY <1>8 DEF BeginSwitch
<1>9. CASE CommitOutput
  <2>1. (silent <=> path /\ ~visible)' /\ (branch <=> path)'
    BY <1>9 DEF CommitOutput
  <2>2. output' = "new" /\ UNCHANGED <<path, delay, saved>>
    BY <1>9 DEF CommitOutput
  <2>3. CASE switchPc = "construct"
    <3>1. (IF path THEN ~paused /\ anchor <= now /\ cueOffset = anchor + delay
                   ELSE paused = saved.paused /\ frozen = saved.frozen)'
      BY <1>9, <2>3 DEF CommitOutput
    <3>2. switchPc' = "start" /\ delay' = 0
      BY <1>9, <2>3 DEF CommitOutput
    <3> QED
      BY <2>1, <2>2, <2>3, <3>1, <3>2
  <2>4. CASE switchPc = "reopen"
    <3>1. switchPc' = "reopened"
      BY <1>9, <2>4 DEF CommitOutput
    <3> QED
      BY <2>1, <2>2, <2>4, <3>1
  <2> QED
    BY <1>9, <2>3, <2>4 DEF CommitOutput
<1>10. CASE ConstructionFails
  BY <1>10 DEF ConstructionFails
<1>11. CASE SwitchDone
  BY <1>11 DEF SwitchDone, EndSwitch, NothingSaved
<1>12. CASE StartupFails
  BY <1>12 DEF StartupFails, NoOutput
<1>13. CASE CommitFails
  BY <1>13 DEF CommitFails
<1>14. CASE KeepOutput
  BY <1>14 DEF KeepOutput, RestoreSettings, RestoreClock, ApplySilent,
     Reparse, EndSwitch, NothingSaved
<1>15. CASE ReopenOutput
  BY <1>15 DEF ReopenOutput, RestoreSettings
<1>16. CASE Reopened
  BY <1>16 DEF Reopened, RestoreClock, ApplySilent, Reparse, EndSwitch,
     NothingSaved
<1>17. CASE RestoreFails
  BY <1>17 DEF RestoreFails, RestoreSettings, NoOutput, EndSwitch,
     NothingSaved
<1>18. CASE ReopenFails
  BY <1>18 DEF ReopenFails, NoOutput, EndSwitch, NothingSaved
<1>19. CASE RebuildFails
  BY <1>19 DEF RebuildFails, EndSwitch, NothingSaved
<1>20. CASE OutputFails
  BY <1>20 DEF OutputFails
<1>21. CASE UNCHANGED vars
  BY <1>21 DEF vars
<1> QED
  BY <1>1, <1>2, <1>3, <1>4, <1>5, <1>6, <1>7, <1>8, <1>9, <1>10, <1>11,
     <1>12, <1>13, <1>14, <1>15, <1>16, <1>17, <1>18, <1>19, <1>20, <1>21 DEF Next

\* Cues, elements and switches agree with the clock, for any requests.
THEOREM Invariance == Spec => []IInv
<1>1. IInv /\ [Next]_vars => IInv'
  BY NumbersNext, FlagsNext, AgreementNext
     DEF IInv, TypeOK, Numbers, Flags, Agreement, Selected
<1> QED
  BY InvariantInit, <1>1, PTL DEF Spec

\* Every variable of the clock keeps its type.
THEOREM TypeCorrect == Spec => []TypeOK
  BY Invariance, PTL DEF IInv

\* The cues on screen are those of the position that the API reports, and pause and
\* visibility compose, whichever output came or went.
THEOREM OverlaySound == Spec => []OverlayFollows
<1>1. IInv => OverlayFollows
  BY DEF IInv, Agreement, OverlayFollows
<1> QED
  BY Invariance, <1>1, PTL

-----------------------------------------------------------------------------
(* Refinement. What the user of a switch sees changes only when it ends. *)

\* Division drops less than a millisecond, of negative times too.
LEMMA Rounding ==
  ASSUME NEW time \in Int
  PROVE  ToMilliseconds(time) * Millisecond
           \in (time - Millisecond + 1)..(time + Millisecond - 1)
<1> USE ClockAssumption DEF ToMilliseconds
<1>1. CASE time >= 0
  BY <1>1
<1>2. CASE time < 0
  <2> DEFINE whole == (-time) \div Millisecond
  <2>1. whole \in Int /\ whole * Millisecond \in (-time - Millisecond + 1)..(-time)
    BY <1>2
  <2>2. (-whole) * Millisecond = -(whole * Millisecond)
    BY <2>1
  <2> QED
    BY <1>2, <2>1, <2>2
<1> QED
  BY <1>1, <1>2

\* The clock starts as its user expects.
LEMMA ContractInit == Init => Contract!Init
BY DEF Init, Contract!Init, NothingSaved

\* A seek or a lock lands where it is sent, whether the position is held or runs.
LEMMA Landing ==
  ASSUME TypeOK, NEW time \in Int, switchPc = "idle", ApplyTime(time),
         UNCHANGED <<now, switchPc>>
  PROVE  Contract!Position' = time * Millisecond
<1> DEFINE spot == time * Millisecond
<1>1. spot \in Int
  BY Conversion
<1> HIDE DEF spot
<1>2. UNCHANGED <<delay, paused>>
  BY DEF ApplyTime
<1>3. CASE paused
  <2>1. frozen' = spot
    BY <1>3 DEF ApplyTime, spot
  <2> QED
    BY <1>2, <1>3, <2>1 DEF Contract!Position, spot
<1>4. CASE ~paused
  <2>1. anchor' = now - delay - spot
    BY <1>4 DEF ApplyTime, spot
  <2>2. now - (anchor' + delay) = spot
    BY <1>1, <2>1 DEF TypeOK
  <2> QED
    BY <1>2, <1>4, <2>2 DEF Contract!Position, spot
<1> QED
  BY <1>3, <1>4

\* Every operation is one of its user's, and every switch happens or does not.
LEMMA ContractNext ==
  IInv /\ IInv' /\ [Next]_vars => [Contract!Next]_(Contract!vars)
<1> DEFINE Goal == [Contract!Next]_(Contract!vars)
<1> SUFFICES ASSUME IInv, IInv', [Next]_vars PROVE Goal
  OBVIOUS
<1> USE ClockAssumption, Conversion DEF IInv, TypeOK, Agreement, Stages, Memory,
     Selected, settings, elements, control, Contract!Next, Contract!vars
<1>1. CASE Tick
  <2>1. Contract!Tick
    BY <1>1 DEF Tick, Contract!Tick
  <2> QED
    BY <2>1
<1>2. ASSUME NEW time \in Seeks, SetSubtitleTime(time) PROVE Goal
  <2>1. Contract!Seek
    BY <1>2 DEF SetSubtitleTime, ApplyTime, Reparse, Contract!Seek,
       Contract!Position
  <2> QED
    BY <2>1
<1>3. ASSUME NEW theta \in Thetas, ApplyLock(theta) PROVE Goal
  <2>1. now + theta \in Int
    OBVIOUS
  <2>2. PICK time \in Int : time = ToMilliseconds(now + theta)
    BY <2>1
  <2>3. time * Millisecond
          \in (now + theta - Millisecond + 1)..(now + theta + Millisecond - 1)
    BY <2>1, <2>2, Rounding
  <2>4. /\ switchPc = "idle" /\ branch /\ ApplyTime(time)
        /\ UNCHANGED <<now, switchPc, saved, failed>>
    BY <1>3, <2>2 DEF ApplyLock
  <2>5. Contract!Position' = time * Millisecond
    BY <2>4, Landing
  <2>6. UNCHANGED <<branch, paused, delay>>
    BY <2>4 DEF ApplyTime
  <2>7. Contract!Lock
    BY <2>3, <2>4, <2>5, <2>6 DEF Contract!Lock
  <2> QED
    BY <2>7
<1>4. ASSUME NEW time \in Delays, SetSubtitleDelay(time) PROVE Goal
  <2>1. Contract!Trim
    BY <1>4 DEF SetSubtitleDelay, Reparse, Contract!Trim
  <2> QED
    BY <2>1
<1>5. CASE PauseSubtitles
  <2>1. Contract!Position' = Contract!Position
    BY <1>5 DEF PauseSubtitles, Contract!Position
  <2>2. Contract!Toggle
    BY <1>5, <2>1 DEF PauseSubtitles, Contract!Toggle
  <2> QED
    BY <2>2
<1>6. CASE ResumeSubtitles
  <2>1. Contract!Toggle
    BY <1>6 DEF ResumeSubtitles, ResumeAnchor, Contract!Toggle, Contract!Position
  <2> QED
    BY <2>1
<1>7. ASSUME NEW show \in BOOLEAN, SetSubtitlesVisible(show) PROVE Goal
  BY <1>7 DEF SetSubtitlesVisible
<1>8. ASSUME NEW attach \in BOOLEAN, BeginSwitch(attach) PROVE Goal
  BY <1>8 DEF BeginSwitch
<1>9. CASE CommitOutput
  BY <1>9 DEF CommitOutput
<1>10. CASE ConstructionFails
  BY <1>10 DEF ConstructionFails
<1>11. CASE SwitchDone
  <2>1. CASE path
    <3>1. Contract!Attach
      BY <1>11, <2>1 DEF SwitchDone, EndSwitch, Candidate, Contract!Attach
    <3> QED
      BY <3>1
  <2>2. CASE ~path
    <3>1. Contract!Detach
      BY <1>11, <2>2 DEF SwitchDone, EndSwitch, Candidate, Contract!Detach
    <3> QED
      BY <3>1
  <2> QED
    BY <2>1, <2>2
<1>12. CASE StartupFails
  BY <1>12 DEF StartupFails
<1>13. CASE CommitFails
  BY <1>13 DEF CommitFails
<1>14. CASE KeepOutput
  BY <1>14 DEF KeepOutput, Bare, Untouched, RestoreSettings, RestoreClock, EndSwitch
<1>15. CASE ReopenOutput
  BY <1>15 DEF ReopenOutput, RestoreSettings
<1>16. CASE Reopened
  <2>1. CASE saved.path /\ ~saved.branch
    <3>1. Contract!Reopen
      BY <1>16, <2>1 DEF Reopened, Reopening, RestoreClock, EndSwitch, Contract!Reopen
    <3> QED
      BY <3>1
  <2>2. CASE ~(saved.path /\ ~saved.branch)
    BY <1>16, <2>2 DEF Reopened, Reopening, RestoreClock, EndSwitch
  <2> QED
    BY <2>1, <2>2
<1>17. CASE RestoreFails
  <2>1. Contract!Lose
    BY <1>17 DEF RestoreFails, RestoreSettings, NoOutput, EndSwitch,
       Contract!Lose
  <2> QED
    BY <2>1
<1>18. CASE ReopenFails
  <2>1. Contract!Lose
    BY <1>18 DEF ReopenFails, Reopening, NoOutput, EndSwitch, Contract!Lose
  <2> QED
    BY <2>1
<1>19. CASE RebuildFails
  <2>1. Contract!Lose
    BY <1>19 DEF RebuildFails, Reopening, EndSwitch, Contract!Lose
  <2> QED
    BY <2>1
<1>20. CASE OutputFails
  BY <1>20 DEF OutputFails
<1>21. CASE UNCHANGED vars
  BY <1>21 DEF vars
<1> QED
  BY <1>1, <1>2, <1>3, <1>4, <1>5, <1>6, <1>7, <1>8, <1>9, <1>10, <1>11,
     <1>12, <1>13, <1>14, <1>15, <1>16, <1>17, <1>18, <1>19, <1>20, <1>21 DEF Next

\* A failed switch changes nothing its user sees, and every operation moves the
\* one position as its user expects.
THEOREM Refinement == Spec => ImplementsContract
<1>1. Spec => [][Contract!Next]_(Contract!vars)
  BY Invariance, ContractNext, PTL DEF Spec
<1> QED
  BY <1>1, ContractInit, PTL DEF Spec, ImplementsContract, Contract!Spec

=============================================================================
