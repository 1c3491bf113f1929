------------------------- MODULE SubtitleSyncProofs -------------------------
(***************************************************************************)
(* Proofs about SubtitleSync for any files, models, listening window and   *)
(* bound. The state invariants of the module are not inductive: what a     *)
(* hook or the whisper thread still holds in its locals decides what its   *)
(* next step does. IInv adds that.                                         *)
(*                                                                         *)
(* The last part is about the matcher that a session feeds (SyncMatcher),  *)
(* for any scripts, thresholds and latenesses.                             *)
(***************************************************************************)
EXTENDS SubtitleSync, SyncMatcher, FiniteSetTheorems, SequenceTheorems, TLAPS

\* Who holds a mutex is where its holder is.
LocksHeld ==
  /\ mutex = "io" <=> ioPc \in {"rebuild", "model", "commit"}
  /\ mutex = "main" <=> mainPc \in {"join", "drop", "sync", "tidy"}
  /\ whisperMutex = "io" <=> ioPc \in {"commit", "apply"}

\* The continuous demand that ApplyWhisper will leave.
WillContinue == IF ioEnabled = "keep" THEN continuous ELSE ioEnabled = "on"

\* What the locals of a running hook promise about the shared state.
HookLocals ==
  /\ ioPc = "rebuild" => ~Listening /\ syncStatus = "idle"
  /\ ioPc \in {"model", "commit"} =>
       subtitlePath # NoFile /\ captureState = "capturing"
  /\ ioPc = "commit" =>
       /\ ioTranscriber # NoTranscriber
       /\ IF transcriber = NoTranscriber THEN ioTranscriber.model = ioSelected
                                         ELSE ioTranscriber = transcriber
  /\ ioPc = "apply" =>
       /\ WillContinue => /\ ioTranscriber # NoTranscriber
                          /\ ioTranscriber.model = ioSelected
       /\ transcriber # NoTranscriber /\ ioSelected = modelPath
            => ioTranscriber = transcriber

\* A generation the whisper thread took that is still current was taken in the
\* session that is live now.
TagCurrent ==
  whisperPc \in {"tagged", "push", "feed"} /\ Listening /\ seenGeneration = generation
    => seenStart = starts

\* Once main has joined the whisper thread, the capture is down.
Teardown == mainPc = "drop" => captureState = "stopped"

\* The threads' views agree with each other and with what the module promises.
Agreement ==
  /\ LocksHeld /\ HookLocals /\ Teardown /\ TagCurrent
  /\ TapServesDemand /\ ModelNamesTranscriber
  /\ SessionWellFormed /\ LastActionWins /\ SyncedIsApplied

IInv == TypeOK /\ Agreement

-----------------------------------------------------------------------------
(* Types. Flags are apart from the other values: each kind has its prover. *)

Values == ControlTypes /\ StatusTypes /\ FileTypes /\ ModelTypes /\ NumberTypes

\* The threads start with values of their types.
LEMMA TypeInit == Init => TypeOK
<1> USE SyncAssumption, FeedAssumption DEF Init, NoTranscriber, Transcribers
<1>1. Init => ControlTypes /\ StatusTypes
  BY DEF ControlTypes, StatusTypes
<1>2. Init => FlagTypes
  BY DEF FlagTypes
<1>3. Init => FileTypes /\ ModelTypes
  BY DEF FileTypes, ModelTypes
<1>4. Init => NumberTypes
  BY DEF NumberTypes
<1> QED
  BY <1>1, <1>2, <1>3, <1>4 DEF TypeOK

\* No step gives a flag a value that is not a Boolean.
LEMMA FlagsNext == TypeOK /\ [Next]_vars => FlagTypes'
  BY DEF TypeOK, FlagTypes, Next, IoCalls, IoReturns, Whisper, Main, vars,
     locks, main, io, whisper, capture, subtitles, tap, session,
     RejectSubtitleFile, SwitchSubtitleFile, SetSubtitleTime,
     RequestSync, PrepareWhisper, ClearWhisperModel, SwitchDone,
     SwitchRolledBack, SwitchFailed, SyncModel, SyncModelUnavailable,
     StartSession, ApplyWhisper, PullSample, LoadGeneration,
     LoadTranscriber, Infer, FeedSession, DropEvidence,
     WhisperExits, CheckLoop, PollCapture, CaptureJoined, CaptureDropped,
     PollSync, PollRelease, BeginStop, CaptureEnds, Tick,
     CancelSync, CaptureEndsSession, DisableWhisper, EndSession,
     EvidenceCurrent, Expired, FeedReady, IoReturn, KeepSession,
     MayApply, MayLock, ModelAfterStart, NewTranscriber, NextGeneration,
     ReleaseUnusedWhisper, ToggleEndsSession

\* No step gives another variable a value that is not of its type; NextGeneration
\* only grows, so the whisper thread's tag stays a generation of the past.
LEMMA ValuesNext == TypeOK /\ [Next]_vars => Values'
<1> SUFFICES ASSUME TypeOK, [Next]_vars PROVE Values'
  OBVIOUS
<1> USE SyncAssumption, FeedAssumption
    DEF Values, TypeOK, ControlTypes, StatusTypes, FlagTypes, FileTypes,
    ModelTypes, NumberTypes, Transcribers, NoTranscriber, Listening,
    locks, main, io, whisper, capture, subtitles, tap, session
<1>1. CASE RejectSubtitleFile
  BY <1>1 DEF RejectSubtitleFile
<1>2. ASSUME NEW path \in Files \cup {NoFile},
             SwitchSubtitleFile(path)
      PROVE Values'
  BY <1>2 DEF SwitchSubtitleFile, CancelSync, EndSession, NextGeneration
<1>3. CASE SetSubtitleTime
  BY <1>3 DEF SetSubtitleTime, CancelSync, EndSession, NextGeneration
<1>4. ASSUME NEW model \in Models \cup {NoModel},
             RequestSync(model)
      PROVE Values'
  BY <1>4 DEF RequestSync
<1>5. ASSUME NEW enabled \in {"on", "off", "keep"},
             NEW model \in Models \cup {NoModel},
             PrepareWhisper(enabled, model)
      PROVE Values'
  BY <1>5 DEF PrepareWhisper, NewTranscriber
<1>6. CASE ClearWhisperModel
  BY <1>6 DEF ClearWhisperModel
<1>7. CASE SwitchDone
  BY <1>7 DEF SwitchDone, IoReturn
<1>8. CASE SwitchRolledBack
  BY <1>8 DEF SwitchRolledBack, IoReturn
<1>9. CASE SwitchFailed
  BY <1>9 DEF SwitchFailed, IoReturn
<1>10. CASE SyncModel
  BY <1>10 DEF SyncModel, NewTranscriber
<1>11. CASE SyncModelUnavailable
  BY <1>11 DEF SyncModelUnavailable, IoReturn
<1>12. CASE StartSession
  BY <1>12 DEF StartSession, IoReturn, NextGeneration, ModelAfterStart
<1>13. CASE ApplyWhisper
  BY <1>13 DEF ApplyWhisper, IoReturn, MayApply, ToggleEndsSession,
     EndSession, NextGeneration, DisableWhisper
<1>14. CASE PullSample
  BY <1>14 DEF PullSample
<1>15. CASE LoadGeneration
  BY <1>15 DEF LoadGeneration
<1>16. CASE LoadTranscriber
  BY <1>16 DEF LoadTranscriber
<1>17. CASE Infer
  BY <1>17 DEF Infer
<1>18. CASE FeedSession
  BY <1>18 DEF FeedSession, FeedReady, EvidenceCurrent, Expired, MayLock,
     EndSession, NextGeneration
<1>19. CASE DropEvidence
  BY <1>19 DEF DropEvidence, FeedReady, EvidenceCurrent
<1>20. CASE WhisperExits
  BY <1>20 DEF WhisperExits
<1>21. CASE CheckLoop
  BY <1>21 DEF CheckLoop
<1>22. CASE PollCapture
  BY <1>22 DEF PollCapture
<1>23. CASE CaptureJoined
  BY <1>23 DEF CaptureJoined, CaptureEndsSession, EndSession, NextGeneration
<1>24. CASE CaptureDropped
  BY <1>24 DEF CaptureDropped, ReleaseUnusedWhisper, DisableWhisper
<1>25. CASE PollSync
  BY <1>25 DEF PollSync, Expired, EndSession, KeepSession, NextGeneration
<1>26. CASE PollRelease
  BY <1>26 DEF PollRelease, ReleaseUnusedWhisper, DisableWhisper
<1>27. CASE BeginStop
  BY <1>27 DEF BeginStop
<1>28. CASE CaptureEnds
  BY <1>28 DEF CaptureEnds
<1>29. CASE Tick
  BY <1>29 DEF Tick
<1>30. CASE UNCHANGED vars
  BY <1>30 DEF vars
<1> QED
  BY <1>1, <1>2, <1>3, <1>4, <1>5, <1>6, <1>7, <1>8, <1>9, <1>10, <1>11,
     <1>12, <1>13, <1>14, <1>15, <1>16, <1>17, <1>18, <1>19, <1>20,
     <1>21, <1>22, <1>23, <1>24, <1>25, <1>26, <1>27, <1>28, <1>29, <1>30
     DEF Next, IoCalls, IoReturns, Whisper, Main

\* Every variable keeps its type, for any files, models and bounds.
THEOREM TypeCorrect == Spec => []TypeOK
<1>1. TypeOK /\ [Next]_vars => TypeOK'
  BY FlagsNext, ValuesNext DEF TypeOK, Values
<1> QED
  BY TypeInit, <1>1, PTL DEF Spec

-----------------------------------------------------------------------------
(* The inductive invariant. *)

\* Nobody holds a mutex, a demand or a session at the start.
LEMMA InvariantInit == Init => IInv
<1>1. Init => LocksHeld /\ HookLocals /\ Teardown /\ TagCurrent
  BY DEF Init, LocksHeld, HookLocals, Teardown, TagCurrent, Listening
<1>2. Init => TapServesDemand /\ ModelNamesTranscriber
  BY DEF Init, TapServesDemand, ModelNamesTranscriber, Wanted
<1>3. Init => SessionWellFormed /\ LastActionWins /\ SyncedIsApplied
  BY DEF Init, SessionWellFormed, LastActionWins, SyncedIsApplied, Listening
<1> QED
  BY TypeInit, <1>1, <1>2, <1>3 DEF IInv, Agreement

\* No step of a hook, of RunWhisper or of Poll breaks the agreement.
LEMMA AgreementNext == IInv /\ [Next]_vars => Agreement'
<1> SUFFICES ASSUME IInv, [Next]_vars PROVE Agreement'
  OBVIOUS
<1> USE SyncAssumption, FeedAssumption
    DEF IInv, Agreement, LocksHeld, HookLocals, Teardown, TagCurrent,
    TapServesDemand, ModelNamesTranscriber, SessionWellFormed, LastActionWins,
    SyncedIsApplied, WillContinue, Wanted, Listening, Transcribers,
    NoTranscriber,
    TypeOK, ControlTypes, StatusTypes, FlagTypes, FileTypes, ModelTypes,
    NumberTypes,
    locks, main, io, whisper, capture, subtitles, tap, session
<1>1. CASE RejectSubtitleFile
  BY <1>1 DEF RejectSubtitleFile
<1>2. ASSUME NEW path \in Files \cup {NoFile},
             SwitchSubtitleFile(path)
      PROVE Agreement'
  BY <1>2 DEF SwitchSubtitleFile, CancelSync, EndSession, NextGeneration
<1>3. CASE SetSubtitleTime
  BY <1>3 DEF SetSubtitleTime, CancelSync, EndSession, NextGeneration
<1>4. ASSUME NEW model \in Models \cup {NoModel},
             RequestSync(model)
      PROVE Agreement'
  BY <1>4 DEF RequestSync
<1>5. ASSUME NEW enabled \in {"on", "off", "keep"},
             NEW model \in Models \cup {NoModel},
             PrepareWhisper(enabled, model)
      PROVE Agreement'
  BY <1>5 DEF PrepareWhisper, NewTranscriber
<1>6. CASE ClearWhisperModel
  BY <1>6 DEF ClearWhisperModel
<1>7. CASE SwitchDone
  BY <1>7 DEF SwitchDone, IoReturn
<1>8. CASE SwitchRolledBack
  BY <1>8 DEF SwitchRolledBack, IoReturn
<1>9. CASE SwitchFailed
  BY <1>9 DEF SwitchFailed, IoReturn
<1>10. CASE SyncModel
  BY <1>10 DEF SyncModel, NewTranscriber
<1>11. CASE SyncModelUnavailable
  BY <1>11 DEF SyncModelUnavailable, IoReturn
<1>12. CASE StartSession
  BY <1>12 DEF StartSession, IoReturn, NextGeneration, ModelAfterStart
<1>13. CASE ApplyWhisper
  BY <1>13 DEF ApplyWhisper, IoReturn, MayApply, ToggleEndsSession,
     EndSession, NextGeneration, DisableWhisper
<1>14. CASE PullSample
  BY <1>14 DEF PullSample
<1>15. CASE LoadGeneration
  BY <1>15 DEF LoadGeneration
<1>16. CASE LoadTranscriber
  BY <1>16 DEF LoadTranscriber
<1>17. CASE Infer
  BY <1>17 DEF Infer
<1>18. CASE FeedSession
  BY <1>18 DEF FeedSession, FeedReady, EvidenceCurrent, Expired, MayLock,
     EndSession, NextGeneration
<1>19. CASE DropEvidence
  BY <1>19 DEF DropEvidence, FeedReady, EvidenceCurrent
<1>20. CASE WhisperExits
  BY <1>20 DEF WhisperExits
<1>21. CASE CheckLoop
  BY <1>21 DEF CheckLoop
<1>22. CASE PollCapture
  BY <1>22 DEF PollCapture
<1>23. CASE CaptureJoined
  BY <1>23 DEF CaptureJoined, CaptureEndsSession, EndSession, NextGeneration
<1>24. CASE CaptureDropped
  BY <1>24 DEF CaptureDropped, ReleaseUnusedWhisper, DisableWhisper
<1>25. CASE PollSync
  BY <1>25 DEF PollSync, Expired, EndSession, KeepSession, NextGeneration
<1>26. CASE PollRelease
  BY <1>26 DEF PollRelease, ReleaseUnusedWhisper, DisableWhisper
<1>27. CASE BeginStop
  BY <1>27 DEF BeginStop
<1>28. CASE CaptureEnds
  BY <1>28 DEF CaptureEnds
<1>29. CASE Tick
  BY <1>29 DEF Tick
<1>30. CASE UNCHANGED vars
  BY <1>30 DEF vars
<1> QED
  BY <1>1, <1>2, <1>3, <1>4, <1>5, <1>6, <1>7, <1>8, <1>9, <1>10, <1>11,
     <1>12, <1>13, <1>14, <1>15, <1>16, <1>17, <1>18, <1>19, <1>20,
     <1>21, <1>22, <1>23, <1>24, <1>25, <1>26, <1>27, <1>28, <1>29, <1>30
     DEF Next, IoCalls, IoReturns, Whisper, Main

\* The inductive invariant holds in every state of every execution.
THEOREM Invariance == Spec => []IInv
<1>1. IInv /\ [Next]_vars => IInv'
  BY FlagsNext, ValuesNext, AgreementNext DEF IInv, TypeOK, Values, Agreement
<1> QED
  BY InvariantInit, <1>1, PTL DEF Spec

-----------------------------------------------------------------------------
(* What follows from it. *)

\* What the threads wait for: main for mutex_, for the whisper thread it joins, or for
\* whisper_mutex_; a hook that has begun for whisper_mutex_; the whisper thread for a
\* sample, but not when it is told to stop. The guards of their steps say so.
MainMoves ==
  \/ mainPc \in {"loop", "poll", "stop"} /\ mutex = "free"
  \/ mainPc = "join" /\ whisperPc = "off"
  \/ mainPc \in {"drop", "tidy"} /\ whisperMutex = "free"
  \/ mainPc = "sync"
HookMoves == ioPc # "idle" /\ (ioPc = "model" => whisperMutex = "free")
WhisperMoves ==
  \/ whisperPc \in {"sampled", "tagged", "push"} \/ FeedReady
  \/ whisperPc = "loop" /\ mainPc = "join"

\* Nobody waits in a circle, though main joins the whisper thread under mutex_ and
\* hooks hold two mutexes: a hook that has begun never waits, and main waits only for
\* a hook or for a whisper thread that moves.
THEOREM NoCircle ==
  Spec => []/\ ioPc # "idle" => HookMoves
            /\ mainPc # "done" => MainMoves \/ HookMoves \/ WhisperMoves
<1> DEFINE Moves == /\ ioPc # "idle" => HookMoves
                    /\ mainPc # "done" => MainMoves \/ HookMoves \/ WhisperMoves
<1>1. IInv => Moves
  <2> SUFFICES ASSUME IInv PROVE Moves
    OBVIOUS
  <2>1. LocksHeld /\ ControlTypes
    BY DEF IInv, Agreement, TypeOK
  <2>2. ioPc # "idle" => HookMoves
    BY <2>1 DEF HookMoves, LocksHeld, ControlTypes
  <2>3. CASE mainPc \in {"loop", "poll", "stop"}
    BY <2>1, <2>2, <2>3 DEF MainMoves, LocksHeld, ControlTypes
  <2>4. CASE mainPc = "join"
    BY <2>1, <2>2, <2>4 DEF MainMoves, WhisperMoves, FeedReady, ControlTypes
  <2>5. CASE mainPc \in {"drop", "tidy"}
    BY <2>1, <2>2, <2>5 DEF MainMoves, LocksHeld, ControlTypes
  <2>6. CASE mainPc = "sync"
    BY <2>2, <2>6 DEF MainMoves
  <2> QED
    BY <2>1, <2>2, <2>3, <2>4, <2>5, <2>6 DEF ControlTypes
<1> QED
  BY Invariance, <1>1, PTL

\* Whoever wants the tap finds it on, and it runs the model the API reports.
THEOREM TapSound == Spec => []TapIsSound
<1>1. IInv => TapIsSound
  BY DEF IInv, Agreement, TapIsSound
<1> QED
  BY Invariance, <1>1, PTL

\* A live session, or a lock that waits to be applied, is for the file on
\* screen and has its capture, its demand and its public state with it.
THEOREM SessionSound == Spec => []SessionWellFormed
<1>1. IInv => SessionWellFormed
  BY DEF IInv, Agreement
<1> QED
  BY Invariance, <1>1, PTL

\* A user who moves the position or switches the file has the last word over
\* every session begun before, and "synced" is never an empty promise.
THEOREM UserSound == Spec => [](LastActionWins /\ SyncedIsApplied)
<1>1. IInv => LastActionWins /\ SyncedIsApplied
  BY DEF IInv, Agreement
<1> QED
  BY Invariance, <1>1, PTL

\* The generation check does what it is there for: evidence is of the session
\* that was live when the inference began, however many came and went since.
THEOREM EvidenceSound == Spec => FreshEvidence
<1>1. IInv /\ [Next]_vars
        => [FeedSession => seenStart = starts /\ seenTranscriber = transcriber]_vars
  <2> SUFFICES ASSUME IInv, FeedSession
               PROVE  seenStart = starts /\ seenTranscriber = transcriber
    OBVIOUS
  <2> QED
    BY DEF IInv, Agreement, TagCurrent, FeedSession, FeedReady, EvidenceCurrent
<1> QED
  BY Invariance, <1>1, PTL DEF Spec, FreshEvidence

\* The step that DeadlineSound is about.
LEMMA ExpiredStep ==
  IInv /\ [Next]_vars /\ Listening /\ remaining < 0
    => pending' = NoFile /\ syncStatus' # "synced"
<1> SUFFICES ASSUME IInv, [Next]_vars, Listening, remaining < 0
             PROVE  pending' = NoFile /\ syncStatus' # "synced"
  OBVIOUS
<1> USE SyncAssumption, FeedAssumption
    DEF IInv, Agreement, SessionWellFormed, Listening, LocksHeld, HookLocals,
    NumberTypes, TypeOK, locks, main, io, whisper, capture, subtitles,
    tap, session
<1>1. ASSUME NEW path \in Files \cup {NoFile},
             SwitchSubtitleFile(path)
      PROVE pending' = NoFile /\ syncStatus' # "synced"
  BY <1>1 DEF SwitchSubtitleFile, CancelSync, EndSession, NextGeneration
<1>2. CASE SetSubtitleTime
  BY <1>2 DEF SetSubtitleTime, CancelSync, EndSession, NextGeneration
<1>3. CASE StartSession
  BY <1>3 DEF StartSession, IoReturn, NextGeneration, ModelAfterStart
<1>4. CASE ApplyWhisper
  BY <1>4 DEF ApplyWhisper, IoReturn, MayApply, ToggleEndsSession,
     EndSession, NextGeneration, DisableWhisper
<1>5. CASE FeedSession
  BY <1>5 DEF FeedSession, FeedReady, EvidenceCurrent, Expired, MayLock,
     EndSession, NextGeneration
<1>6. CASE CaptureJoined
  BY <1>6 DEF CaptureJoined, CaptureEndsSession, EndSession, NextGeneration
<1>7. CASE PollSync
  BY <1>7 DEF PollSync, Expired, EndSession, KeepSession, NextGeneration
<1>8. CASE Tick
  BY <1>8 DEF Tick
<1>9. CASE UNCHANGED <<pending, syncStatus>>
  BY <1>9 DEF SessionWellFormed
<1> QED
  BY <1>1, <1>2, <1>3, <1>4, <1>5, <1>6, <1>7, <1>8, <1>9
     DEF Next, IoCalls, IoReturns, Whisper, Main, vars, RejectSubtitleFile,
     RequestSync, PrepareWhisper, ClearWhisperModel, SwitchDone,
     SwitchRolledBack, SwitchFailed, SyncModel, SyncModelUnavailable,
     PullSample, LoadGeneration, LoadTranscriber, Infer,
     DropEvidence, WhisperExits, CheckLoop, PollCapture, CaptureDropped,
     PollRelease, BeginStop, CaptureEnds, DisableWhisper,
     EvidenceCurrent, FeedReady, IoReturn, NewTranscriber,
     ReleaseUnusedWhisper

\* A session past its deadline never locks, whichever thread gets to it first.
THEOREM DeadlineSound == Spec => ExpiredNeverLocks
<1>1. IInv /\ [Next]_vars
        => [Listening /\ remaining < 0
              => pending' = NoFile /\ syncStatus' # "synced"]_vars
  BY ExpiredStep
<1> QED
  BY Invariance, <1>1, PTL DEF Spec, ExpiredNeverLocks

\* The step that TranscriberSound is about: only four actions write the
\* transcriber.
LEMMA TranscriberStep ==
  IInv /\ [Next]_vars /\ Listening /\ Listening' /\ starts' = starts
    => transcriber' = transcriber
<1> SUFFICES ASSUME IInv, [Next]_vars, Listening, Listening', starts' = starts
             PROVE  transcriber' = transcriber
  OBVIOUS
<1> USE SyncAssumption, FeedAssumption
    DEF IInv, Agreement, SessionWellFormed, TapServesDemand, Wanted, Listening,
    LocksHeld, HookLocals, WillContinue, NumberTypes, TypeOK, locks, main,
    io, whisper, capture, subtitles, tap, session
<1>1. CASE StartSession
  BY <1>1 DEF StartSession, IoReturn, NextGeneration, ModelAfterStart
<1>2. CASE ApplyWhisper
  BY <1>2 DEF ApplyWhisper, IoReturn, MayApply, ToggleEndsSession,
     EndSession, NextGeneration, DisableWhisper
<1>3. CASE CaptureDropped
  BY <1>3 DEF CaptureDropped, ReleaseUnusedWhisper, DisableWhisper
<1>4. CASE PollRelease
  BY <1>4 DEF PollRelease, ReleaseUnusedWhisper, DisableWhisper
<1>5. CASE UNCHANGED transcriber
  BY <1>5 DEF Listening
<1> QED
  BY <1>1, <1>2, <1>3, <1>4, <1>5
     DEF Next, IoCalls, IoReturns, Whisper, Main, vars, RejectSubtitleFile,
     SwitchSubtitleFile, SetSubtitleTime, RequestSync, PrepareWhisper,
     ClearWhisperModel, SwitchDone, SwitchRolledBack, SwitchFailed,
     SyncModel, SyncModelUnavailable, PullSample, LoadGeneration,
     LoadTranscriber, Infer, FeedSession, DropEvidence,
     WhisperExits, CheckLoop, PollCapture, CaptureJoined, PollSync,
     BeginStop, CaptureEnds, Tick, CancelSync, CaptureEndsSession,
     EndSession, EvidenceCurrent, Expired, FeedReady, IoReturn,
     KeepSession, MayLock, NewTranscriber, NextGeneration

\* No enable, disable, release or model change swaps the transcriber under a
\* session that goes on.
THEOREM TranscriberSound == Spec => SessionKeepsTranscriber
<1>1. IInv /\ [Next]_vars
        => [Listening /\ Listening' /\ starts' = starts
              => transcriber' = transcriber]_vars
  BY TranscriberStep
<1> QED
  BY Invariance, <1>1, PTL DEF Spec, SessionKeepsTranscriber

-----------------------------------------------------------------------------
(* The threads implement the contract, step for step. *)

\* The threads start where the contract starts.
LEMMA ContractInit == Init => Contract!Init
  BY DEF Init, Contract!Init, Listening

\* Each action is one action of the contract or a stutter of it.
LEMMA ContractNext == IInv /\ [Next]_vars => [Contract!Next]_(Contract!vars)
<1> SUFFICES ASSUME IInv, [Next]_vars PROVE [Contract!Next]_(Contract!vars)
  OBVIOUS
<1> USE SyncAssumption, FeedAssumption
    DEF IInv, Agreement, SessionWellFormed, Listening, LocksHeld, HookLocals,
    TypeOK, FileTypes, StatusTypes,
    Contract!Next, Contract!vars, Contract!Resolve, Contract!Start,
    Contract!Lock, Contract!Fail, Contract!Apply, Contract!Cancel,
    Contract!Settle, locks, main, io, whisper, capture, subtitles, tap, session
<1>1. CASE RejectSubtitleFile
  BY <1>1 DEF RejectSubtitleFile
<1>2. ASSUME NEW path \in Files \cup {NoFile},
             SwitchSubtitleFile(path)
      PROVE [Contract!Next]_(Contract!vars)
  BY <1>2 DEF SwitchSubtitleFile, CancelSync, EndSession, NextGeneration
<1>3. CASE SetSubtitleTime
  BY <1>3 DEF SetSubtitleTime, CancelSync, EndSession, NextGeneration
<1>4. ASSUME NEW model \in Models \cup {NoModel},
             RequestSync(model)
      PROVE [Contract!Next]_(Contract!vars)
  BY <1>4 DEF RequestSync
<1>5. ASSUME NEW enabled \in {"on", "off", "keep"},
             NEW model \in Models \cup {NoModel},
             PrepareWhisper(enabled, model)
      PROVE [Contract!Next]_(Contract!vars)
  BY <1>5 DEF PrepareWhisper, NewTranscriber
<1>6. CASE ClearWhisperModel
  BY <1>6 DEF ClearWhisperModel
<1>7. CASE SwitchDone
  BY <1>7 DEF SwitchDone, IoReturn
<1>8. CASE SwitchRolledBack
  BY <1>8 DEF SwitchRolledBack, IoReturn
<1>9. CASE SwitchFailed
  BY <1>9 DEF SwitchFailed, IoReturn
<1>10. CASE SyncModel
  BY <1>10 DEF SyncModel, NewTranscriber
<1>11. CASE SyncModelUnavailable
  BY <1>11 DEF SyncModelUnavailable, IoReturn
<1>12. CASE StartSession
  BY <1>12 DEF StartSession, IoReturn, NextGeneration, ModelAfterStart
<1>13. CASE ApplyWhisper
  BY <1>13 DEF ApplyWhisper, IoReturn, MayApply, ToggleEndsSession,
     EndSession, NextGeneration, DisableWhisper
<1>14. CASE PullSample
  BY <1>14 DEF PullSample
<1>15. CASE LoadGeneration
  BY <1>15 DEF LoadGeneration
<1>16. CASE LoadTranscriber
  BY <1>16 DEF LoadTranscriber
<1>17. CASE Infer
  BY <1>17 DEF Infer
<1>18. CASE FeedSession
  BY <1>18 DEF FeedSession, FeedReady, EvidenceCurrent, Expired, MayLock,
     EndSession, NextGeneration
<1>19. CASE DropEvidence
  BY <1>19 DEF DropEvidence, FeedReady, EvidenceCurrent
<1>20. CASE WhisperExits
  BY <1>20 DEF WhisperExits
<1>21. CASE CheckLoop
  BY <1>21 DEF CheckLoop
<1>22. CASE PollCapture
  BY <1>22 DEF PollCapture
<1>23. CASE CaptureJoined
  BY <1>23 DEF CaptureJoined, CaptureEndsSession, EndSession, NextGeneration
<1>24. CASE CaptureDropped
  BY <1>24 DEF CaptureDropped, ReleaseUnusedWhisper, DisableWhisper
<1>25. CASE PollSync
  BY <1>25 DEF PollSync, Expired, EndSession, KeepSession, NextGeneration
<1>26. CASE PollRelease
  BY <1>26 DEF PollRelease, ReleaseUnusedWhisper, DisableWhisper
<1>27. CASE BeginStop
  BY <1>27 DEF BeginStop
<1>28. CASE CaptureEnds
  BY <1>28 DEF CaptureEnds
<1>29. CASE Tick
  BY <1>29 DEF Tick
<1>30. CASE UNCHANGED vars
  BY <1>30 DEF vars
<1> QED
  BY <1>1, <1>2, <1>3, <1>4, <1>5, <1>6, <1>7, <1>8, <1>9, <1>10, <1>11,
     <1>12, <1>13, <1>14, <1>15, <1>16, <1>17, <1>18, <1>19, <1>20,
     <1>21, <1>22, <1>23, <1>24, <1>25, <1>26, <1>27, <1>28, <1>29, <1>30
     DEF Next, IoCalls, IoReturns, Whisper, Main

\* Every step of the three threads is a step the user's contract allows, or
\* invisible to the user.
THEOREM Refinement == Spec => Contract!Safety
  BY Invariance, ContractInit, ContractNext, PTL DEF Spec, Contract!Safety

-----------------------------------------------------------------------------
(* The matcher: numbers. *)

\* A set of numbers that is not empty has a least one.
LEMMA LeastNumber ==
  ASSUME NEW S \in SUBSET Nat, S # {} PROVE \E x \in S : \A y \in S : x <= y
<1> DEFINE Less == OpToRel(<, Nat)
<1>1. IsWellFoundedOn(Less, Nat)
  BY NatLessThanWellFounded
<1>2. \E x \in S : \A y \in S : <<y, x>> \notin Less
  <2> HIDE DEF Less
  <2> QED
    BY <1>1, WFMin
<1>3. \A x, y \in Nat : x < y => <<x, y>> \in Less
  BY DEF OpToRel
<1>4. \A x, y \in Nat : <<y, x>> \notin Less => x <= y
  <2> HIDE DEF Less
  <2> QED
    BY <1>3
<1> HIDE DEF Less
<1>5. PICK x \in S : \A y \in S : <<y, x>> \notin Less
  BY <1>2
<1>6. \A y \in S : x <= y
  BY <1>4, <1>5
<1> QED
  BY <1>6

\* Max and Min of the numbers up to a bound are among them, and bound them.
LEMMA Extremes ==
  ASSUME NEW n \in Nat, NEW S \in SUBSET (0 .. n), S # {}
  PROVE  /\ Max(S) \in S /\ \A y \in S : y <= Max(S)
         /\ Min(S) \in S /\ \A y \in S : Min(S) <= y
<1>1. \E x \in S : \A y \in S : x <= y
  BY LeastNumber
<1>2. \E x \in S : \A y \in S : x >= y
  <2> DEFINE T == {z \in 0 .. n : n - z \in S}
  <2>1. T # {}
    <3>1. PICK s \in S : TRUE
      OBVIOUS
    <3>2. n - s \in 0 .. n /\ n - (n - s) = s
      BY <3>1
    <3> QED
      BY <3>1, <3>2
  <2>2. PICK t \in T : \A z \in T : t <= z
    <3>1. T \in SUBSET Nat
      OBVIOUS
    <3> HIDE DEF T
    <3> QED
      BY <2>1, <3>1, LeastNumber
  <2>3. \A y \in S : n - y \in T
    <3> TAKE y \in S
    <3>1. n - y \in 0 .. n /\ n - (n - y) = y
      OBVIOUS
    <3> QED
      BY <3>1
  <2>4. \A y \in S : n - t >= y
    <3> TAKE y \in S
    <3>1. t <= n - y
      BY <2>2, <2>3
    <3> QED
      BY <3>1, <2>2
  <2> QED
    BY <2>2, <2>4
<1> QED
  BY <1>1, <1>2 DEF Max, Min

-----------------------------------------------------------------------------
(* The scan over sorted votes (MatchTranscript). *)

\* Votes are numbers in their order.
Increasing(vs) ==
  vs \in Seq(Int) /\ \A i, j \in 1 .. Len(vs) : i <= j => vs[i] <= vs[j]

\* The votes up to a number come first.
LEMMA Below ==
  ASSUME NEW vs, Increasing(vs), NEW v \in Int,
         NEW k, k = Cardinality({i \in DOMAIN vs : vs[i] <= v})
  PROVE  /\ k \in Nat /\ k <= Len(vs)
         /\ \A i \in 1 .. Len(vs) : vs[i] <= v <=> i <= k
<1> DEFINE B == {i \in DOMAIN vs : vs[i] <= v}
<1>1. DOMAIN vs = 1 .. Len(vs) /\ Len(vs) \in Nat /\ \A i \in 1 .. Len(vs) : vs[i] \in Int
  BY DEF Increasing
<1>2. IsFiniteSet(1 .. Len(vs)) /\ Cardinality(1 .. Len(vs)) = Len(vs)
  BY <1>1, FS_Interval
<1>3. IsFiniteSet(B) /\ k \in Nat /\ k <= Len(vs)
  BY <1>1, <1>2, FS_Subset, FS_CardinalityType
<1>4. ASSUME NEW i \in 1 .. Len(vs), vs[i] <= v PROVE i <= k
  <2>1. 1 .. i \subseteq B
    BY <1>1, <1>4 DEF Increasing
  <2>2. Cardinality(1 .. i) = i
    BY FS_Interval
  <2> QED
    BY <1>3, <2>1, <2>2, FS_Subset
<1>5. ASSUME NEW i \in 1 .. Len(vs), i <= k PROVE vs[i] <= v
  <2> SUFFICES ASSUME ~(vs[i] <= v) PROVE FALSE
    OBVIOUS
  <2>1. B \subseteq 1 .. i - 1
    BY <1>1 DEF Increasing
  <2>2. IsFiniteSet(1 .. i - 1) /\ Cardinality(1 .. i - 1) = i - 1
    BY FS_Interval
  <2>3. k <= i - 1
    BY <2>1, <2>2, FS_Subset
  <2> QED
    BY <1>3, <1>5, <2>3
<1> QED
  BY <1>3, <1>4, <1>5

\* ws is vs with v after its first k.
IsInserted(ws, vs, k, v, S) ==
  /\ ws \in Seq(S) /\ Len(ws) = Len(vs) + 1
  /\ \A i \in 1 .. k : ws[i] = vs[i]
  /\ ws[k + 1] = v
  /\ \A i \in k + 2 .. Len(vs) + 1 : ws[i] = vs[i - 1]

\* InsertAt inserts.
LEMMA Inserted ==
  ASSUME NEW S, NEW vs \in Seq(S), NEW k \in Nat, k <= Len(vs), NEW v \in S
  PROVE  IsInserted(InsertAt(vs, k + 1, v), vs, k, v, S)
<1> DEFINE ws == InsertAt(vs, k + 1, v)
<1>0. PICK n \in Nat : n = Len(vs)
  OBVIOUS
<1> DEFINE low == SubSeq(vs, 1, k)
           high == SubSeq(vs, k + 1, n)
<1>1. \A i \in 1 .. n : vs[i] \in S
  BY <1>0
<1>2. low \in Seq(S) /\ Len(low) = k /\ \A i \in 1 .. k : low[i] = vs[i]
  BY <1>0, <1>1, SubSeqProperties
<1>3. /\ high \in Seq(S) /\ Len(high) = n - k
      /\ \A i \in 1 .. n - k : high[i] = vs[k + i]
  BY <1>0, <1>1, SubSeqProperties
<1>4. ws = (low \o <<v>>) \o high
  <2>1. (k + 1) - 1 = k
    OBVIOUS
  <2> QED
    BY <1>0, <2>1 DEF InsertAt
<1> HIDE DEF ws
<1> DEFINE front == low \o <<v>>
<1> HIDE DEF low, high
<1>5. /\ front \in Seq(S) /\ Len(front) = k + 1
      /\ \A i \in 1 .. k : front[i] = vs[i]
      /\ front[k + 1] = v
  BY <1>2, AppendIsConcat, AppendProperties
<1> HIDE DEF front
<1> HIDE DEF high
<1>6. ws \in Seq(S) /\ Len(ws) = n + 1
  <2>1. Len(front) + Len(high) = n + 1
    BY <1>0, <1>3, <1>5
  <2>2. ws = front \o high
    BY <1>4 DEF front
  <2>3. front \o high \in Seq(S) /\ Len(front \o high) = Len(front) + Len(high)
    BY <1>3, <1>5, ConcatProperties
  <2> QED
    BY <2>1, <2>2, <2>3
<1>7. ASSUME NEW i \in 1 .. k + 1 PROVE ws[i] = front[i]
  <2>1. i \in 1 .. Len(front) + Len(high) /\ i <= Len(front)
    BY <1>0, <1>3, <1>5
  <2> QED
    BY <1>3, <1>4, <1>5, <2>1, ConcatProperties DEF front
<1>8. ASSUME NEW i \in k + 2 .. n + 1 PROVE ws[i] = vs[i - 1]
  <2>1. /\ i \in 1 .. Len(front) + Len(high) /\ ~(i <= Len(front))
        /\ i - Len(front) \in 1 .. n - k /\ k + (i - Len(front)) = i - 1
    BY <1>0, <1>3, <1>5
  <2>2. ws[i] = high[i - Len(front)]
    BY <1>3, <1>4, <1>5, <2>1, ConcatProperties DEF front
  <2> QED
    BY <1>3, <2>1, <2>2
<1>9. \A i \in 1 .. k + 1 : ws[i] = front[i]
  BY <1>7
<1>10. \A i \in k + 2 .. n + 1 : ws[i] = vs[i - 1]
  BY <1>8
<1>11. /\ ws \in Seq(S) /\ Len(ws) = Len(vs) + 1
       /\ \A i \in 1 .. k : ws[i] = vs[i]
       /\ ws[k + 1] = v
       /\ \A i \in k + 2 .. Len(vs) + 1 : ws[i] = vs[i - 1]
  <2>1. \A i \in 1 .. k : ws[i] = vs[i]
    <3>1. \A i \in 1 .. k : i \in 1 .. k + 1
      OBVIOUS
    <3> QED
      BY <1>5, <1>9, <3>1
  <2>2. k + 1 \in 1 .. k + 1
    OBVIOUS
  <2> QED
    BY <1>0, <1>5, <1>6, <1>9, <1>10, <2>1, <2>2
<1> QED
  BY <1>11 DEF ws, IsInserted

\* What is inserted after the smaller ones keeps the order.
LEMMA InsertedIsIncreasing ==
  ASSUME NEW vs, Increasing(vs), NEW v \in Int,
         NEW k \in Nat, k <= Len(vs), \A i \in 1 .. Len(vs) : vs[i] <= v <=> i <= k
  PROVE  Increasing(InsertAt(vs, k + 1, v))
<1> DEFINE ws == InsertAt(vs, k + 1, v)
<1>1. PICK n \in Nat : n = Len(vs)
  BY DEF Increasing
<1>2. /\ ws \in Seq(Int) /\ Len(ws) = n + 1 /\ k <= n
      /\ \A i \in 1 .. k : ws[i] = vs[i]
      /\ ws[k + 1] = v
      /\ \A i \in k + 2 .. n + 1 : ws[i] = vs[i - 1]
  <2>1. vs \in Seq(Int)
    BY DEF Increasing
  <2>2. /\ ws \in Seq(Int) /\ Len(ws) = Len(vs) + 1
        /\ \A i \in 1 .. k : ws[i] = vs[i]
        /\ ws[k + 1] = v
        /\ \A i \in k + 2 .. Len(vs) + 1 : ws[i] = vs[i - 1]
    <3>1. IsInserted(ws, vs, k, v, Int)
      BY <2>1, Inserted
    <3> QED
      BY <3>1 DEF IsInserted
  <2> QED
    BY <1>1, <2>2
<1> HIDE DEF ws
<1>3. /\ \A i \in 1 .. n : vs[i] \in Int /\ (vs[i] <= v <=> i <= k)
      /\ \A i, j \in 1 .. n : i <= j => vs[i] <= vs[j]
  BY <1>1 DEF Increasing
<1>4. ASSUME NEW i \in 1 .. n + 1, NEW j \in 1 .. n + 1, i <= j PROVE ws[i] <= ws[j]
  <2>1. CASE j <= k
    <3>1. i \in 1 .. k /\ j \in 1 .. k /\ i \in 1 .. n /\ j \in 1 .. n
      BY <1>1, <1>2, <1>4, <2>1
    <3>2. ws[i] = vs[i] /\ ws[j] = vs[j] /\ vs[i] <= vs[j]
      BY <1>2, <1>3, <1>4, <3>1
    <3> QED
      BY <3>2
  <2>2. CASE i <= k /\ j > k
    <3>1. i \in 1 .. k /\ i \in 1 .. n
      BY <1>1, <1>2, <2>2
    <3>2. ws[i] = vs[i] /\ vs[i] <= v /\ vs[i] \in Int
      BY <1>2, <1>3, <2>2, <3>1
    <3>3. CASE j = k + 1
      BY <1>2, <3>2, <3>3
    <3>4. CASE j > k + 1
      <4>1. j - 1 \in 1 .. n /\ i <= j - 1 /\ j \in k + 2 .. n + 1
        BY <1>1, <1>4, <2>2, <3>4
      <4>2. ws[j] = vs[j - 1] /\ vs[i] <= vs[j - 1]
        BY <1>2, <1>3, <3>1, <4>1
      <4> QED
        BY <3>2, <4>2
    <3> QED
      BY <2>2, <3>3, <3>4
  <2>3. CASE i = k + 1
    <3>1. CASE j = k + 1
      BY <1>2, <2>3, <3>1
    <3>2. CASE j > k + 1
      <4>1. j - 1 \in 1 .. n /\ ~(j - 1 <= k) /\ j \in k + 2 .. n + 1
        BY <1>1, <3>2
      <4>2. ws[j] = vs[j - 1] /\ ~(vs[j - 1] <= v) /\ vs[j - 1] \in Int
        BY <1>2, <1>3, <4>1
      <4> QED
        BY <1>2, <2>3, <4>2
    <3> QED
      BY <1>4, <2>3, <3>1, <3>2
  <2>4. CASE i > k + 1
    <3>1. /\ i - 1 \in 1 .. n /\ j - 1 \in 1 .. n /\ i - 1 <= j - 1
          /\ i \in k + 2 .. n + 1 /\ j \in k + 2 .. n + 1
      BY <1>1, <1>4, <2>4
    <3> QED
      BY <1>2, <1>3, <3>1
  <2> QED
    BY <1>4, <2>1, <2>2, <2>3, <2>4
<1>5. \A i, j \in 1 .. Len(ws) : i <= j => ws[i] <= ws[j]
  BY <1>1, <1>2, <1>4
<1>6. Increasing(ws)
  BY <1>2, <1>5 DEF Increasing
<1> QED
  BY <1>6 DEF ws

\* A vote that is sorted in keeps the order.
LEMMA SortedIsIncreasing ==
  ASSUME NEW vs, Increasing(vs), NEW v \in Int PROVE Increasing(Sorted(vs, v))
<1>1. PICK k : k = Cardinality({i \in DOMAIN vs : vs[i] <= v})
  OBVIOUS
<1>2. k \in Nat /\ k <= Len(vs) /\ \A i \in 1 .. Len(vs) : vs[i] <= v <=> i <= k
  BY <1>1, Below
<1>3. Sorted(vs, v) = InsertAt(vs, k + 1, v)
  BY <1>1 DEF Sorted
<1> QED
  BY <1>2, <1>3, InsertedIsIncreasing

\* The votes that agree with one are those after it, up to a place.
LEMMA RunIsAnInterval ==
  ASSUME NEW vs, Increasing(vs), kMaxSpread \in Nat, NEW b \in 1 .. Len(vs)
  PROVE  \E last \in b .. Len(vs) : Run(vs, b) = b .. last
<1>1. PICK n \in Nat : n = Len(vs)
  BY DEF Increasing
<1> DEFINE R == {e \in b .. n : vs[e] - vs[b] <= kMaxSpread}
<1>2. Run(vs, b) = R
  BY <1>1 DEF Run
<1>3. /\ \A i \in 1 .. n : vs[i] \in Int
      /\ \A i, j \in 1 .. n : i <= j => vs[i] <= vs[j]
  BY <1>1 DEF Increasing
<1>4. b \in 1 .. n
  BY <1>1
<1>5. b \in R
  <2>1. vs[b] - vs[b] = 0
    BY <1>3, <1>4
  <2> QED
    BY <1>4, <2>1
<1>6. R \in SUBSET (0 .. n) /\ R \subseteq b .. n
  BY <1>4
<1>7. ASSUME NEW e \in R, NEW d \in b .. e PROVE d \in R
  <2>1. e \in 1 .. n /\ d \in 1 .. n /\ d \in b .. n /\ d <= e /\ vs[e] - vs[b] <= kMaxSpread
    BY <1>4, <1>7
  <2>2. vs[d] <= vs[e] /\ vs[d] \in Int /\ vs[e] \in Int /\ vs[b] \in Int
    BY <1>3, <1>4, <2>1
  <2>3. vs[d] - vs[b] <= kMaxSpread
    BY <2>1, <2>2
  <2> QED
    BY <2>1, <2>3
<1> HIDE DEF R
<1>8. PICK last \in R : \A y \in R : y <= last
  BY <1>5, <1>6, Extremes
<1>9. last \in b .. n
  BY <1>6, <1>8
<1>10. R \subseteq b .. last
  <2>1. ASSUME NEW e \in R PROVE e \in b .. last
    <3>1. e \in b .. n /\ e <= last
      BY <1>6, <1>8
    <3> QED
      BY <1>9, <3>1
  <2> QED
    BY <2>1
<1>11. b .. last \subseteq R
  BY <1>7, <1>8
<1> QED
  BY <1>1, <1>2, <1>9, <1>10, <1>11

\* How long a run is, and the votes that are counted.
LEMMA RunLengths ==
  ASSUME NEW vs, Increasing(vs), kMaxSpread \in Nat, NEW b \in 1 .. Len(vs)
  PROVE  /\ RunLength(vs, b) \in 1 .. Len(vs)
         /\ b + RunLength(vs, b) - 1 \in 1 .. Len(vs)
         /\ Run(vs, b) = b .. b + RunLength(vs, b) - 1
<1>1. PICK n \in Nat : n = Len(vs)
  BY DEF Increasing
<1>2. PICK last \in b .. n : Run(vs, b) = b .. last
  BY <1>1, RunIsAnInterval
<1>3. b \in 1 .. n /\ last \in 1 .. n /\ b <= last
  BY <1>1, <1>2
<1>4. Cardinality(b .. last) = last - b + 1
  BY <1>3, FS_Interval
<1>5. RunLength(vs, b) = last - b + 1
  BY <1>2, <1>4 DEF RunLength
<1>6. b + RunLength(vs, b) - 1 = last
  BY <1>3, <1>5
<1> QED
  BY <1>1, <1>2, <1>3, <1>5, <1>6

\* The run chosen is one of the longest.
LEMMA LongestRunIsLongest ==
  ASSUME NEW vs, Increasing(vs), kMaxSpread \in Nat, vs # <<>>
  PROVE  /\ LongestRun(vs) \in 1 .. Len(vs)
         /\ \A b \in 1 .. Len(vs) :
              RunLength(vs, b) <= RunLength(vs, LongestRun(vs))
<1>1. PICK n \in Nat : n = Len(vs) /\ DOMAIN vs = 1 .. n
  BY DEF Increasing
<1>2. 1 \in 1 .. n
  <2>1. vs \in Seq(Int)
    BY DEF Increasing
  <2>2. n # 0
    BY <1>1, <2>1, EmptySeq
  <2> QED
    BY <2>2
<1> DEFINE length(b) == RunLength(vs, b)
           lengths   == {length(b) : b \in 1 .. n}
           size      == Max(lengths)
           firsts    == {b \in 1 .. n : length(b) = size}
<1>3. \A b \in 1 .. n : length(b) \in 1 .. n
  BY <1>1, RunLengths
<1> HIDE DEF length
<1>4. lengths \in SUBSET (0 .. n) /\ lengths # {}
  BY <1>2, <1>3
<1>5. size \in lengths /\ \A y \in lengths : y <= size
  <2> HIDE DEF lengths
  <2> QED
    BY <1>4, Extremes
<1>6. firsts # {} /\ firsts \in SUBSET (0 .. n)
  <2> HIDE DEF size
  <2> QED
    BY <1>5
<1>7. Min(firsts) \in firsts
  <2> HIDE DEF firsts
  <2> QED
    BY <1>6, Extremes
<1>8. LongestRun(vs) = Min(firsts)
  BY <1>1 DEF LongestRun, length
<1>9. LongestRun(vs) \in 1 .. n /\ length(LongestRun(vs)) = size
  <2> HIDE DEF size
  <2> QED
    BY <1>7, <1>8
<1>10. \A b \in 1 .. n : length(b) <= length(LongestRun(vs))
  <2> HIDE DEF size
  <2> QED
    BY <1>5, <1>9
<1> QED
  BY <1>1, <1>9, <1>10 DEF length

\* The votes of a run agree with each other, and its middle is one of them.
LEMMA RunAgrees ==
  ASSUME NEW vs, Increasing(vs), kMaxSpread \in Nat, NEW b \in 1 .. Len(vs)
  PROVE  /\ \A i, j \in Run(vs, b) : vs[i] - vs[j] <= kMaxSpread
         /\ b + RunLength(vs, b) \div 2 \in Run(vs, b)
<1>1. /\ \A i \in 1 .. Len(vs) : vs[i] \in Int
      /\ \A i, j \in 1 .. Len(vs) : i <= j => vs[i] <= vs[j]
  BY DEF Increasing
<1>2. PICK n \in Nat : n = Len(vs)
  BY DEF Increasing
<1>3. ASSUME NEW i \in Run(vs, b), NEW j \in Run(vs, b)
      PROVE  vs[i] - vs[j] <= kMaxSpread
  <2>1. i \in b .. n /\ j \in b .. n /\ vs[i] - vs[b] <= kMaxSpread /\ b \in 1 .. n
    BY <1>2, <1>3 DEF Run
  <2>2. i \in 1 .. n /\ j \in 1 .. n /\ b <= j
    BY <1>2, <2>1
  <2>3. vs[b] <= vs[j] /\ vs[i] \in Int /\ vs[j] \in Int /\ vs[b] \in Int
    BY <1>1, <1>2, <2>1, <2>2
  <2> QED
    BY <2>1, <2>3
<1>4. b + RunLength(vs, b) \div 2 \in Run(vs, b)
  <2>1. PICK length \in 1 .. n : length = RunLength(vs, b)
    BY <1>2, RunLengths
  <2>2. Run(vs, b) = b .. b + length - 1
    BY <2>1, RunLengths
  <2>3. length \div 2 \in Nat /\ length \div 2 <= length - 1
    BY <1>2, <2>1
  <2>4. b + length \div 2 \in b .. b + length - 1
    BY <1>2, <2>1, <2>3
  <2> QED
    BY <2>1, <2>2, <2>4
<1> QED
  BY <1>3, <1>4

\* A group of votes that agree is no larger than the longest run.
LEMMA AgreementFits ==
  ASSUME NEW vs, Increasing(vs), kMaxSpread \in Nat,
         NEW group \in SUBSET (1 .. Len(vs)), group # {},
         \A i, j \in group : vs[i] - vs[j] <= kMaxSpread
  PROVE  Cardinality(group) <= RunLength(vs, LongestRun(vs))
<1>1. PICK n \in Nat : n = Len(vs)
  BY DEF Increasing
<1>2. PICK b \in group : \A i \in group : b <= i
  <2>1. group \in SUBSET Nat
    BY <1>1
  <2> QED
    BY <2>1, LeastNumber
<1>3. b \in 1 .. n /\ vs # <<>>
  <2>1. b \in 1 .. n
    BY <1>1, <1>2
  <2>2. n # 0
    BY <2>1
  <2> QED
    BY <1>1, <2>1, <2>2
<1>4. group \subseteq Run(vs, b)
  <2>1. ASSUME NEW i \in group PROVE i \in Run(vs, b)
    <3>1. i \in 1 .. n /\ b \in 1 .. n /\ b <= i /\ vs[i] - vs[b] <= kMaxSpread
      BY <1>1, <1>2
    <3>2. i \in b .. n
      BY <1>1, <3>1
    <3> QED
      BY <1>1, <3>1, <3>2 DEF Run
  <2> QED
    BY <2>1
<1>5. PICK length \in 1 .. n : length = RunLength(vs, b)
  BY <1>1, <1>3, RunLengths
<1>6. Run(vs, b) = b .. b + length - 1
  BY <1>1, <1>3, <1>5, RunLengths
<1>7. /\ IsFiniteSet(b .. b + length - 1)
      /\ Cardinality(b .. b + length - 1) = length
  <2>1. b \in Int /\ b + length - 1 \in Int /\ b + length - 1 >= b
        /\ (b + length - 1) - b + 1 = length
    BY <1>1, <1>3, <1>5
  <2> QED
    BY <2>1, FS_Interval
<1>8. IsFiniteSet(group) /\ Cardinality(group) <= length /\ Cardinality(group) \in Nat
  <2> DEFINE run == b .. b + length - 1
  <2>1. group \in SUBSET run /\ IsFiniteSet(run) /\ Cardinality(run) = length
    BY <1>4, <1>6, <1>7
  <2> HIDE DEF run
  <2>2. IsFiniteSet(group) /\ Cardinality(group) <= Cardinality(run)
    BY <2>1, FS_Subset
  <2> QED
    BY <2>1, <2>2, FS_CardinalityType
<1>9. PICK longest \in 1 .. n :
        longest = RunLength(vs, LongestRun(vs)) /\ length <= longest
  BY <1>1, <1>3, <1>5, RunLengths, LongestRunIsLongest
<1> QED
  BY <1>5, <1>8, <1>9

\* What the scan decides: a lock if the longest run has enough votes, on one of them.
LEMMA Decision ==
  ASSUME NEW vs, Increasing(vs), kMaxSpread \in Nat, kMinVotes \in Nat \ {0}
  PROVE  LET b == LongestRun(vs)
             result == MatchTranscript(vs)
         IN  /\ result.locked \in BOOLEAN
             /\ result.locked <=> vs # <<>> /\ RunLength(vs, b) >= kMinVotes
             /\ result.locked => \E i \in Run(vs, b) : vs[i] = result.at
             /\ ~result.locked => result = NoLock
<1> DEFINE b == LongestRun(vs)
           length == RunLength(vs, b)
           enough == vs # <<>> /\ length >= kMinVotes
           result == MatchTranscript(vs)
<1>1. PICK n \in Nat : n = Len(vs)
  BY DEF Increasing
<1>2. CASE enough
  <2>1. b \in 1 .. n /\ length \in 1 .. n /\ ~(n < kMinVotes) /\ ~(length < kMinVotes)
    <3>1. b \in 1 .. n /\ length \in 1 .. n
      BY <1>1, <1>2, LongestRunIsLongest, RunLengths
    <3> QED
      BY <1>1, <1>2, <3>1
  <2>2. result = Locked(vs[b + length \div 2])
    BY <1>1, <2>1 DEF MatchTranscript
  <2>3. b + length \div 2 \in Run(vs, b)
    BY <1>1, <2>1, RunAgrees
  <2>4. result.locked = TRUE /\ result.at = vs[b + length \div 2]
    BY <2>2 DEF Locked
  <2> QED
    BY <1>2, <2>3, <2>4
<1>3. CASE ~enough
  <2>1. n < kMinVotes \/ length < kMinVotes
    <3>1. CASE vs = <<>>
      BY <1>1, <3>1
    <3>2. CASE vs # <<>>
      <4>1. length \in 1 .. n
        BY <1>1, <3>2, LongestRunIsLongest, RunLengths
      <4> QED
        BY <1>1, <1>3, <3>2, <4>1
    <3> QED
      BY <3>1, <3>2
  <2>2. result = NoLock /\ result.locked = FALSE
    BY <1>1, <2>1 DEF MatchTranscript, NoLock
  <2> QED
    BY <1>3, <2>2
<1> QED
  BY <1>2, <1>3

-----------------------------------------------------------------------------
(* The session: what it shows is what the scan says of the votes so far. *)

\* The votes are sorted, and the result is the scan's, from kMinWindows windows on.
\* What holds of the scan, for any votes in their order, then holds of the session.
MatcherInv ==
  /\ ballots \subseteq Ballot /\ fed \in Nat
  /\ Increasing(votes)
  /\ theta = IF MayConsult(fed) THEN MatchTranscript(votes) ELSE NoLock

\* A session starts without votes.
LEMMA MatcherStarts ==
  ASSUME MatcherInit PROVE MatcherInv
<1>1. ballots = {} /\ fed = 0 /\ votes = <<>> /\ theta = NoLock
  BY DEF MatcherInit
<1>2. Increasing(<<>>)
  BY DEF Increasing
<1>3. kMinWindows \in Nat \ {0}
  BY FeedAssumption
<1> QED
  BY <1>1, <1>2, <1>3 DEF MatcherInv, MayConsult

\* Whatever is fed is sorted in, and the scan is asked again.
LEMMA MatcherStep ==
  ASSUME MatcherInv, [MatcherNext]_matcherVars
  PROVE  MatcherInv'
<1> DEFINE Result == IF MayConsult(fed') THEN MatchTranscript(votes')
                     ELSE NoLock
<1>1. ASSUME NEW b \in DOMAIN file, NEW i \in DOMAIN file[b], Damage(b, i)
      PROVE  MatcherInv'
  <2>1. UNCHANGED <<ballots, fed, votes, theta>>
    BY <1>1 DEF Damage, Session
  <2> QED
    BY <2>1 DEF MatcherInv, Increasing, MatchTranscript, NoLock
<1>2. CASE ReadCues
  <2>1. UNCHANGED <<fed, votes, theta>>
    BY <1>2 DEF ReadCues
  <2>2. ballots' \subseteq Ballot
    BY <1>2 DEF ReadCues, Ballots
  <2> QED
    BY <2>1, <2>2 DEF MatcherInv
<1>3. ASSUME NEW vote \in ballots, NEW late \in Lateness, FeedVote(vote, late)
      PROVE  MatcherInv'
  <2>1. fed' = fed + 1 /\ votes' = Sorted(votes, vote.offset - late)
    BY <1>3 DEF FeedVote
  <2>2. theta' = Result /\ UNCHANGED ballots
    BY <1>3 DEF FeedVote, Consult
  <2>3. vote.offset - late \in Int
    <3>1. vote \in Ballot
      BY <1>3 DEF MatcherInv
    <3>2. vote.offset \in Int
      BY <3>1 DEF Ballot
    <3>3. late \in Int
      BY <1>3, MatcherAssumption
    <3> QED
      BY <3>2, <3>3
  <2>4. Increasing(votes')
    BY <2>1, <2>3, SortedIsIncreasing DEF MatcherInv
  <2> QED
    BY <2>1, <2>2, <2>4 DEF MatcherInv
<1>4. CASE FeedInert
  <2>1. fed' = fed + 1 /\ UNCHANGED <<votes, ballots>> /\ theta' = Result
    BY <1>4 DEF FeedInert, Consult
  <2> QED
    BY <2>1 DEF MatcherInv
<1>5. CASE UNCHANGED matcherVars
  BY <1>5 DEF matcherVars, MatcherInv
<1> QED
  BY <1>1, <1>2, <1>3, <1>4, <1>5 DEF MatcherNext

\* The matcher's inductive invariant, for all scripts, damages, thresholds and latenesses.
THEOREM MatcherInvariance ==
  MatcherSpec => []MatcherInv
<1>1. MatcherInit => MatcherInv
  BY MatcherStarts
<1>2. MatcherInv /\ [MatcherNext]_matcherVars => MatcherInv'
  BY MatcherStep
<1> QED
  BY <1>1, <1>2, PTL DEF MatcherSpec

\* What the theorems use of the assumption.
LEMMA Bounds ==
  /\ kMinWindows \in Nat \ {0} /\ kMinVotes \in Nat \ {0}
  /\ kMaxSpread \in Nat /\ Tolerance \in Nat
BY FeedAssumption, MatcherAssumption

\* A run that is long enough is a group of votes that agree.
LEMMA RunIsAnAgreement ==
  ASSUME Increasing(votes), NEW b \in 1 .. Len(votes),
         RunLength(votes, b) >= kMinVotes
  PROVE  Run(votes, b) \in Agreements
<1>1. kMaxSpread \in Nat
  BY Bounds
<1>2. PICK n \in Nat : n = Len(votes) /\ DOMAIN votes = 1 .. n
  BY DEF Increasing
<1>3. Run(votes, b) \subseteq DOMAIN votes
  BY <1>2 DEF Run
<1>4. Agree(Run(votes, b))
  BY <1>1, RunAgrees DEF Agree
<1>5. Cardinality(Run(votes, b)) >= kMinVotes
  BY DEF RunLength
<1> QED
  BY <1>3, <1>4, <1>5 DEF Agreements

\* No group of votes that agree is larger than the longest run.
LEMMA AgreementsFit ==
  ASSUME Increasing(votes), NEW group \in Agreements
  PROVE  /\ votes # <<>>
         /\ kMinVotes <= Cardinality(group)
         /\ Cardinality(group) <= RunLength(votes, LongestRun(votes))
<1>1. kMaxSpread \in Nat /\ kMinVotes \in Nat \ {0}
  BY Bounds
<1>2. PICK n \in Nat : n = Len(votes) /\ DOMAIN votes = 1 .. n
  BY DEF Increasing
<1>3. /\ group \in SUBSET (1 .. n) /\ Cardinality(group) >= kMinVotes
      /\ \A i, j \in group : votes[i] - votes[j] <= kMaxSpread
  BY <1>2 DEF Agreements, Agree
<1>4. group # {}
  BY <1>1, <1>3, FS_EmptySet
<1>5. IsFiniteSet(1 .. n)
  BY <1>2, FS_Interval
<1>6. Cardinality(group) \in Nat
  BY <1>3, <1>5, FS_Subset, FS_CardinalityType
<1>7. n # 0
  <2>1. PICK i \in group : i \in 1 .. n
    BY <1>3, <1>4
  <2> QED
    BY <1>2, <2>1
<1>8. Cardinality(group) <= RunLength(votes, LongestRun(votes))
  BY <1>1, <1>2, <1>3, <1>4, AgreementFits
<1> QED
  BY <1>1, <1>2, <1>3, <1>6, <1>7, <1>8

\* The scan and the search among all groups decide the same.
LEMMA LockIsAgreed ==
  ASSUME MatcherInv PROVE LocksOnLargestAgreement
<1>1. kMaxSpread \in Nat /\ kMinVotes \in Nat \ {0} /\ Increasing(votes)
  BY Bounds DEF MatcherInv
<1>2. PICK n \in Nat : n = Len(votes) /\ DOMAIN votes = 1 .. n
  BY <1>1 DEF Increasing
<1> DEFINE b == LongestRun(votes)
           length == RunLength(votes, b)
           enough == votes # <<>> /\ length >= kMinVotes
<1>3. /\ theta.locked <=> MayConsult(fed) /\ enough
      /\ theta.locked => \E i \in Run(votes, b) : votes[i] = theta.at
  <2>1. CASE MayConsult(fed)
    <3>1. theta = MatchTranscript(votes)
      BY <2>1 DEF MatcherInv
    <3> QED
      BY <1>1, <2>1, <3>1, Decision
  <2>2. CASE ~MayConsult(fed)
    <3>1. theta.locked = FALSE
      BY <2>2 DEF MatcherInv, NoLock
    <3> QED
      BY <2>2, <3>1
  <2> QED
    BY <2>1, <2>2
<1>4. ASSUME enough
      PROVE  /\ b \in 1 .. n /\ Run(votes, b) \in Agreements
             /\ Cardinality(Run(votes, b)) = length
  <2>1. b \in 1 .. n
    BY <1>1, <1>2, <1>4, LongestRunIsLongest
  <2>2. Run(votes, b) \in Agreements
    BY <1>1, <1>2, <1>4, <2>1, RunIsAnAgreement
  <2> QED
    BY <2>1, <2>2 DEF RunLength
<1>5. Agreements # {} <=> enough
  <2>1. ASSUME NEW group \in Agreements PROVE enough
    <3>1. votes # <<>> /\ kMinVotes <= Cardinality(group) /\ Cardinality(group) <= length
      BY <1>1, AgreementsFit
    <3>2. length \in 1 .. n
      BY <1>1, <1>2, <3>1, LongestRunIsLongest, RunLengths
    <3>3. Cardinality(group) \in Nat
      <4>1. IsFiniteSet(1 .. n)
        <5>1. n \in Int /\ 1 \in Int
          BY <1>2
        <5> QED
          BY <5>1, FS_Interval
      <4>2. group \in SUBSET (1 .. n)
        BY <1>2 DEF Agreements
      <4> QED
        BY <4>1, <4>2, FS_Subset, FS_CardinalityType
    <3> QED
      BY <1>1, <3>1, <3>2, <3>3
  <2> QED
    BY <1>4, <2>1
<1>6. ASSUME theta.locked
      PROVE  \E group \in Agreements :
               /\ \A other \in Agreements :
                    Cardinality(other) <= Cardinality(group)
               /\ \E i \in group : votes[i] = theta.at
  <2>1. enough
    BY <1>3, <1>6
  <2>2. \A other \in Agreements : Cardinality(other) <= length
    BY <1>1, AgreementsFit
  <2> DEFINE run == Run(votes, b)
  <2>3. /\ run \in Agreements /\ Cardinality(run) = length
        /\ \E i \in run : votes[i] = theta.at
    BY <1>3, <1>4, <1>6, <2>1
  <2>4. \A other \in Agreements : Cardinality(other) <= length
    BY <2>2
  <2> HIDE DEF run, length
  <2> QED
    BY <2>3, <2>4
<1> QED
  BY <1>3, <1>5, <1>6 DEF LocksOnLargestAgreement

\* A group that can lock has more votes than there are strays: one of them is none, and
\* the lock is no further from it than the spread.
LEMMA StraysAreOutvoted ==
  ASSUME MatcherInv PROVE FewStraysNoHarm
<1>1. /\ kMaxSpread \in Nat /\ kMinVotes \in Nat \ {0} /\ Tolerance \in Nat
      /\ Increasing(votes)
  BY Bounds DEF MatcherInv
<1> SUFFICES ASSUME theta.locked, Cardinality(Strays) < kMinVotes
             PROVE  theta.at \in -(Tolerance + kMaxSpread) .. Tolerance + kMaxSpread
  BY DEF FewStraysNoHarm
<1>2. PICK n \in Nat : n = Len(votes) /\ DOMAIN votes = 1 .. n
  BY <1>1 DEF Increasing
<1>3. PICK group \in Agreements : \E i \in group : votes[i] = theta.at
  BY LockIsAgreed DEF LocksOnLargestAgreement
<1>4. PICK i \in group : votes[i] = theta.at
  BY <1>3
<1>5. /\ group \in SUBSET (1 .. n) /\ Cardinality(group) >= kMinVotes
      /\ \A x, y \in group : votes[x] - votes[y] <= kMaxSpread
  BY <1>2 DEF Agreements, Agree
<1>6. Cardinality(Strays) < kMinVotes /\ Strays \in SUBSET (1 .. n)
  BY <1>2 DEF Strays
<1>7. ~(group \subseteq Strays)
  <2>1. IsFiniteSet(1 .. n)
    BY <1>2, FS_Interval
  <2>2. IsFiniteSet(group) /\ IsFiniteSet(Strays)
    BY <1>5, <1>6, <2>1, FS_Subset
  <2>3. Cardinality(group) \in Nat /\ Cardinality(Strays) \in Nat
    BY <2>2, FS_CardinalityType
  <2>4. group \subseteq Strays => Cardinality(group) <= Cardinality(Strays)
    BY <2>2, FS_Subset
  <2> QED
    BY <1>1, <1>5, <1>6, <2>3, <2>4
<1>8. PICK j \in group : j \notin Strays
  BY <1>7
<1>9. votes[j] \in -Tolerance .. Tolerance
  BY <1>2, <1>5, <1>8 DEF Strays, IsStray
<1>10. votes[i] \in Int /\ votes[j] \in Int
  BY <1>1, <1>2, <1>4, <1>5, <1>8 DEF Increasing
<1>11. votes[i] - votes[j] <= kMaxSpread /\ votes[j] - votes[i] <= kMaxSpread
  BY <1>4, <1>5, <1>8
<1> QED
  BY <1>1, <1>4, <1>9, <1>10, <1>11

\* The scan over sorted votes decides as a search among all groups of votes would
\* (MatchTranscript).
THEOREM AgreementSound ==
  MatcherSpec => []LocksOnLargestAgreement
BY MatcherInvariance, LockIsAgreed, PTL

\* Never lock wrong: fewer wrong votes than make a lock do no harm (MatchTranscript).
THEOREM StraysSound ==
  MatcherSpec => []FewStraysNoHarm
BY MatcherInvariance, StraysAreOutvoted, PTL

\* The windows as SubtitleSync counts them.
Counted == IF fed < kMinWindows THEN fed ELSE kMinWindows

\* What SubtitleSync lets a session do that is fed before its deadline.
SessionIsFed ==
  /\ ~theta.locked
  /\ \/ MayConsult(Counted + 1) /\ theta'.locked
     \/ /\ Counted' = IF Counted < kMinWindows THEN Counted + 1 ELSE Counted
        /\ theta' = theta

\* A session is fed one window at a time, and only one that has not locked; it locks
\* from kMinWindows on, and for good (SyncSession::Feed).
MatcherServesSession == [][SessionIsFed]_<<fed, theta>>

\* A step that shows is a window fed.
LEMMA FeedStep ==
  ASSUME MatcherInv, MatcherInv', [MatcherNext]_matcherVars
  PROVE  [SessionIsFed]_<<fed, theta>>
<1>1. ASSUME ~theta.locked, fed' = fed + 1 PROVE SessionIsFed
  <2>1. kMinWindows \in Nat \ {0} /\ kMinVotes \in Nat \ {0} /\ kMaxSpread \in Nat
        /\ fed \in Nat /\ Increasing(votes) /\ Increasing(votes')
    BY Bounds DEF MatcherInv
  <2>2. theta = NoLock
    BY <1>1, <2>1, Decision DEF MatcherInv
  <2>3. (MayConsult(fed') /\ theta'.locked) \/ theta' = NoLock
    <3>1. CASE MayConsult(fed')
      <4>1. theta' = MatchTranscript(votes')
        BY <3>1 DEF MatcherInv
      <4> QED
        BY <2>1, <3>1, <4>1, Decision
    <3>2. CASE ~MayConsult(fed')
      BY <3>2 DEF MatcherInv, NoLock
    <3> QED
      BY <3>1, <3>2
  <2>4. /\ MayConsult(fed') => MayConsult(Counted + 1)
        /\ Counted' = IF Counted < kMinWindows THEN Counted + 1 ELSE Counted
    BY <1>1, <2>1 DEF Counted, MayConsult
  <2> QED
    BY <1>1, <2>2, <2>3, <2>4 DEF SessionIsFed
<1>2. ASSUME NEW b \in DOMAIN file, NEW i \in DOMAIN file[b], Damage(b, i)
      PROVE  UNCHANGED <<fed, theta>>
  BY <1>2 DEF Damage, Session
<1>3. CASE ReadCues
  BY <1>3 DEF ReadCues
<1>4. ASSUME NEW vote \in ballots, NEW late \in Lateness, FeedVote(vote, late)
      PROVE  SessionIsFed
  BY <1>1, <1>4 DEF FeedVote, StillListening
<1>5. CASE FeedInert
  BY <1>1, <1>5 DEF FeedInert, StillListening
<1>6. CASE UNCHANGED matcherVars
  BY <1>6 DEF matcherVars
<1> QED
  BY <1>2, <1>3, <1>4, <1>5, <1>6 DEF MatcherNext

\* The matcher does what SubtitleSync takes a session that is fed to do: FeedSession, of
\* which MayLock says when a lock may come.
THEOREM FeedSound ==
  MatcherSpec => MatcherServesSession
<1>1. MatcherInv /\ MatcherInv' /\ [MatcherNext]_matcherVars => [SessionIsFed]_<<fed, theta>>
  BY FeedStep
<1> QED
  BY <1>1, MatcherInvariance, PTL DEF MatcherSpec, MatcherServesSession

-----------------------------------------------------------------------------
(* A window's vote, for any words heard and any file. *)

\* Two trigrams are the same if their three words are.
LEMMA SameTrigram ==
  ASSUME NEW Word, NEW heard \in Seq(Word), NEW words \in Seq(Word),
         NEW i \in Starts(heard), NEW j \in Starts(words),
         Trigram(heard, i) = Trigram(words, j)
  PROVE  \A k \in 0 .. 2 : heard[i + k] = words[j + k]
<1>1. PICK n \in Nat : n = Len(heard)
  OBVIOUS
<1>2. PICK m \in Nat : m = Len(words)
  OBVIOUS
<1>3. i \in 1 .. n - 2 /\ j \in 1 .. m - 2
  BY <1>1, <1>2 DEF Starts
<1>4. ASSUME NEW k \in 0 .. 2 PROVE heard[i + k] = words[j + k]
  <2>1. /\ i \in 1 .. n + 1 /\ i + 2 \in i - 1 .. n
        /\ j \in 1 .. m + 1 /\ j + 2 \in j - 1 .. m
        /\ k + 1 \in 1 .. (i + 2) - i + 1 /\ k + 1 \in 1 .. (j + 2) - j + 1
        /\ i + (k + 1) - 1 = i + k /\ j + (k + 1) - 1 = j + k
    BY <1>3, <1>4
  <2>2. SubSeq(heard, i, i + 2)[k + 1] = heard[i + (k + 1) - 1]
    BY <1>1, <2>1, SubSeqProperties
  <2>3. SubSeq(words, j, j + 2)[k + 1] = words[j + (k + 1) - 1]
    BY <1>2, <2>1, SubSeqProperties
  <2> QED
    BY <2>1, <2>2, <2>3 DEF Trigram
<1> QED
  BY <1>4

\* The word that times a vote, and the two before it, are the words heard.
VoteIsHeard(m, heard, words) ==
  /\ m.heard \in 3 .. Len(heard) /\ m.read \in 3 .. Len(words)
  /\ \A k \in 0 .. 2 : heard[m.heard - k] = words[m.read - k]

\* Of the winning region it is the last word heard, and its only place in the file.
VoteIsAlone(m, heard, words) ==
  LET hits   == Hits(heard, words)
      region == Region(Winner(hits), hits)
  IN  /\ <<m.heard - 2, m.read - 2>> \in region
      /\ \A hit \in region : /\ hit[1] + 2 <= m.heard
                             /\ hit[1] + 2 = m.heard => hit[2] + 2 = m.read

\* A window votes by three words in a row that it shares with the file, the last ones
\* of the winning region, and only if they end in one place of it (VoteWindow).
THEOREM VoteSound ==
  ASSUME NEW Word, NEW heard \in Seq(Word), NEW words \in Seq(Word),
         NEW m \in Match(heard, words)
  PROVE  VoteIsHeard(m, heard, words) /\ VoteIsAlone(m, heard, words)
<1> DEFINE hits   == Hits(heard, words)
           winner == Winner(hits)
           region == Region(winner, hits)
           last   == LastMatched(winner, hits)
           ends   == Endpoints(winner, hits)
<1>1. PICK n \in Nat : n = Len(heard)
  OBVIOUS
<1>2. PICK l \in Nat : l = Len(words)
  OBVIOUS
<1>3. /\ Cardinality(ends) = 1
      /\ \E e \in ends : m = [heard |-> last, read |-> e]
  <2> DEFINE nothing == hits = {} \/ ~IsClear(winner, hits)
                          \/ Cardinality(ends) # 1
  <2>1. Match(heard, words) =
          IF nothing THEN {} ELSE {[heard |-> last, read |-> e] : e \in ends}
    BY DEF Match
  <2>2. ~nothing
    BY <2>1
  <2> QED
    BY <2>1, <2>2
<1>4. \A hit \in region :
        /\ hit \in Starts(heard) \X Starts(words)
        /\ Trigram(heard, hit[1]) = Trigram(words, hit[2])
  BY DEF Region, Hits
<1>5. \A hit \in region :
        /\ hit = <<hit[1], hit[2]>>
        /\ hit[1] \in Starts(heard) /\ hit[2] \in Starts(words)
        /\ hit[1] \in 1 .. n - 2 /\ hit[2] \in 1 .. l - 2
  BY <1>1, <1>2, <1>4 DEF Starts
<1>6. ends = {hit[2] + 2 : hit \in {h \in region : h[1] + 2 = last}}
  BY DEF Endpoints
<1>7. last = Max({hit[1] : hit \in region}) + 2
  BY DEF LastMatched
<1> HIDE DEF hits, region, ends, last
<1>8. PICK e \in ends : m = [heard |-> last, read |-> e]
  BY <1>3
<1>9. PICK hit \in region : hit[1] + 2 = last /\ hit[2] + 2 = e
  BY <1>6, <1>8
<1>10. /\ m.heard = hit[1] + 2 /\ m.read = hit[2] + 2
       /\ m.heard - 2 = hit[1] /\ m.read - 2 = hit[2]
  <2>1. m.heard = last /\ m.read = e
    BY <1>8
  <2>2. hit[1] \in Int /\ hit[2] \in Int
    BY <1>1, <1>2, <1>5, <1>9
  <2> QED
    BY <1>9, <2>1, <2>2
<1>11. \A k \in 0 .. 2 : heard[hit[1] + k] = words[hit[2] + k]
  BY <1>4, <1>5, <1>9, SameTrigram
<1>12. VoteIsHeard(m, heard, words)
  <2>1. ASSUME NEW k \in 0 .. 2 PROVE heard[m.heard - k] = words[m.read - k]
    <3>1. /\ 2 - k \in 0 .. 2
          /\ hit[1] + (2 - k) = m.heard - k /\ hit[2] + (2 - k) = m.read - k
      BY <1>5, <1>9, <1>10
    <3> QED
      BY <1>11, <3>1
  <2>2. m.heard \in 3 .. n /\ m.read \in 3 .. l
    BY <1>1, <1>2, <1>5, <1>9, <1>10
  <2> QED
    BY <1>1, <1>2, <2>1, <2>2 DEF VoteIsHeard
<1>13. <<m.heard - 2, m.read - 2>> \in region
  BY <1>5, <1>9, <1>10
<1>14. ASSUME NEW h \in region PROVE h[1] + 2 <= m.heard
  <2> DEFINE heads == {g[1] : g \in region}
  <2>1. heads \in SUBSET (0 .. n) /\ h[1] \in heads /\ h[1] \in Nat
    BY <1>1, <1>5, <1>14
  <2>2. last = Max(heads) + 2
    BY <1>7
  <2> HIDE DEF heads
  <2>3. Max(heads) \in 0 .. n /\ h[1] <= Max(heads)
    BY <2>1, Extremes
  <2> QED
    BY <1>8, <2>1, <2>2, <2>3
<1>15. ASSUME NEW h \in region, h[1] + 2 = m.heard PROVE h[2] + 2 = m.read
  <2>1. h[2] + 2 \in ends
    BY <1>6, <1>8, <1>15
  <2>2. \E x : ends = {x}
    <3>1. Cardinality(ends) = 1
      BY <1>3
    <3>2. IsFiniteSet(ends)
      <4>1. ends \in SUBSET (1 .. l)
        BY <1>2, <1>5, <1>6
      <4>2. IsFiniteSet(1 .. l)
        <5>1. l \in Int /\ 1 \in Int
          BY <1>2
        <5> QED
          BY <5>1, FS_Interval
      <4> QED
        BY <4>1, <4>2, FS_Subset
    <3> QED
      BY <3>1, <3>2, FS_Singleton
  <2> QED
    BY <1>8, <2>1, <2>2
<1> QED
  BY <1>12, <1>13, <1>14, <1>15 DEF VoteIsAlone, hits, region

\* A number for each word heard, 0 or its place in a row from first to last: next to
\* a place is the next one, or 0.
IsRow(places, first, last) ==
  /\ places \in Seq(0 .. last)
  /\ \A j \in 1 .. Len(places) : places[j] # 0 => places[j] >= first
  /\ \A j \in 1 .. Len(places) - 1 :
       places[j] # 0 /\ places[j + 1] # 0 => places[j + 1] = places[j] + 1

\* A window is a stretch with at most one word wrong: the rest is in its order.
LEMMA MisheardIsRow ==
  ASSUME NEW first \in Nat \ {0}, NEW last \in Nat, first <= last, NEW stretch,
         stretch = [j \in 1 .. last - first + 1 |-> first + j - 1],
         NEW places \in Misheard(stretch)
  PROVE  IsRow(places, first, last)
<1>1. PICK n \in Nat : n = last - first + 1
  OBVIOUS
<1>2. /\ stretch \in Seq(0 .. last) /\ Len(stretch) = n /\ DOMAIN stretch = 1 .. n
      /\ \A j \in 1 .. n : stretch[j] = first + j - 1 /\ stretch[j] \in 0 .. last
  <2>1. \A j \in 1 .. n : first + j - 1 \in 0 .. last
    BY <1>1
  <2>2. stretch \in [1 .. n -> 0 .. last] /\ \A j \in 1 .. n : stretch[j] = first + j - 1
    BY <1>1, <2>1
  <2> QED
    BY <2>1, <2>2
<1>3. CASE places = stretch
  BY <1>1, <1>2, <1>3 DEF IsRow
<1>4. CASE places = Append(stretch, 0)
  <2>1. /\ places \in Seq(0 .. last) /\ Len(places) = n + 1
        /\ \A j \in 1 .. n : places[j] = stretch[j]
        /\ places[n + 1] = 0
    BY <1>2, <1>4, AppendProperties
  <2>2. \A j \in 1 .. n : places[j] = first + j - 1
    BY <1>2, <2>1
  <2>3. ASSUME NEW j \in 1 .. n + 1, places[j] # 0 PROVE places[j] >= first
    <3>1. j \in 1 .. n
      BY <1>1, <2>1, <2>3
    <3> QED
      BY <2>2, <3>1
  <2>4. ASSUME NEW j \in 1 .. n, places[j] # 0, places[j + 1] # 0
        PROVE  places[j + 1] = places[j] + 1
    <3>1. j + 1 \in 1 .. n
      BY <1>1, <2>1, <2>4
    <3> QED
      BY <2>2, <3>1
  <2>5. (n + 1) - 1 = n
    BY <1>1
  <2> QED
    BY <2>1, <2>3, <2>4, <2>5 DEF IsRow
<1>5. ASSUME NEW k \in DOMAIN stretch, places = ReplaceAt(stretch, k, 0)
      PROVE  IsRow(places, first, last)
  <2>1. k \in 1 .. n /\ 0 \in 0 .. last
    BY <1>2
  <2>2. places = [stretch EXCEPT ![k] = 0]
    BY <1>5 DEF ReplaceAt
  <2>3. /\ places \in Seq(0 .. last) /\ Len(places) = n
        /\ \A j \in 1 .. n : places[j] = IF j = k THEN 0 ELSE stretch[j]
    BY <1>2, <2>1, <2>2, ExceptSeq
  <2>4. \A j \in 1 .. n : places[j] # 0 => places[j] = first + j - 1
    BY <1>2, <2>3
  <2>5. \A j \in 1 .. n : places[j] # 0 => places[j] >= first
    BY <2>4
  <2>6. ASSUME NEW j \in 1 .. n - 1, places[j] # 0, places[j + 1] # 0
        PROVE  places[j + 1] = places[j] + 1
    <3>1. j \in 1 .. n /\ j + 1 \in 1 .. n
      BY <1>1
    <3> QED
      BY <2>4, <2>6, <3>1
  <2> QED
    BY <2>3, <2>5, <2>6 DEF IsRow
<1>6. ASSUME NEW k \in DOMAIN stretch, places = InsertAt(stretch, k, 0)
      PROVE  IsRow(places, first, last)
  <2>1. k \in 1 .. n /\ 0 \in 0 .. last /\ k - 1 \in Nat /\ k - 1 <= n /\ (k - 1) + 1 = k
    BY <1>1, <1>2
  <2>2. /\ places \in Seq(0 .. last) /\ Len(places) = n + 1
        /\ \A j \in 1 .. k - 1 : places[j] = stretch[j]
        /\ places[k] = 0
        /\ \A j \in k + 1 .. n + 1 : places[j] = stretch[j - 1]
    <3> DEFINE ws == InsertAt(stretch, (k - 1) + 1, 0)
    <3>1. /\ ws \in Seq(0 .. last) /\ Len(ws) = n + 1
          /\ \A j \in 1 .. k - 1 : ws[j] = stretch[j]
          /\ ws[(k - 1) + 1] = 0
          /\ \A j \in (k - 1) + 2 .. n + 1 : ws[j] = stretch[j - 1]
      <4>1. /\ ws \in Seq(0 .. last) /\ Len(ws) = Len(stretch) + 1
            /\ \A j \in 1 .. k - 1 : ws[j] = stretch[j]
            /\ ws[(k - 1) + 1] = 0
            /\ \A j \in (k - 1) + 2 .. Len(stretch) + 1 : ws[j] = stretch[j - 1]
        <5>1. /\ stretch \in Seq(0 .. last) /\ k - 1 \in Nat /\ k - 1 <= Len(stretch)
              /\ 0 \in 0 .. last
          BY <1>2, <2>1
        <5>2. IsInserted(ws, stretch, k - 1, 0, 0 .. last)
          BY <5>1, Inserted
        <5> QED
          BY <5>2 DEF IsInserted
      <4> HIDE DEF ws
      <4> QED
        BY <1>2, <4>1
    <3>2. ws = places
      BY <1>6, <2>1
    <3> HIDE DEF ws
    <3>3. (k - 1) + 2 = k + 1
      BY <2>1
    <3> QED
      BY <2>1, <3>1, <3>2, <3>3
  <2>3. /\ \A j \in 1 .. k - 1 : places[j] = first + j - 1
        /\ \A j \in k + 1 .. n + 1 : places[j] = first + j - 2
    <3>1. ASSUME NEW j \in 1 .. k - 1 PROVE places[j] = first + j - 1
      <4>1. j \in 1 .. n
        BY <1>1, <2>1
      <4> QED
        BY <1>2, <2>2, <4>1
    <3>2. ASSUME NEW j \in k + 1 .. n + 1 PROVE places[j] = first + j - 2
      <4>1. j - 1 \in 1 .. n /\ first + (j - 1) - 1 = first + j - 2
        BY <1>1, <2>1
      <4> QED
        BY <1>2, <2>2, <4>1
    <3> QED
      BY <3>1, <3>2
  <2>4. \A j \in 1 .. n + 1 : j \in 1 .. k - 1 \/ j = k \/ j \in k + 1 .. n + 1
    BY <1>1, <2>1
  <2>5. ASSUME NEW j \in 1 .. n, places[j] # 0, places[j + 1] # 0
        PROVE  places[j + 1] = places[j] + 1
    <3>1. CASE j + 1 < k
      BY <1>1, <2>1, <2>3, <3>1
    <3>2. CASE j > k
      BY <1>1, <2>1, <2>3, <3>2
    <3>3. j # k /\ j + 1 # k
      BY <2>2, <2>5
    <3> QED
      BY <1>1, <2>1, <3>1, <3>2, <3>3
  <2>6. ASSUME NEW j \in 1 .. n + 1, places[j] # 0 PROVE places[j] >= first
    <3>1. CASE j \in 1 .. k - 1
      BY <2>3, <3>1
    <3>2. CASE j \in k + 1 .. n + 1
      <4>1. j >= 2 /\ places[j] = first + j - 2
        BY <1>1, <2>1, <2>3, <3>2
      <4> QED
        BY <4>1
    <3> QED
      BY <2>2, <2>4, <2>6, <3>1, <3>2
  <2>7. (n + 1) - 1 = n
    BY <1>1
  <2> QED
    BY <2>2, <2>5, <2>6, <2>7 DEF IsRow
<1> QED
  BY <1>3, <1>4, <1>5, <1>6 DEF Misheard

\* What a stream of words with their places and times is.
Timed(Word) == [word : [word : Word, place : Nat], time : Int]

\* No word that was misheard, or never said, times a vote: it is timed by three words
\* that were said in a row, in the stretch, and are in the file in a row. It is wrong
\* only if they are there more than once (VoteWindow).
THEOREM VotesAreSaid ==
  ASSUME NEW Word, Noise \notin Word,
         NEW said \in Seq(Timed(Word)), NEW read \in Seq(Timed(Word)),
         NEW stretch \in Stretches(said),
         NEW vote \in VotesFor(stretch, said, read)
  PROVE  \E p \in stretch[1] + 2 .. Last(stretch), r \in 3 .. Len(read) :
           /\ \A k \in 0 .. 2 : said[p - k].word.word = read[r - k].word.word
           /\ vote.offset = read[r].time - said[Last(stretch)].time
           /\ vote.right = (p = read[r].word.place)
<1>1. PICK n \in Nat : n = Len(said) /\ DOMAIN said = 1 .. n
  OBVIOUS
<1>2. PICK first \in 1 .. n, last \in 1 .. n :
        first <= last /\ stretch = [j \in 1 .. last - first + 1 |-> first + j - 1]
  <2>1. PICK span \in {p \in (DOMAIN said) \X (DOMAIN said) : p[1] <= p[2]} :
          stretch = [j \in 1 .. span[2] - span[1] + 1 |-> span[1] + j - 1]
    BY DEF Stretches
  <2>2. span[1] \in 1 .. n /\ span[2] \in 1 .. n /\ span[1] <= span[2]
    BY <1>1, <2>1
  <2> QED
    BY <2>1, <2>2
<1>3. stretch[1] = first /\ Last(stretch) = last
  <2>1. PICK l \in Nat \ {0} : l = last - first + 1
    BY <1>1, <1>2
  <2>2. stretch = [j \in 1 .. l |-> first + j - 1] /\ 1 \in 1 .. l /\ l \in 1 .. l
    BY <1>2, <2>1
  <2>3. Len(stretch) = l /\ stretch[1] = first + 1 - 1 /\ stretch[l] = first + l - 1
    BY <2>2
  <2> QED
    BY <1>1, <1>2, <2>1, <2>3 DEF Last
<1>4. PICK places \in Misheard(stretch) :
        \E m \in Match(Heard(places, said), Words(read)) :
          vote = [offset |-> read[m.read].time - said[Last(stretch)].time,
                  right  |-> places[m.heard] = read[m.read].word.place]
  BY DEF VotesFor
<1> DEFINE heard == Heard(places, said)
           words == Words(read)
<1>5. PICK m \in Match(heard, words) :
        vote = [offset |-> read[m.read].time - said[Last(stretch)].time,
                right  |-> places[m.heard] = read[m.read].word.place]
  BY <1>4
<1>6. IsRow(places, first, last)
  <2>1. first \in Nat \ {0} /\ last \in Nat
    BY <1>1, <1>2
  <2> QED
    BY <1>2, <1>4, <2>1, MisheardIsRow
<1>7. PICK l \in Nat : l = Len(places) /\ DOMAIN places = 1 .. l
  BY <1>6 DEF IsRow
<1>8. PICK t \in Nat : t = Len(read) /\ DOMAIN read = 1 .. t
  OBVIOUS
<1>9. /\ heard \in Seq(Word \union {Noise}) /\ Len(heard) = l
      /\ \A j \in 1 .. l : heard[j] = IF places[j] = 0 THEN Noise
                                      ELSE said[places[j]].word.word
  <2>1. heard = [j \in 1 .. l |-> IF places[j] = 0 THEN Noise ELSE said[places[j]].word.word]
    BY <1>7 DEF Heard
  <2>2. ASSUME NEW j \in 1 .. l, places[j] # 0 PROVE said[places[j]].word.word \in Word
    <3>1. places[j] \in 0 .. last
      BY <1>6, <1>7 DEF IsRow
    <3>2. places[j] \in 1 .. n
      BY <1>1, <1>2, <2>2, <3>1
    <3>3. said[places[j]] \in Timed(Word)
      BY <1>1, <3>2
    <3> QED
      BY <3>3 DEF Timed
  <2>3. heard \in [1 .. l -> Word \union {Noise}]
    BY <2>1, <2>2
  <2> QED
    BY <2>1, <2>3
<1>10. /\ words \in Seq(Word \union {Noise}) /\ Len(words) = t
       /\ \A i \in 1 .. t : words[i] = read[i].word.word /\ words[i] \in Word
  <2>1. words = [i \in 1 .. t |-> read[i].word.word]
    BY <1>8 DEF Words
  <2>2. ASSUME NEW i \in 1 .. t PROVE read[i].word.word \in Word
    <3>1. read[i] \in Timed(Word)
      BY <1>8
    <3> QED
      BY <3>1 DEF Timed
  <2>3. words \in [1 .. t -> Word \union {Noise}]
    BY <2>1, <2>2
  <2> QED
    BY <2>1, <2>2, <2>3
<1> HIDE DEF heard, words
<1>11. /\ m.heard \in 3 .. l /\ m.read \in 3 .. t
       /\ \A k \in 0 .. 2 : heard[m.heard - k] = words[m.read - k]
  <2>1. VoteIsHeard(m, heard, words)
    BY <1>5, <1>9, <1>10, VoteSound
  <2> QED
    BY <1>9, <1>10, <2>1 DEF VoteIsHeard
<1>12. PICK h \in 3 .. l, r \in 3 .. t : h = m.heard /\ r = m.read
  BY <1>11
<1>13. ASSUME NEW k \in 0 .. 2
       PROVE  places[h - k] # 0 /\ said[places[h - k]].word.word = read[r - k].word.word
  <2>1. h - k \in 1 .. l /\ r - k \in 1 .. t
    BY <1>7, <1>8, <1>12, <1>13
  <2>2. heard[h - k] = read[r - k].word.word /\ read[r - k].word.word \in Word
    BY <1>10, <1>11, <1>12, <2>1
  <2>3. places[h - k] # 0
    BY <1>9, <2>1, <2>2
  <2> QED
    BY <1>9, <2>1, <2>2, <2>3
<1>14. /\ places[h] \in first + 2 .. last
       /\ \A k \in 0 .. 2 : places[h - k] = places[h] - k
  <2>1. /\ h \in 1 .. l /\ h - 1 \in 1 .. l - 1 /\ h - 2 \in 1 .. l - 1 /\ h - 2 \in 1 .. l
        /\ (h - 1) + 1 = h /\ (h - 2) + 1 = h - 1 /\ h - 0 = h
        /\ 0 \in 0 .. 2 /\ 1 \in 0 .. 2 /\ 2 \in 0 .. 2
    BY <1>7, <1>12
  <2>2. places[h] # 0 /\ places[h - 1] # 0 /\ places[h - 2] # 0
    BY <1>13, <2>1
  <2>3. places[h] = places[h - 1] + 1 /\ places[h - 1] = places[h - 2] + 1
    BY <1>6, <1>7, <2>1, <2>2 DEF IsRow
  <2>4. places[h - 2] >= first /\ places[h] \in 0 .. last /\ places[h - 2] \in 0 .. last
    BY <1>6, <1>7, <2>1, <2>2 DEF IsRow
  <2>5. places[h] - 1 = places[h - 1] /\ places[h] - 2 = places[h - 2]
    BY <1>1, <1>2, <2>3, <2>4
  <2>6. ASSUME NEW k \in 0 .. 2 PROVE places[h - k] = places[h] - k
    <3>1. k = 0 \/ k = 1 \/ k = 2
      BY <2>6
    <3>2. places[h] - 0 = places[h]
      BY <2>4
    <3> QED
      BY <2>1, <2>5, <3>1, <3>2
  <2> QED
    BY <1>1, <1>2, <2>3, <2>4, <2>6
<1>15. /\ \A k \in 0 .. 2 : said[places[h] - k].word.word = read[r - k].word.word
       /\ vote.offset = read[r].time - said[Last(stretch)].time
       /\ vote.right = (places[h] = read[r].word.place)
  <2>1. \A k \in 0 .. 2 : said[places[h] - k].word.word = read[r - k].word.word
    BY <1>13, <1>14
  <2> QED
    BY <1>5, <1>12, <2>1
<1>16. places[h] \in stretch[1] + 2 .. Last(stretch) /\ r \in 3 .. Len(read)
  BY <1>3, <1>8, <1>12, <1>14
<1> QED
  BY <1>15, <1>16

=============================================================================
