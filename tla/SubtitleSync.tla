---------------------------- MODULE SubtitleSync ----------------------------
(***************************************************************************)
(* The whisper tap and the one-shot subtitle sync of stream/stream.cpp.    *)
(*                                                                         *)
(* Three threads share them:                                               *)
(*   main     the poll loop of main.cpp: Poll, and Stop at the end,        *)
(*   io       the web server's thread, which runs one hook at a time:      *)
(*            SetSubtitleFile, SetSubtitleTime, StartSubtitleSync,         *)
(*            SetWhisperState, ClearWhisperModel,                          *)
(*   whisper  RunWhisper, which samples the generation and the transcriber *)
(*            without a lock, infers for seconds, and then feeds the       *)
(*            session under sync_mutex_.                                   *)
(* mutex_ and whisper_mutex_ are held across blocking work and are         *)
(* variables here; a section under sync_mutex_ never blocks and is one     *)
(* step.                                                                   *)
(***************************************************************************)
EXTENDS SyncFeed

CONSTANTS
  Files,              \* subtitle files, each with at least one cue
  Models,             \* whisper model files
  NoFile, NoModel,    \* a null optional / an empty path
  kSyncListenWindow,  \* ticks of the listening window
  MaxGeneration       \* bound: users stop ending or starting sessions here

ASSUME SyncAssumption ==
  /\ NoFile \notin Files
  /\ NoModel \notin Models
  /\ kSyncListenWindow \in Nat
  /\ MaxGeneration \in Nat

VARIABLES
  mutex, whisperMutex,          \* holder of mutex_ / whisper_mutex_, or "free"
  mainPc, stopping,             \* where main is; whether it runs Stop, not Poll
  ioPc, ioPrevious, ioSelected, ioEnabled, ioTranscriber,  \* the running hook
  whisperPc, seenGeneration, seenTranscriber,  \* RunWhisper and its locals
  captureState, captureHealth,  \* capture_state_; what Poll will find of it
  captureFailed, outputFailed,  \* the two flags behind Failed()
  subtitlePath, parser,         \* subtitle_path_; subtitle_parser_ # nullptr
  clockSource,                  \* what last moved the SRT position
  continuous, demandSession,    \* WhisperDemand
  transcriber, created,         \* whisper_transcriber_ (and enabled, and gate)
  modelPath,                    \* whisper_model_path_
  sessionCues, remaining, windows,  \* sync_session_: cues, deadline - now, and
                                    \* windows fed, counted up to kMinWindows
  generation, syncStatus,       \* sync_generation_, sync_state_.status
  pending,                      \* theta to apply, as the file it was matched in
  starts, seenStart, userMoved  \* history, read by the properties only

locks      == <<mutex, whisperMutex>>
main       == <<mainPc, stopping>>
io         == <<ioPc, ioPrevious, ioSelected, ioEnabled, ioTranscriber>>
whisper    == <<whisperPc, seenGeneration, seenTranscriber, seenStart>>
capture    == <<captureState, captureHealth, captureFailed, outputFailed>>
subtitles  == <<subtitlePath, parser, clockSource, userMoved>>
tap        == <<continuous, transcriber, created, modelPath>>
session    == <<sessionCues, remaining, windows, generation, syncStatus,
                pending, demandSession>>
vars == <<locks, main, io, whisper, capture, subtitles, tap, session, starts>>

NoTranscriber == [id |-> 0, model |-> NoModel]
Transcribers  == [id : Nat, model : Models \cup {NoModel}]

Listening == sessionCues # NoFile
Wanted    == continuous \/ demandSession
Failed    == captureFailed \/ outputFailed

-----------------------------------------------------------------------------
Init ==
  /\ mutex = "free" /\ whisperMutex = "free"
  /\ mainPc = "loop" /\ stopping = FALSE
  /\ ioPc = "idle" /\ ioPrevious = NoFile /\ ioSelected = NoModel
  /\ ioEnabled = "keep" /\ ioTranscriber = NoTranscriber
  /\ whisperPc = "loop" /\ seenGeneration = 0 /\ seenTranscriber = NoTranscriber
  /\ captureState = "capturing" /\ captureHealth = "ok"
  /\ captureFailed = FALSE /\ outputFailed = FALSE
  /\ subtitlePath \in Files \cup {NoFile}
  /\ parser = (subtitlePath # NoFile) /\ clockSource = "start"
  /\ continuous = FALSE /\ demandSession = FALSE
  /\ transcriber = NoTranscriber /\ created = 0 /\ modelPath = NoModel
  /\ sessionCues = NoFile /\ remaining = 0 /\ windows = 0
  /\ generation = 0 /\ syncStatus = "idle" /\ pending = NoFile
  /\ starts = 0 /\ seenStart = 0 /\ userMoved = FALSE

-----------------------------------------------------------------------------
(* Sections under sync_mutex_ that several callers share. Definitions whose    *)
(* name ends in a _Word are faults: each stands for a plausible bug in the     *)
(* definition it precedes, and shows that a property would notice it.          *)

\* The generation moves on at every session start and end, and never back.
NextGeneration == generation + 1

\* EndSyncSessionLocked: a theta is kept for Poll only by a lock.
EndSession(status) ==
  /\ sessionCues' = NoFile /\ remaining' = 0 /\ windows' = 0
  /\ generation' = NextGeneration
  /\ demandSession' = FALSE
  /\ syncStatus' = status
  /\ pending' = IF status = "synced" THEN sessionCues ELSE NoFile

\* CancelSyncLocked: also a session that is over but not applied.
CancelSync_LiveOnly ==
  IF Listening THEN EndSession("idle") ELSE UNCHANGED session
CancelSync == EndSession("idle")

\* DisableWhisperLocked
DisableWhisper == transcriber' = NoTranscriber

\* ReleaseUnusedWhisper, by the main thread, once whisper_mutex_ is free: it
\* looks at the demand of this moment, not of when the session ended.
ReleaseUnusedWhisper_Always ==
  whisperMutex = "free" /\ DisableWhisper /\ UNCHANGED <<continuous, created, modelPath>>
ReleaseUnusedWhisper ==
  /\ whisperMutex = "free"
  /\ IF Wanted THEN UNCHANGED transcriber ELSE DisableWhisper
  /\ UNCHANGED <<continuous, created, modelPath>>

\* WhisperTranscriber::Create, when the model at path loads: a fresh instance.
\* An empty path or a failed load leaves the caller's state alone.
NewTranscriber(path) == [id |-> created + 1, model |-> path]

-----------------------------------------------------------------------------
(* The io thread: one web hook at a time. *)

\* A hook ends: the thread's locals are gone.
IoReturn ==
  /\ ioPc' = "idle" /\ ioPrevious' = NoFile /\ ioSelected' = NoModel
  /\ ioEnabled' = "keep" /\ ioTranscriber' = NoTranscriber

\* SetSubtitleFile with an unreadable or cueless file: nothing changes, but
\* a failed restore of the old bytes fails the output.
RejectSubtitleFile ==
  /\ ioPc = "idle" /\ mutex = "free"
  /\ outputFailed' \in {outputFailed, TRUE}
  /\ UNCHANGED <<locks, main, io, whisper, captureState, captureHealth,
                 captureFailed, subtitles, tap, session, starts>>

\* SetSubtitleFile up to the output rebuild, which blocks under mutex_.
SwitchSubtitleFile(path) ==
  /\ ioPc = "idle" /\ mutex = "free" /\ generation < MaxGeneration
  /\ mutex' = "io"
  /\ ioPc' = "rebuild" /\ ioPrevious' = subtitlePath
  /\ subtitlePath' = path /\ userMoved' = TRUE
  /\ CancelSync
  /\ UNCHANGED <<whisperMutex, main, ioSelected, ioEnabled, ioTranscriber,
                 whisper, capture, parser, clockSource, tap, starts>>

\* The rebuild and the commit succeeded.
SwitchDone ==
  /\ ioPc = "rebuild"
  /\ parser' = (subtitlePath # NoFile) /\ clockSource' = "start"
  /\ outputFailed' = FALSE
  /\ mutex' = "free" /\ IoReturn
  /\ UNCHANGED <<whisperMutex, main, whisper, captureState, captureHealth,
                 captureFailed, subtitlePath, userMoved, tap, session, starts>>

\* The rebuild failed and the previous output was kept or reopened.
SwitchRolledBack ==
  /\ ioPc = "rebuild"
  /\ subtitlePath' = ioPrevious
  /\ \/ UNCHANGED <<parser, outputFailed>>
     \/ parser' = (ioPrevious # NoFile) /\ outputFailed' = FALSE
  /\ mutex' = "free" /\ IoReturn
  /\ UNCHANGED <<whisperMutex, main, whisper, captureState, captureHealth,
                 captureFailed, clockSource, userMoved, tap, session, starts>>

\* The rollback failed too. The output is gone, or it is the candidate's,
\* started before its commit failed.
SwitchFailed ==
  /\ ioPc = "rebuild"
  /\ subtitlePath' = ioPrevious
  /\ parser' \in {FALSE, subtitlePath # NoFile} /\ clockSource' = "start"
  /\ outputFailed' = TRUE
  /\ mutex' = "free" /\ IoReturn
  /\ UNCHANGED <<whisperMutex, main, whisper, captureState, captureHealth,
                 captureFailed, userMoved, tap, session, starts>>

SetSubtitleTime ==
  /\ ioPc = "idle" /\ mutex = "free" /\ generation < MaxGeneration
  /\ CancelSync
  /\ userMoved' = TRUE
  /\ clockSource' = IF parser THEN "user" ELSE clockSource
  /\ UNCHANGED <<locks, main, io, whisper, capture, subtitlePath, parser, tap,
                 starts>>

\* StartSubtitleSync: the checks under mutex_; a refusal changes nothing.
RequestSync(model) ==
  /\ ioPc = "idle" /\ mutex = "free" /\ generation < MaxGeneration
  /\ subtitlePath # NoFile
  /\ captureState = "capturing"
  /\ mutex' = "io"
  /\ ioPc' = "model" /\ ioSelected' = model
  /\ UNCHANGED <<whisperMutex, main, ioPrevious, ioEnabled, ioTranscriber,
                 whisper, capture, subtitles, tap, session, starts>>

\* It takes whisper_mutex_ and rides the running transcriber, or loads one.
SyncModel ==
  /\ ioPc = "model" /\ whisperMutex = "free"
  /\ LET selected == IF ioSelected = NoModel THEN modelPath ELSE ioSelected IN
     /\ ioSelected' = selected
     /\ IF transcriber # NoTranscriber
        THEN ioTranscriber' = transcriber /\ UNCHANGED created
        ELSE /\ selected # NoModel
             /\ ioTranscriber' = NewTranscriber(selected)
             /\ created' = created + 1
  /\ whisperMutex' = "io" /\ ioPc' = "commit"
  /\ UNCHANGED <<mutex, main, ioPrevious, ioEnabled, whisper, capture,
                 subtitles, continuous, transcriber, modelPath, session, starts>>

\* No model is selected, or it does not load: kModelUnavailable.
SyncModelUnavailable ==
  /\ ioPc = "model" /\ whisperMutex = "free"
  /\ transcriber = NoTranscriber
  /\ mutex' = "free" /\ IoReturn
  /\ UNCHANGED <<whisperMutex, main, whisper, capture, subtitles, tap, session,
                 starts>>

\* Only a session that loads its transcriber selects the model.
ModelAfterStart ==
  IF transcriber = NoTranscriber THEN ioSelected ELSE modelPath

\* The section under sync_mutex_ that starts (or restarts) the session.
StartSession ==
  /\ ioPc = "commit"
  /\ sessionCues' = subtitlePath /\ remaining' = kSyncListenWindow /\ windows' = 0
  /\ generation' = NextGeneration
  /\ syncStatus' = "listening" /\ pending' = NoFile
  /\ demandSession' = TRUE
  /\ modelPath' = ModelAfterStart
  /\ transcriber' = ioTranscriber
  /\ starts' = starts + 1 /\ userMoved' = FALSE
  /\ mutex' = "free" /\ whisperMutex' = "free" /\ IoReturn
  /\ UNCHANGED <<main, whisper, capture, subtitlePath, parser, clockSource,
                 continuous, created>>

\* SetWhisperState up to its second section: the demand it would leave is
\* read, and a transcriber loaded only if that is continuous.
PrepareWhisper(enabled, model) ==
  /\ ioPc = "idle" /\ whisperMutex = "free" /\ generation < MaxGeneration
  /\ LET path  == IF model = NoModel THEN modelPath ELSE model
         wants == IF enabled = "keep" THEN continuous ELSE enabled = "on"
     IN /\ ioSelected' = path
        /\ IF wants /\ (path # modelPath \/ transcriber = NoTranscriber)
           THEN /\ path # NoModel
                /\ ioTranscriber' = NewTranscriber(path)
                /\ created' = created + 1
           ELSE ioTranscriber' = transcriber /\ UNCHANGED created
  /\ ioEnabled' = enabled
  /\ whisperMutex' = "io" /\ ioPc' = "apply"
  /\ UNCHANGED <<mutex, main, ioPrevious, whisper, capture, subtitles,
                 continuous, transcriber, modelPath, session, starts>>

\* A model change or an explicit disable ends the session it finds.
ToggleEndsSession == ioSelected # modelPath \/ ioEnabled = "off"

\* The second section needs sync_mutex_ only; mutex_ would be out of order.
MayApply == ioPc = "apply"

\* SetWhisperState's second section under sync_mutex_.
ApplyWhisper ==
  /\ MayApply
  /\ continuous' = IF ioEnabled = "keep" THEN continuous ELSE ioEnabled = "on"
  /\ IF ToggleEndsSession
     THEN EndSession(IF Listening THEN "failed" ELSE "idle")
     ELSE UNCHANGED session
  /\ modelPath' = ioSelected
  /\ IF continuous' \/ demandSession'
     THEN transcriber' = ioTranscriber
     ELSE DisableWhisper
  /\ whisperMutex' = "free" /\ IoReturn
  /\ UNCHANGED <<mutex, main, whisper, capture, subtitles, created, starts>>

ClearWhisperModel ==
  /\ ioPc = "idle" /\ whisperMutex = "free"
  /\ transcriber = NoTranscriber
  /\ modelPath' = NoModel
  /\ UNCHANGED <<locks, main, io, whisper, capture, subtitles, continuous,
                 transcriber, created, session, starts>>

-----------------------------------------------------------------------------
(* The whisper thread: RunWhisper. *)

\* The loop's stop check and a sample from the tap's appsink.
PullSample ==
  /\ whisperPc = "loop" /\ mainPc # "join"
  /\ whisperPc' = "sampled"
  /\ UNCHANGED <<locks, main, io, seenGeneration, seenTranscriber, seenStart,
                 capture, subtitles, tap, session, starts>>

LoadGeneration ==
  /\ whisperPc = "sampled"
  /\ whisperPc' = "tagged"
  /\ seenGeneration' = generation /\ seenStart' = starts
  /\ UNCHANGED <<locks, main, io, seenTranscriber, capture, subtitles, tap,
                 session, starts>>

\* A null transcriber drops the buffer.
LoadTranscriber ==
  /\ whisperPc = "tagged"
  /\ whisperPc' = IF transcriber = NoTranscriber THEN "loop" ELSE "push"
  /\ seenTranscriber' = transcriber
  /\ UNCHANGED <<locks, main, io, seenGeneration, seenStart, capture,
                 subtitles, tap, session, starts>>

\* Push infers when its window is full; without a transcription nothing is fed.
Infer ==
  /\ whisperPc = "push"
  /\ whisperPc' \in {"loop", "feed"}
  /\ UNCHANGED <<locks, main, io, seenGeneration, seenTranscriber, seenStart,
                 capture, subtitles, tap, session, starts>>

\* The feed needs sync_mutex_ only: teardown joins this thread under mutex_.
FeedReady_UnderMutex == whisperPc = "feed" /\ mutex = "free"
FeedReady == whisperPc = "feed"

\* The recheck under sync_mutex_ after an inference.
EvidenceCurrent_AnyGeneration == Listening /\ seenTranscriber = transcriber
EvidenceCurrent ==
  Listening /\ seenGeneration = generation /\ seenTranscriber = transcriber

\* SyncSession::Poll: the deadline is exclusive.
Expired_Never == FALSE
Expired == Listening /\ remaining < 0

\* The matcher may lock once enough windows are in, but not after expiry.
MayLock_EvidenceFirst == MayConsult(windows + 1)
MayLock == ~Expired /\ MayConsult(windows + 1)

\* SyncSession::Feed and the end it may bring.
FeedSession ==
  /\ FeedReady /\ EvidenceCurrent
  /\ whisperPc' = "loop"
  /\ \/ Expired /\ EndSession("failed")
     \/ MayLock /\ EndSession("synced")
     \/ /\ ~Expired
        /\ windows' = IF windows < kMinWindows THEN windows + 1 ELSE windows
        /\ UNCHANGED <<sessionCues, remaining, generation, syncStatus, pending,
                       demandSession>>
  /\ UNCHANGED <<locks, main, io, seenGeneration, seenTranscriber, seenStart,
                 capture, subtitles, tap, starts>>

DropEvidence ==
  /\ FeedReady /\ ~EvidenceCurrent
  /\ whisperPc' = "loop"
  /\ UNCHANGED <<locks, main, io, seenGeneration, seenTranscriber, seenStart,
                 capture, subtitles, tap, session, starts>>

\* A stop request, or the end of the stream.
WhisperExits ==
  /\ whisperPc = "loop" /\ (mainPc = "join" \/ captureHealth # "ok")
  /\ whisperPc' = "off"
  /\ UNCHANGED <<locks, main, io, seenGeneration, seenTranscriber, seenStart,
                 capture, subtitles, tap, session, starts>>

-----------------------------------------------------------------------------
(* The main thread: Poll every 50 ms, Stop on a signal or a failure. *)

\* The loop's condition: a signal, and Failed() under mutex_.
CheckLoop ==
  /\ mainPc = "loop" /\ mutex = "free"
  /\ mainPc' \in IF Failed THEN {"stop"} ELSE {"poll", "stop"}
  /\ UNCHANGED <<locks, stopping, io, whisper, capture, subtitles, tap, session,
                 starts>>

\* Poll drains the buses. A device error fails the process; any other end of
\* the capture tears its pipeline down first.
PollCapture ==
  /\ mainPc = "poll" /\ mutex = "free"
  /\ mutex' = "main"
  /\ captureFailed' = (captureFailed \/ captureHealth = "error")
  /\ outputFailed' \in {outputFailed, TRUE}
  /\ mainPc' = IF captureState = "capturing" /\ ~captureFailed'
                  /\ captureHealth # "ok"
               THEN "join" ELSE "sync"
  /\ captureState' = IF captureState = "stopped" THEN "screensaver"
                                                 ELSE captureState
  /\ UNCHANGED <<whisperMutex, stopping, io, whisper, captureHealth, subtitles,
                 tap, session, starts>>

\* A session loses its capture also when its lock is not applied yet.
CaptureEndsSession_Never == FALSE
CaptureEndsSession == Listening \/ pending # NoFile

\* StopCapturePipeline once the whisper thread is joined.
CaptureJoined ==
  /\ mainPc = "join" /\ whisperPc = "off"
  /\ IF CaptureEndsSession
     THEN EndSession("failed") ELSE UNCHANGED session
  /\ captureState' = "stopped"
  /\ mainPc' = "drop"
  /\ UNCHANGED <<locks, stopping, io, whisper, captureHealth, captureFailed,
                 outputFailed, subtitles, tap, starts>>

\* Its ReleaseUnusedWhisper; Poll goes on with the screensaver, Stop returns.
CaptureDropped ==
  /\ mainPc = "drop" /\ ReleaseUnusedWhisper
  /\ IF stopping
     THEN /\ mainPc' = "done" /\ mutex' = "free" /\ parser' = FALSE
          /\ UNCHANGED captureState
     ELSE /\ mainPc' = "sync" /\ captureState' = "screensaver"
          /\ UNCHANGED <<mutex, parser>>
  /\ UNCHANGED <<whisperMutex, stopping, io, whisper, captureHealth,
                 captureFailed, outputFailed, subtitlePath, clockSource,
                 userMoved, session, starts>>

\* An applied lock is not pending any more.
KeepSession ==
  /\ pending' = NoFile
  /\ UNCHANGED <<sessionCues, remaining, windows, generation, syncStatus,
                 demandSession>>

\* Poll's section under sync_mutex_: apply a lock, then expire the session.
PollSync ==
  /\ mainPc = "sync"
  /\ clockSource' = IF pending # NoFile /\ parser THEN "sync" ELSE clockSource
  /\ IF Expired THEN EndSession("failed") ELSE KeepSession
  /\ mainPc' = "tidy"
  /\ UNCHANGED <<locks, stopping, io, whisper, capture, subtitlePath, parser,
                 userMoved, tap, starts>>

PollRelease ==
  /\ mainPc = "tidy" /\ ReleaseUnusedWhisper
  /\ mainPc' = "loop" /\ mutex' = "free"
  /\ UNCHANGED <<whisperMutex, stopping, io, whisper, capture, subtitles,
                 session, starts>>

\* Stop takes mutex_ and requests the capture threads' stop.
BeginStop ==
  /\ mainPc = "stop" /\ mutex = "free"
  /\ mutex' = "main" /\ stopping' = TRUE
  /\ mainPc' = "join"
  /\ UNCHANGED <<whisperMutex, io, whisper, capture, subtitles, tap, session,
                 starts>>

-----------------------------------------------------------------------------
(* The environment. *)

\* The capture pipeline ends: the source went away, or its device died.
CaptureEnds ==
  /\ captureState = "capturing" /\ captureHealth = "ok"
  /\ captureHealth' \in {"gone", "error"}
  /\ UNCHANGED <<locks, main, io, whisper, captureState, captureFailed,
                 outputFailed, subtitles, tap, session, starts>>

\* The shared clock runs towards a live session's deadline. The deadline is
\* exclusive: the session expires below zero.
Tick ==
  /\ Listening /\ remaining >= 0
  /\ remaining' = remaining - 1
  /\ UNCHANGED <<locks, main, io, whisper, capture, subtitles, tap,
                 sessionCues, windows, generation, syncStatus, pending,
                 demandSession, starts>>

IoReturns ==
  \/ SwitchDone \/ SwitchRolledBack \/ SwitchFailed
  \/ SyncModel \/ SyncModelUnavailable \/ StartSession \/ ApplyWhisper

IoCalls ==
  \/ RejectSubtitleFile
  \/ \E path \in Files \cup {NoFile} : SwitchSubtitleFile(path)
  \/ SetSubtitleTime
  \/ \E model \in Models \cup {NoModel} : RequestSync(model)
  \/ \E enabled \in {"on", "off", "keep"}, model \in Models \cup {NoModel} :
       PrepareWhisper(enabled, model)
  \/ ClearWhisperModel

Whisper ==
  \/ LoadGeneration \/ LoadTranscriber \/ Infer
  \/ FeedSession \/ DropEvidence \/ WhisperExits

Main ==
  \/ CheckLoop \/ PollCapture \/ CaptureJoined \/ CaptureDropped
  \/ PollSync \/ PollRelease \/ BeginStop

Next ==
  \/ IoCalls \/ IoReturns
  \/ PullSample \/ Whisper
  \/ Main
  \/ CaptureEnds \/ Tick

Spec == Init /\ [][Next]_vars

\* Threads that are not blocked keep running, and time passes. No user is
\* obliged to call anything, and no sample to arrive. A mutex is not a queue,
\* but one that is free again and again does not refuse main forever.
Fairness == WF_vars(Whisper) /\ WF_vars(IoReturns) /\ WF_vars(Tick) /\ SF_vars(Main)

FairSpec == Spec /\ Fairness

-----------------------------------------------------------------------------
(* Properties. *)

ControlTypes ==
  /\ mutex \in {"free", "main", "io"} /\ whisperMutex \in {"free", "io"}
  /\ mainPc \in {"loop", "poll", "join", "drop", "sync", "tidy", "stop", "done"}
  /\ ioPc \in {"idle", "rebuild", "model", "commit", "apply"}
  /\ ioEnabled \in {"on", "off", "keep"}
  /\ whisperPc \in {"loop", "sampled", "tagged", "push", "feed", "off"}

StatusTypes ==
  /\ captureState \in {"capturing", "stopped", "screensaver"}
  /\ captureHealth \in {"ok", "gone", "error"}
  /\ clockSource \in {"start", "user", "sync"}
  /\ syncStatus \in {"idle", "listening", "synced", "failed"}

FlagTypes ==
  {stopping, captureFailed, outputFailed, parser, userMoved, continuous,
   demandSession} \subseteq BOOLEAN

FileTypes == {ioPrevious, subtitlePath, sessionCues, pending} \subseteq Files \cup {NoFile}

ModelTypes ==
  /\ {ioSelected, modelPath} \subseteq Models \cup {NoModel}
  /\ {ioTranscriber, seenTranscriber, transcriber} \subseteq Transcribers

NumberTypes ==
  /\ {created, windows, generation, starts} \subseteq Nat /\ remaining \in Int
  /\ seenGeneration \in 0..generation /\ seenStart \in 0..starts

\* Every variable keeps its type; in particular the whisper thread's tag is a
\* generation of the past.
TypeOK ==
  /\ ControlTypes /\ StatusTypes /\ FlagTypes
  /\ FileTypes /\ ModelTypes /\ NumberTypes

\* Whoever wants the tap finds it on.
TapServesDemand == Wanted => transcriber # NoTranscriber

\* The model the API reports is the model that is running.
ModelNamesTranscriber ==
  transcriber # NoTranscriber => transcriber.model = modelPath

\* No interleaving of a release, a disable, an enable with or without a model, and a
\* session start leaves a demand without a transcriber, or a transcriber of another
\* model than the API reports (WhisperDemand, SetWhisperState, StartSubtitleSync).
TapIsSound == TapServesDemand /\ ModelNamesTranscriber

\* A live session listens to a running capture for the attached file, holds
\* the session demand, and is what the public state says.
SessionWellFormed ==
  /\ Listening <=> demandSession
  /\ Listening <=> syncStatus = "listening"
  /\ Listening => captureState = "capturing" /\ sessionCues = subtitlePath
  /\ pending # NoFile => syncStatus = "synced" /\ pending = subtitlePath

\* Last action wins: once a user has moved the SRT position or switched the
\* file, no session begun before is live or waits to be applied.
LastActionWins == userMoved => ~Listening /\ pending = NoFile

\* "synced" is only reported for a position that is still to be applied or
\* that the SRT clock follows; a dead output has no clock.
SyncedIsApplied ==
  syncStatus = "synced" /\ pending = NoFile /\ parser => clockSource = "sync"

\* A window counts as evidence only for the session that was live when its
\* inference began, and only from the transcriber that session runs on.
FreshEvidence ==
  [][FeedSession => seenStart = starts /\ seenTranscriber = transcriber]_vars

\* A session past its deadline ends, but never with a lock, whichever of the
\* whisper thread, a poll and the capture's end gets to it first.
ExpiredNeverLocks ==
  [][Listening /\ remaining < 0 => pending' = NoFile /\ syncStatus' # "synced"]_vars

\* A tap someone wants is never swapped under a live session: the transcriber
\* changes only when no session survives the change.
SessionKeepsTranscriber ==
  [][Listening /\ Listening' /\ starts' = starts
       => transcriber' = transcriber]_vars

\* Every session ends, by a lock, the deadline, a user or the capture, and a lock
\* is applied, or given up, by a later poll.
SessionSettles ==
  /\ \A n \in 1..MaxGeneration :
       (Listening /\ starts = n) ~> ~(Listening /\ starts = n)
  /\ (pending # NoFile) ~> (pending = NoFile)

\* A tap nobody wants any more is switched off, however its session ended.
TapReleased ==
  (transcriber # NoTranscriber /\ ~Wanted)
    ~> (transcriber = NoTranscriber \/ Wanted)

\* With nobody calling, a session ends and leaves nothing behind: no lock that is
\* never applied, no tap that is never released (Poll).
SyncSettles == SessionSettles /\ TapReleased

\* No thread waits for another forever: hooks return, and main comes back to
\* its loop or is done, though it joins the whisper thread under mutex_.
NobodyBlocks ==
  /\ (ioPc # "idle") ~> (ioPc = "idle")
  /\ (mainPc # "loop") ~> (mainPc \in {"loop", "done"})

\* The session as its user sees it.
Contract == INSTANCE SyncContract WITH
  attached <- subtitlePath,
  target   <- IF Listening THEN sessionCues ELSE pending,
  phase    <- IF pending # NoFile THEN "locked" ELSE syncStatus,
  clock    <- clockSource

\* Every behaviour of the threads is one the contract allows.
ImplementsContract == Contract!Spec
=============================================================================
