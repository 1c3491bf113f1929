--------------------------- MODULE CaptureLifecycle ---------------------------
(***************************************************************************)
(* How the process notices that a pipeline ended, and what it does of it:  *)
(* the capture threads of stream/stream.cpp, one per stream, and their two *)
(* atomic flags; the capture bus; Poll, which drains the bus, reads the    *)
(* flags one after the other, and falls back to the no-signal screen or    *)
(* fails; the loop of main.cpp around it; and a web hook that rebuilds the *)
(* output, also after Stop.                                                *)
(*                                                                         *)
(* GStreamer is external: an element that fails posts an ERROR message     *)
(* first and sends EOS after it, and a pipeline posts EOS when every sink  *)
(* has seen it. Both can happen between any two steps of Poll.             *)
(***************************************************************************)
EXTENDS FiniteSets

CONSTANT Streams  \* the captured streams: video, and audio when it is enabled

ASSUME LifecycleAssumption == Streams # {} /\ IsFiniteSet(Streams)

VARIABLES
  mutex,                        \* holder of mutex_
  mainPc, polled, stopping,     \* main: where it is, the bus health it found
  captureState,                 \* capture_state_
  captureActive, captureFailed, outputFailed,  \* the atomic flags
  bus, eos,                     \* messages on the capture bus; streams whose
                                \*   appsink has seen the end
  threadPc, stopRequested,      \* RunCapture and RunAudioCapture
  screensaver,                  \* RunScreensaver
  closed,                       \* the frame buffers
  output, outputDead,           \* the output: down, up, up and fed; on its bus
  ioPc,                         \* the hook
  exitCode,
  died, late, alarms,           \* history, read by the properties only:
  verdict, since                \*   the flags that were up when main left its
                                \*   loop, what was flagged or rebuilt since

flags   == <<captureActive, captureFailed, outputFailed>>
device  == <<bus, eos>>
threads == <<threadPc, stopRequested, screensaver>>
control == <<mutex, mainPc, polled, stopping, captureState, ioPc, exitCode>>
exits   == <<verdict, since>>
history == <<died, late, alarms, exits>>
vars == <<flags, device, threads, control, closed, output, outputDead, history>>

\* Definitions whose name ends in a _Word are faults: each stands for a plausible
\* bug in the definition it precedes, and shows that a property would notice it.

\* What main's loop asks: either flag; and which of them.
Failed == captureFailed \/ outputFailed
UpFlags ==
  (IF captureFailed THEN {"capture"} ELSE {}) \cup (IF outputFailed THEN {"output"} ELSE {})

\* Main is between the end of its loop and the read of the exit code; only then
\* is history written to since.
LeftLoop == mainPc # "done" /\ (mainPc = "stop" \/ stopping)
Since(events) == IF LeftLoop THEN events ELSE since

Init ==
  /\ mutex = "free" /\ mainPc = "loop" /\ polled = "ok" /\ stopping = FALSE
  /\ captureState = "capturing"
  /\ captureActive = TRUE /\ captureFailed = FALSE /\ outputFailed = FALSE
  /\ bus = {} /\ eos = {}
  /\ threadPc = [s \in Streams |-> "run"] /\ stopRequested = FALSE
  /\ screensaver = "off"
  /\ closed = FALSE /\ output = "fed" /\ outputDead = FALSE
  /\ ioPc = "idle" /\ exitCode = "none"
  /\ died = FALSE /\ late = FALSE /\ alarms = {}
  /\ verdict = {} /\ since = {}

-----------------------------------------------------------------------------
(* GStreamer. The pipeline is up until StopCapturePipeline takes it down. *)

CaptureUp == captureState = "capturing" /\ ~stopRequested

\* An element posts its ERROR; the end of its stream follows, or does not.
DeviceDies ==
  /\ CaptureUp
  /\ bus' = bus \cup {"error"}
  /\ died' = TRUE
  /\ late' = (mainPc \in {"poll output", "poll failed", "poll active"})
  /\ UNCHANGED <<flags, eos, threads, control, closed, output, outputDead,
                 alarms, exits>>

StreamEnds(s) ==
  /\ CaptureUp /\ s \notin eos
  /\ eos' = eos \cup {s}
  /\ bus' = IF eos' = Streams THEN bus \cup {"eos"} ELSE bus
  /\ UNCHANGED <<flags, threads, control, closed, output, outputDead, history>>

OutputDies ==
  /\ output # "down" /\ ~outputDead
  /\ outputDead' = TRUE /\ alarms' = alarms \cup {"output"}
  /\ UNCHANGED <<flags, device, threads, control, closed, output, died, late, exits>>

-----------------------------------------------------------------------------
(* The capture threads, the screensaver and the feeders of the output. *)

\* A stop request, the end of the stream, or a closed buffer.
CaptureEnds(s) ==
  /\ threadPc[s] = "run" /\ (stopRequested \/ s \in eos \/ closed)
  /\ threadPc' = [threadPc EXCEPT ![s] = "leaving"]
  /\ UNCHANGED <<flags, device, stopRequested, screensaver, control, closed, output,
                 outputDead, history>>

\* A sample could not be copied: fatal, and flagged before the thread leaves.
CopyFails(s) ==
  /\ threadPc[s] = "run"
  /\ captureFailed' = TRUE
  /\ alarms' = alarms \cup {"copy"} /\ since' = Since(since \cup {"copy"})
  /\ threadPc' = [threadPc EXCEPT ![s] = "leaving"]
  /\ UNCHANGED <<captureActive, outputFailed, device, stopRequested,
                 screensaver, control, closed, output, outputDead, died, late,
                 verdict>>

CaptureLeaves(s) ==
  /\ threadPc[s] = "leaving"
  /\ captureActive' = FALSE
  /\ threadPc' = [threadPc EXCEPT ![s] = "off"]
  /\ UNCHANGED <<captureFailed, outputFailed, device, stopRequested,
                 screensaver, control, closed, output, outputDead, history>>

ScreensaverLeaves ==
  /\ screensaver = "on" /\ (stopRequested \/ closed)
  /\ screensaver' = "off"
  /\ UNCHANGED <<flags, device, threadPc, stopRequested, control, closed, output,
                 outputDead, history>>

\* A frame without a timestamp, or a push that is rejected with no stop requested:
\* the feeder raises the flag itself, without mutex_.
OutputRejects ==
  /\ output = "fed"
  /\ output' = "up" /\ outputFailed' = TRUE
  /\ alarms' = alarms \cup {"output"} /\ since' = Since(since \cup {"output"})
  /\ UNCHANGED <<captureActive, captureFailed, device, threads, control, closed,
                 outputDead, died, late, verdict>>

\* A feeder that finds its buffer closed, and empty, ends the output's streams.
FeederEnds ==
  /\ output = "fed" /\ closed
  /\ output' = "up" /\ outputDead' = TRUE
  /\ UNCHANGED <<flags, device, threads, control, closed, history>>

-----------------------------------------------------------------------------
(* main.cpp's loop and Poll, which holds mutex_ throughout. *)

\* Failed() waits for a hook that is rebuilding the output.
CheckLoop ==
  /\ mainPc = "loop" /\ mutex = "free"
  /\ mainPc' \in IF Failed THEN {"stop"} ELSE {"poll", "stop"}
  /\ verdict' = IF mainPc' = "stop" THEN UpFlags ELSE {}
  /\ UNCHANGED <<flags, device, threads, mutex, polled, stopping, captureState,
                 ioPc, exitCode, closed, output, outputDead, died, late, alarms,
                 since>>

\* PollBus: an error wins over an EOS in the same burst.
Health_EosWins(messages) ==
  IF "eos" \in messages THEN "degraded"
  ELSE IF "error" \in messages THEN "error" ELSE "ok"
Health(messages) ==
  IF "error" \in messages THEN "error"
  ELSE IF "eos" \in messages THEN "degraded" ELSE "ok"

PollCaptureBus ==
  /\ mainPc = "poll" /\ mutex = "free"
  /\ mutex' = "main"
  /\ polled' = Health(bus) /\ bus' = {}
  /\ captureFailed' = (captureFailed \/ polled' = "error")
  /\ mainPc' = "poll output"
  /\ UNCHANGED <<captureActive, outputFailed, eos, threads, stopping,
                 captureState, ioPc, exitCode, closed, output, outputDead, history>>

PollOutputBus ==
  /\ mainPc = "poll output"
  /\ outputFailed' = (outputFailed \/ outputDead)
  /\ mainPc' = "poll failed"
  /\ UNCHANGED <<captureActive, captureFailed, device, threads, mutex, polled,
                 stopping, captureState, ioPc, exitCode, closed, output,
                 outputDead, history>>

\* The condition is evaluated from left to right: the failure flag first ...
ReadFailed ==
  /\ mainPc = "poll failed"
  /\ mainPc' = IF captureState = "capturing" /\ ~captureFailed
               THEN "poll active" ELSE "poll fallback"
  /\ UNCHANGED <<flags, device, threads, mutex, polled, stopping, captureState,
                 ioPc, exitCode, closed, output, outputDead, history>>

\* ... then the health found earlier, and the active flag as it is now.
CaptureLost_BusOnly == polled # "ok"
CaptureLost == polled # "ok" \/ ~captureActive

ReadActive ==
  /\ mainPc = "poll active"
  /\ IF CaptureLost
     THEN stopRequested' = TRUE /\ mainPc' = "join"
     ELSE mainPc' = "poll fallback" /\ UNCHANGED stopRequested
  /\ UNCHANGED <<flags, device, threadPc, screensaver, mutex, polled, stopping,
                 captureState, ioPc, exitCode, closed, output, outputDead, history>>

\* StopCapturePipeline joins every thread and drops the bus.
Joined_Any == screensaver = "off" /\ \E s \in Streams : threadPc[s] = "off"
Joined == screensaver = "off" /\ \A s \in Streams : threadPc[s] = "off"

CaptureJoined ==
  /\ mainPc = "join" /\ Joined
  /\ captureState' = "stopped" /\ bus' = {}
  /\ mainPc' = IF stopping THEN "stop output" ELSE "poll fallback"
  /\ UNCHANGED <<flags, eos, threads, mutex, polled, stopping, ioPc, exitCode,
                 closed, output, outputDead, history>>

PollEnds ==
  /\ mainPc = "poll fallback"
  /\ IF captureState = "stopped"
     THEN captureState' = "screensaver" /\ screensaver' = "on" /\ stopRequested' = FALSE
     ELSE UNCHANGED <<captureState, screensaver, stopRequested>>
  /\ mutex' = "free" /\ mainPc' = "loop"
  /\ UNCHANGED <<flags, device, threadPc, polled, stopping, ioPc, exitCode,
                 closed, output, outputDead, history>>

\* Stop, which closes the buffers before it joins.
BeginStop ==
  /\ mainPc = "stop" /\ mutex = "free"
  /\ mutex' = "main" /\ stopping' = TRUE
  /\ closed' = TRUE /\ stopRequested' = TRUE
  /\ mainPc' = "join"
  /\ UNCHANGED <<flags, device, threadPc, screensaver, polled, captureState,
                 ioPc, exitCode, output, outputDead, history>>

StopOutput ==
  /\ mainPc = "stop output"
  /\ mutex' = "free" /\ mainPc' = "exit"
  /\ output' = "down" /\ outputDead' = FALSE
  /\ UNCHANGED <<flags, device, threads, polled, stopping, captureState, ioPc,
                 exitCode, closed, history>>

\* The exit code is read after Stop; the web server is still up.
ExitCode_Success == "success"
ExitCode == IF Failed THEN "failure" ELSE "success"

Exit ==
  /\ mainPc = "exit" /\ mutex = "free"
  /\ exitCode' = ExitCode
  /\ mainPc' = "done"
  /\ UNCHANGED <<flags, device, threads, mutex, polled, stopping, captureState,
                 ioPc, closed, output, outputDead, history>>

-----------------------------------------------------------------------------
(* The hook that switches the subtitle file rebuilds the output. *)

BeginRebuild ==
  /\ ioPc = "idle" /\ mutex = "free"
  /\ mutex' = "io" /\ ioPc' = "rebuild"
  /\ UNCHANGED <<flags, device, threads, mainPc, polled, stopping, captureState,
                 exitCode, closed, output, outputDead, history>>

\* The candidate or the previous output runs, and an old failure is forgotten.
\* After Stop its feeder soon finds a closed buffer.
Rebuilt ==
  /\ ioPc = "rebuild"
  /\ outputFailed' = FALSE /\ output' = "fed" /\ outputDead' = FALSE
  /\ since' = Since((since \ {"output"}) \cup {"rebuilt"})
  /\ mutex' = "free" /\ ioPc' = "idle"
  /\ UNCHANGED <<captureActive, captureFailed, device, threads, mainPc, polled,
                 stopping, captureState, exitCode, closed, died, late, alarms,
                 verdict>>

\* Nothing was touched: the candidate could not be built.
RebuildKept ==
  /\ ioPc = "rebuild"
  /\ mutex' = "free" /\ ioPc' = "idle"
  /\ UNCHANGED <<flags, device, threads, mainPc, polled, stopping, captureState,
                 exitCode, closed, output, outputDead, history>>

\* The bytes, or an output, could not be brought back: the old output may not have
\* been touched yet, may be down, or the candidate is left where it should go.
RebuildFails ==
  /\ ioPc = "rebuild"
  /\ \/ UNCHANGED <<output, outputDead>>
     \/ output' = "down" /\ outputDead' = FALSE
     \/ output' = "fed" /\ outputDead' = FALSE
  /\ outputFailed' = TRUE
  /\ alarms' = alarms \cup {"rebuild"} /\ since' = Since(since \cup {"output"})
  /\ mutex' = "free" /\ ioPc' = "idle"
  /\ UNCHANGED <<captureActive, captureFailed, device, threads, mainPc, polled,
                 stopping, captureState, exitCode, closed, died, late, verdict>>

Threads ==
  \/ \E s \in Streams : CaptureEnds(s) \/ CaptureLeaves(s)
  \/ ScreensaverLeaves

Main ==
  \/ CheckLoop \/ PollCaptureBus \/ PollOutputBus \/ ReadFailed \/ ReadActive
  \/ CaptureJoined \/ PollEnds \/ BeginStop \/ StopOutput \/ Exit

IoReturns == Rebuilt \/ RebuildKept \/ RebuildFails

Next ==
  \/ DeviceDies \/ OutputDies \/ OutputRejects \/ FeederEnds
  \/ \E s \in Streams : StreamEnds(s) \/ CopyFails(s)
  \/ Threads \/ Main
  \/ BeginRebuild \/ IoReturns

Spec == Init /\ [][Next]_vars

\* Threads run; a mutex that is free again and again admits main. Nothing else
\* is bound to happen.
FairSpec == Spec /\ WF_vars(Threads) /\ WF_vars(IoReturns) /\ SF_vars(Main)

-----------------------------------------------------------------------------
(* Properties. *)

MainTypes ==
  /\ mutex \in {"free", "main", "io"}
  /\ mainPc \in {"loop", "poll", "poll output", "poll failed", "poll active",
                 "poll fallback", "join", "stop", "stop output", "exit", "done"}
  /\ polled \in {"ok", "degraded", "error"}
  /\ captureState \in {"capturing", "stopped", "screensaver"}
  /\ ioPc \in {"idle", "rebuild"} /\ exitCode \in {"none", "success", "failure"}
  /\ stopping \in BOOLEAN /\ closed \in BOOLEAN
FlagTypes ==
  {captureActive, captureFailed, outputFailed, outputDead, stopRequested} \subseteq BOOLEAN
ThreadTypes ==
  /\ bus \subseteq {"error", "eos"} /\ eos \subseteq Streams
  /\ threadPc \in [Streams -> {"run", "leaving", "off"}]
  /\ screensaver \in {"off", "on"} /\ output \in {"down", "up", "fed"}
HistoryTypes ==
  /\ died \in BOOLEAN /\ late \in BOOLEAN
  /\ alarms \subseteq {"output", "copy", "rebuild"}
  /\ verdict \subseteq {"capture", "output"} /\ since \subseteq {"copy", "output", "rebuilt"}
ExitIsLast ==
  exitCode # "none" => screensaver = "off" /\ threadPc = [s \in Streams |-> "off"]

\* Every variable keeps its type, and an exit code comes after every thread.
TypeOK == MainTypes /\ FlagTypes /\ ThreadTypes /\ HistoryTypes /\ ExitIsLast

\* The no-signal screen and a capture thread never push side by side.
OneProducer ==
  screensaver = "on" => \A s \in Streams : threadPc[s] = "off"

\* The no-signal screen never fronts a dead device, save one whose error came
\* between the drain of the bus and the decision in the very poll that decided.
SeenErrorIsFatal == captureState = "screensaver" /\ died => late

\* The exit code tells what main's loop ended for, over what hooks, feeders and
\* capture threads do until it is read. A failure has a dead device, a failed copy, a
\* dead output or a failed rebuild behind it, and one of them was flagged when main
\* left its loop or since: a stop alone is never one. After a success no flag was up
\* when main left its loop or was raised since, except a failure of the output that
\* the rebuild of a hook has replaced since.
ExitIsHonest ==
  /\ exitCode = "failure" =>
       (died \/ alarms # {}) /\ (verdict # {} \/ since \cap {"copy", "output"} # {})
  /\ exitCode = "success" =>
       /\ "capture" \notin verdict /\ since \cap {"copy", "output"} = {}
       /\ "output" \in verdict => "rebuilt" \in since

\* stream.cpp and bus.h: the pink screensaver is never for a dead device.
DeadDeviceIsFatal == captureState = "screensaver" => ~died

\* Nothing that is lost goes unnoticed: a capture that ended, with its threads or
\* without a word on the bus, is replaced by the no-signal screen or ends the
\* process, and a failure of the capture side ends the process, whose manager
\* learns of it (Poll, Failed, main's exit code).
LossesAreNoticed ==
  /\ ~captureActive ~> (captureState = "screensaver" \/ mainPc = "done")
  /\ captureFailed ~> (exitCode = "failure")
=============================================================================
