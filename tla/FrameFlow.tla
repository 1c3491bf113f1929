------------------------------ MODULE FrameFlow ------------------------------
(***************************************************************************)
(* The frames' way through stream/stream.cpp: a capture thread (RunCapture *)
(* or RunScreensaver) pushes into a bounded FrameBuffer, the output thread *)
(* (RunOutput) pops and hands on to the appsrc, and whoever holds mutex_   *)
(* (Poll, Stop, SetSubtitleFile) joins and restarts the two around them.   *)
(* The audio side (audio_, RunAudioCapture, RunAudioOutput) is the same.   *)
(*                                                                         *)
(* A frame is its timestamp in the shared running time and the source that *)
(* made it: 1 is the capture device, 2 the no-signal screen.               *)
(***************************************************************************)
EXTENDS Naturals, Sequences

CONSTANTS
  Capacity,    \* kFrameBufferCapacity
  MaxFrames,   \* bound: frames made
  MaxOutputs   \* bound: outputs started

ASSUME FlowAssumption ==
  /\ Capacity \in Nat \ {0} /\ MaxFrames \in Nat /\ MaxOutputs \in Nat \ {0}

VARIABLES
  frames, closed, generation,           \* the FrameBuffer
  now, nextPts,                         \* the shared running time, in frames;
                                        \*   the screensaver's next timestamp
  source,                               \* 1 or 2, the running producer
  producerPc, producerStop, made,       \* its thread, stop token and frame
  outputPc, outputStop, held,           \* RunOutput: its frame,
  seenGeneration, discont,              \*   its local generation, the flag
  pipelineUp, outputFailed,             \* the output pipeline accepts buffers
  task, taskPc,                         \* the holder of mutex_
  broken, outputs, shown, marked, last  \* history, read by the properties only

buffer   == <<frames, closed, generation>>
producer == <<now, nextPts, source, producerPc, producerStop, made>>
output   == <<outputPc, outputStop, held, seenGeneration, discont, pipelineUp,
              outputFailed>>
control  == <<task, taskPc>>
history  == <<broken, outputs, shown, marked, last>>
vars     == <<buffer, producer, output, control, history>>

NoFrame == [pts |-> 0, source |-> 0]
Frames  == [pts : 1..MaxFrames, source : {1, 2}]

Init ==
  /\ frames = <<>> /\ closed = FALSE /\ generation = 1
  /\ now = 1 /\ nextPts = 1 /\ source = 1
  /\ producerPc = "loop" /\ producerStop = FALSE /\ made = NoFrame
  /\ outputPc = "loop" /\ outputStop = FALSE /\ held = NoFrame
  /\ seenGeneration = 0 /\ discont = FALSE
  /\ pipelineUp = TRUE /\ outputFailed = FALSE
  /\ task = "none" /\ taskPc = "idle"
  /\ broken = FALSE /\ outputs = 1 /\ shown = NoFrame /\ marked = FALSE /\ last = NoFrame

-----------------------------------------------------------------------------
(* FrameBuffer, each operation under its own mutex. Definitions whose name     *)
(* ends in a _Word are faults: each stands for a plausible bug in the          *)
(* definition it precedes, and shows that a property would notice it.          *)

\* PushLatest: a full buffer loses its oldest frame, never the new one.
PushLatest_DropNewest(frame) ==
  /\ ~closed
  /\ frames' = IF Len(frames) = Capacity THEN frames ELSE Append(frames, frame)
  /\ UNCHANGED <<closed, generation>>
PushLatest(frame) ==
  /\ ~closed
  /\ frames' = Append(IF Len(frames) = Capacity THEN Tail(frames) ELSE frames, frame)
  /\ UNCHANGED <<closed, generation>>

Flush == frames' = <<>> /\ generation' = generation + 1 /\ UNCHANGED closed

Close == closed' = TRUE /\ UNCHANGED <<frames, generation>>

-----------------------------------------------------------------------------
(* The producer: RunCapture, later RunScreensaver. *)

\* A captured frame has the running time of its capture. The no-signal screen
\* counts on from the running time it started at.
MakeFrame ==
  /\ producerPc = "loop" /\ ~producerStop /\ now <= MaxFrames
  /\ made' = [pts |-> IF source = 1 THEN now ELSE nextPts, source |-> source]
  /\ now' = now + 1
  /\ nextPts' = nextPts + 1
  /\ producerPc' = "made"
  /\ UNCHANGED <<buffer, source, producerStop, output, control, history>>

PushFrame ==
  /\ producerPc = "made"
  /\ PushLatest(made)
  /\ last' = made
  /\ producerPc' = "loop" /\ made' = NoFrame
  /\ UNCHANGED <<now, nextPts, source, producerStop, output, control, broken,
                 outputs, shown, marked>>

\* A stop request, or the capture's end of stream.
ProducerDone == producerStop \/ source = 1

\* The loop is over, or the buffer is closed.
ProducerExits ==
  /\ \/ producerPc = "made" /\ closed
     \/ producerPc = "loop" /\ ProducerDone
  /\ producerPc' = "off" /\ made' = NoFrame
  /\ UNCHANGED <<buffer, now, nextPts, source, producerStop, output, control,
                 history>>

-----------------------------------------------------------------------------
(* The output thread: RunOutput. *)

CheckStop ==
  /\ outputPc = "loop"
  /\ outputPc' = IF outputStop THEN "off" ELSE "pop"
  /\ UNCHANGED <<buffer, producer, outputStop, held, seenGeneration, discont,
                 pipelineUp, outputFailed, control, history>>

\* Pop prefers a frame to a stop request and to a closed buffer.
PopFrame ==
  /\ outputPc = "pop" /\ frames # <<>>
  /\ held' = Head(frames) /\ frames' = Tail(frames)
  /\ outputPc' = "popped"
  /\ UNCHANGED <<closed, generation, producer, outputStop, seenGeneration,
                 discont, pipelineUp, outputFailed, control, history>>

\* Pop waits for a frame, a close or a stop request; a lost wakeup waits on.
PopEnds_CloseOnly == closed
PopEnds == closed \/ outputStop

PopNothing ==
  /\ outputPc = "pop" /\ frames = <<>> /\ PopEnds
  /\ outputPc' = "off"
  /\ UNCHANGED <<buffer, producer, outputStop, held, seenGeneration, discont,
                 pipelineUp, outputFailed, control, history>>

\* The generation is read after the pop, and so is never behind the frame.
NewGeneration_Cached == seenGeneration = 0
NewGeneration == generation # seenGeneration

TagFrame ==
  /\ outputPc = "popped"
  /\ discont' = NewGeneration
  /\ seenGeneration' = generation
  /\ outputPc' = "push"
  /\ UNCHANGED <<buffer, producer, outputStop, held, pipelineUp, outputFailed,
                 control, history>>

PushBuffer ==
  /\ outputPc = "push" /\ pipelineUp
  /\ shown' = held /\ marked' = (marked \/ discont)
  /\ held' = NoFrame /\ discont' = FALSE
  /\ outputPc' = "loop"
  /\ UNCHANGED <<buffer, producer, outputStop, seenGeneration, pipelineUp,
                 outputFailed, control, broken, outputs, last>>

\* The appsrc rejects: a failure, unless this output is being stopped.
RejectFails_Always == TRUE
RejectFails == ~outputStop

PushRejected ==
  /\ outputPc = "push" /\ ~pipelineUp
  /\ outputFailed' = (outputFailed \/ RejectFails)
  /\ held' = NoFrame /\ discont' = FALSE
  /\ outputPc' = "off"
  /\ UNCHANGED <<buffer, producer, outputStop, seenGeneration, pipelineUp,
                 control, history>>

-----------------------------------------------------------------------------
(* The holder of mutex_. *)

\* Poll, when a capture thread or the capture pipeline has ended:
\* StopCapturePipeline ...
BeginSwitch ==
  /\ task = "none" /\ source = 1
  /\ task' = "switch" /\ taskPc' = "join" /\ producerStop' = TRUE
  /\ UNCHANGED <<buffer, now, nextPts, source, producerPc, made, output, history>>

\* ... which flushes once the producer is joined ...
Joined == producerPc = "off"

FlushFrames ==
  /\ taskPc = "join" /\ Joined
  /\ Flush
  /\ taskPc' = IF task = "switch" THEN "restart" ELSE "stop output"
  /\ marked' = (marked /\ task = "stop")
  /\ UNCHANGED <<producer, output, task, broken, outputs, shown, last>>

\* ... and the no-signal screen.
ScreensaverStart_Zero == 1
ScreensaverStart == now

StartScreensaver ==
  /\ taskPc = "restart"
  /\ nextPts' = ScreensaverStart
  /\ source' = 2 /\ producerPc' = "loop" /\ producerStop' = FALSE
  /\ task' = "none" /\ taskPc' = "idle"
  /\ UNCHANGED <<buffer, now, made, output, history>>

\* Stop closes the buffer first, so that nobody waits in it.
BeginStop ==
  /\ task = "none"
  /\ Close
  /\ task' = "stop" /\ taskPc' = "join" /\ producerStop' = TRUE
  /\ UNCHANGED <<now, nextPts, source, producerPc, made, output, history>>

\* SetSubtitleFile rebuilds the output; the producer goes on meanwhile.
BeginRebuild ==
  /\ task = "none" /\ outputs < MaxOutputs
  /\ task' = "rebuild" /\ taskPc' = "stop output"
  /\ UNCHANGED <<buffer, producer, output, history>>

\* StopOutputPipeline requests the stop before it takes the pipeline down.
RequestOutputStop ==
  /\ taskPc = "stop output"
  /\ outputStop' = TRUE
  /\ taskPc' = "null output"
  /\ UNCHANGED <<buffer, producer, outputPc, held, seenGeneration, discont,
                 pipelineUp, outputFailed, task, history>>

OutputNull ==
  /\ taskPc = "null output"
  /\ pipelineUp' = FALSE
  /\ taskPc' = "join output"
  /\ UNCHANGED <<buffer, producer, outputPc, outputStop, held, seenGeneration,
                 discont, outputFailed, task, history>>

StartOutput ==
  /\ taskPc = "join output" /\ task = "rebuild" /\ outputPc = "off"
  /\ outputPc' = "loop" /\ outputStop' = FALSE /\ pipelineUp' = TRUE
  /\ seenGeneration' = 0 /\ outputFailed' = FALSE
  /\ task' = "none" /\ taskPc' = "idle"
  /\ outputs' = outputs + 1 /\ broken' = FALSE /\ marked' = FALSE
  /\ UNCHANGED <<buffer, producer, held, discont, shown, last>>

\* Neither the new output nor the previous one starts.
StartOutputFails ==
  /\ taskPc = "join output" /\ task = "rebuild" /\ outputPc = "off"
  /\ outputFailed' = TRUE /\ broken' = TRUE
  /\ task' = "none" /\ taskPc' = "idle"
  /\ UNCHANGED <<buffer, producer, outputPc, outputStop, held, seenGeneration,
                 discont, pipelineUp, outputs, shown, marked, last>>

Stopped ==
  /\ taskPc = "join output" /\ task = "stop" /\ outputPc = "off"
  /\ task' = "done" /\ taskPc' = "idle"
  /\ UNCHANGED <<buffer, producer, output, history>>

\* The output pipeline dies by itself.
OutputDies ==
  /\ pipelineUp /\ ~broken
  /\ pipelineUp' = FALSE /\ broken' = TRUE
  /\ UNCHANGED <<buffer, producer, outputPc, outputStop, held, seenGeneration,
                 discont, outputFailed, control, outputs, shown, marked, last>>

Producer == MakeFrame \/ PushFrame \/ ProducerExits

Output ==
  \/ CheckStop \/ PopFrame \/ PopNothing
  \/ TagFrame \/ PushBuffer \/ PushRejected

Holder ==
  \/ FlushFrames \/ StartScreensaver
  \/ RequestOutputStop \/ OutputNull
  \/ StartOutput \/ StartOutputFails \/ Stopped

Next ==
  \/ Producer \/ Output \/ Holder
  \/ BeginSwitch \/ BeginStop \/ BeginRebuild
  \/ OutputDies

Spec == Init /\ [][Next]_vars

\* Threads that are not blocked run.
FairSpec == Spec /\ WF_vars(Producer) /\ WF_vars(Output) /\ WF_vars(Holder)

-----------------------------------------------------------------------------
(* Properties. *)

FlagTypes ==
  {closed, producerStop, outputStop, discont, pipelineUp, outputFailed, broken, marked}
    \subseteq BOOLEAN

ControlTypes ==
  /\ producerPc \in {"loop", "made", "off"}
  /\ outputPc \in {"loop", "pop", "popped", "push", "off"}
  /\ task \in {"none", "switch", "stop", "rebuild", "done"}
  /\ taskPc \in {"idle", "join", "restart", "stop output", "null output",
                 "join output"}

NumberTypes ==
  /\ {generation, now, nextPts} \subseteq Nat \ {0} /\ now <= MaxFrames + 1
  /\ seenGeneration \in 0..generation /\ source \in {1, 2} /\ outputs \in Nat

FrameTypes ==
  /\ frames \in Seq(Frames) /\ Len(frames) <= Capacity
  /\ {made, held, shown, last} \subseteq Frames \cup {NoFrame}

\* Every variable keeps its type; in particular the buffer stays bounded.
TypeOK == FlagTypes /\ ControlTypes /\ NumberTypes /\ FrameTypes

\* What waits for the output was made by the present source.
QueueIsPresent ==
  \A i \in DOMAIN frames : frames[i].source = source /\ taskPc # "restart"

\* What waits is a run of frames without a gap, up to the newest one.
NewestSurvive ==
  \A i \in DOMAIN frames :
    IF i = Len(frames) THEN frames[i] = last
                       ELSE frames[i + 1].pts = frames[i].pts + 1

\* The buffer stays bounded, an output that is too slow loses the oldest frames only,
\* and no frame of the capture survives into the no-signal screen (PushLatest,
\* StopCapturePipeline).
QueueIsSound == Len(frames) <= Capacity /\ QueueIsPresent /\ NewestSurvive

\* The joins and restarts around RunOutput are not failures: the process fails
\* only for an output that died or did not start.
TeardownIsNoFailure == outputFailed => broken

\* Timestamps only grow, across the change to the no-signal screen and across
\* output rebuilds, and no captured frame follows a no-signal one.
OutputIsMonotonic ==
  [][shown' # shown => shown'.pts > shown.pts /\ shown'.source >= shown.source]_vars

\* A frame that follows a flush, or is the first of its output, is not shown
\* before a buffer marked as discontinuous: at worst the mark is on the old frame
\* that RunOutput had already popped.
BreakIsMarked ==
  [][shown' # shown /\ shown'.source = source /\ taskPc # "restart" => marked']_vars

\* Whoever joins the threads under mutex_ gets done, whatever they wait for.
TasksComplete ==
  /\ \A t \in {"switch", "rebuild"} : (task = t) ~> (task # t)
  /\ (task = "stop") ~> (task = "done")
=============================================================================
