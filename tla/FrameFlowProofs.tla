--------------------------- MODULE FrameFlowProofs ---------------------------
(***************************************************************************)
(* Proofs about FrameFlow for any capacity of the buffer and any number of *)
(* frames and outputs. A frame is in one place at a time: in the hands of  *)
(* the producer, in the buffer, in the hands of the output thread, shown.  *)
(* IInv orders these places, and says what a flush, a join or a restart    *)
(* between two of them leaves true.                                        *)
(***************************************************************************)
EXTENDS FrameFlow, SequenceTheorems, TLAPS

\* What a thread has in its hands fits to where it is. The no-signal screen counts on
\* where the capture ended.
Hands ==
  /\ producerPc = "made" =>
       made \in Frames /\ made.pts = now - 1 /\ made.source = source
  /\ IF outputPc \in {"popped", "push"} THEN held \in Frames ELSE held = NoFrame
  /\ nextPts = now

\* What the holder of mutex_ has done when it gets to a step.
Holding ==
  /\ taskPc = "join" => task \in {"switch", "stop"} /\ producerStop
  /\ taskPc = "restart" => task = "switch" /\ producerPc = "off" /\ frames = <<>>
  /\ taskPc \in {"stop output", "null output", "join output"} => task \in {"stop", "rebuild"}
  /\ task = "switch" => source = 1 /\ taskPc \in {"join", "restart"}
  /\ taskPc \in {"null output", "join output"} => outputStop

\* The frame that left the buffer last.
Latest == IF outputPc \in {"popped", "push"} THEN held ELSE shown

\* The timestamp that comes after the buffer.
Upcoming == IF producerPc = "made" THEN now - 1 ELSE now

\* Shown, held, buffered, made: timestamps grow, sources do not go back.
InOrder ==
  /\ Latest.source <= source /\ shown.source <= Latest.source
  /\ outputPc \in {"popped", "push"} => shown.pts < held.pts
  /\ IF frames = <<>> THEN Latest.pts < Upcoming
     ELSE Latest.pts + Len(frames) <= last.pts /\ last.pts < Upcoming
  /\ frames # <<>> /\ producerPc # "off" => last.pts + 1 = Upcoming

\* What is buffered counts down from the newest frame.
CountsDown ==
  \A i \in 1 .. Len(frames) :
    /\ frames[i].pts + (Len(frames) - i) = last.pts
    /\ i = Len(frames) => frames[i] = last

\* An output without a pipeline is being stopped, or has died.
Downs ==
  /\ ~pipelineUp => broken \/ outputStop
  /\ TeardownIsNoFailure

\* A running output thread that has seen the present generation has marked a buffer
\* since, or is about to; a frame tagged before a flush is from before the no-signal
\* screen.
Marks ==
  /\ discont => outputPc = "push"
  /\ outputPc # "off" /\ seenGeneration = generation => marked \/ discont
  /\ outputPc = "push" =>
       \/ seenGeneration = generation \/ marked \/ discont
       \/ held.source = 1 /\ (taskPc = "restart" \/ source = 2)

IInv ==
  /\ TypeOK /\ Hands /\ Holding /\ InOrder /\ Downs /\ Marks
  /\ QueueIsPresent /\ CountsDown

-----------------------------------------------------------------------------
(* Frames, and the buffer as a sequence of them. *)

\* A frame has a timestamp and a source; no frame is none.
LEMMA Fields ==
  /\ \A f \in Frames : f.pts \in 1 .. MaxFrames /\ f.source \in {1, 2}
  /\ NoFrame.pts = 0 /\ NoFrame.source = 0 /\ NoFrame \notin Frames
  BY FlowAssumption DEF Frames, NoFrame

\* A push adds the new frame at the end and drops at most the oldest one.
LEMMA Pushed ==
  ASSUME FrameTypes, made \in Frames, PushFrame
  PROVE  /\ frames' \in Seq(Frames) /\ Len(frames') \in 1 .. Capacity
         /\ Len(frames') <= Len(frames) + 1
         /\ frames'[Len(frames')] = made
         /\ \A i \in 1 .. Len(frames') - 1 :
              /\ i + (Len(frames) + 1 - Len(frames')) \in 1 .. Len(frames)
              /\ frames'[i] = frames[i + (Len(frames) + 1 - Len(frames'))]
<1> USE FlowAssumption DEF FrameTypes
<1>1. CASE Len(frames) = Capacity
  <2> DEFINE rest == Tail(frames)
  <2>1. frames # <<>> /\ frames' = Append(rest, made)
    BY <1>1 DEF PushFrame, PushLatest
  <2>2. /\ rest \in Seq(Frames) /\ Len(rest) = Len(frames) - 1
        /\ \A i \in 1 .. Len(rest) : rest[i] = frames[i + 1]
    BY <2>1, HeadTailProperties
  <2> HIDE DEF rest
  <2>3. /\ frames' \in Seq(Frames) /\ Len(frames') = Len(rest) + 1
        /\ frames'[Len(rest) + 1] = made
        /\ \A i \in 1 .. Len(rest) : frames'[i] = rest[i]
    BY <2>1, <2>2, AppendProperties
  <2> QED
    BY <1>1, <2>2, <2>3
<1>2. CASE Len(frames) < Capacity
  <2>1. frames' = Append(frames, made)
    BY <1>2 DEF PushFrame, PushLatest
  <2>2. /\ frames' \in Seq(Frames) /\ Len(frames') = Len(frames) + 1
        /\ frames'[Len(frames) + 1] = made
        /\ \A i \in 1 .. Len(frames) : frames'[i] = frames[i]
    BY <2>1, AppendProperties
  <2> QED
    BY <1>2, <2>2
<1> QED
  BY <1>1, <1>2

\* A pop takes the oldest frame.
LEMMA Popped ==
  ASSUME FrameTypes, PopFrame
  PROVE  /\ Len(frames) \in 1 .. Capacity
         /\ frames' \in Seq(Frames) /\ Len(frames') = Len(frames) - 1
         /\ held' \in Frames /\ held' = frames[1]
         /\ \A i \in 1 .. Len(frames') : frames'[i] = frames[i + 1]
<1>1. frames \in Seq(Frames) /\ frames # <<>> /\ frames' = Tail(frames) /\ held' = Head(frames)
  BY DEF FrameTypes, PopFrame
<1> QED
  BY <1>1, HeadTailProperties, FlowAssumption DEF FrameTypes

-----------------------------------------------------------------------------
(* What the steps do to the frames and to the numbers, apart from the flags. *)

\* A frame is made at the present running time, by the present source.
LEMMA Making ==
  ASSUME TypeOK, Hands, MakeFrame
  PROVE  /\ made' \in Frames /\ made'.pts = now /\ made'.source = source
         /\ producerPc = "loop" /\ producerPc' = "made"
         /\ now' = now + 1 /\ nextPts' = nextPts + 1 /\ now <= MaxFrames
         /\ UNCHANGED <<frames, held, shown, last, source, outputPc>>
<1> DEFINE stamp == IF source = 1 THEN now ELSE nextPts
<1>1. /\ made' = [pts |-> stamp, source |-> source]
      /\ producerPc = "loop" /\ producerPc' = "made"
      /\ now' = now + 1 /\ nextPts' = nextPts + 1 /\ now <= MaxFrames
      /\ UNCHANGED <<frames, held, shown, last, source, outputPc>>
  BY Zenon DEF MakeFrame, buffer, output, history
<1>2. stamp = now /\ now \in 1 .. MaxFrames /\ source \in {1, 2}
  <2>1. nextPts = now
    BY DEF Hands
  <2>2. now \in Nat \ {0} /\ source \in {1, 2}
    BY DEF TypeOK, NumberTypes
  <2> QED
    BY <1>1, <2>1, <2>2, FlowAssumption
<1> HIDE DEF stamp
<1> QED
  BY <1>1, <1>2 DEF Frames

\* A flush comes after the join and empties the buffer.
LEMMA Flushing ==
  ASSUME FlushFrames
  PROVE  /\ taskPc = "join" /\ producerPc = "off"
         /\ frames' = <<>> /\ generation' = generation + 1
         /\ taskPc' = IF task = "switch" THEN "restart" ELSE "stop output"
         /\ task = "stop" /\ marked => marked'
         /\ UNCHANGED <<producer, output, task, shown, last>>
  BY Zenon DEF FlushFrames, Flush, Joined

\* A new output has seen no generation.
LEMMA Restarting ==
  ASSUME StartOutput
  PROVE  /\ outputPc = "off" /\ outputPc' = "loop" /\ seenGeneration' = 0
         /\ outputs' = outputs + 1
         /\ UNCHANGED <<buffer, producer, held, shown, last>>
  BY Zenon DEF StartOutput

-----------------------------------------------------------------------------
(* The steps keep the invariant. *)

\* No step gives a flag a value that is not a Boolean.
LEMMA FlagsNext == FlagTypes /\ [Next]_vars => FlagTypes'
<1> SUFFICES ASSUME FlagTypes, [Next]_vars PROVE FlagTypes'
  OBVIOUS
<1> USE DEF FlagTypes, buffer, producer, output, control, history
<1>1. CASE UNCHANGED vars
  BY <1>1 DEF vars
<1>2. CASE MakeFrame
  BY <1>2 DEF MakeFrame
<1>3. CASE PushFrame
  BY <1>3 DEF PushFrame, PushLatest
<1>4. CASE ProducerExits
  BY <1>4 DEF ProducerExits
<1>5. CASE CheckStop
  BY <1>5 DEF CheckStop
<1>6. CASE PopFrame
  BY <1>6 DEF PopFrame
<1>7. CASE PopNothing
  BY <1>7 DEF PopNothing
<1>8. CASE TagFrame
  BY <1>8 DEF TagFrame, NewGeneration
<1>9. CASE PushBuffer
  BY <1>9 DEF PushBuffer
<1>10. CASE PushRejected
  BY <1>10 DEF PushRejected, RejectFails
<1>11. CASE FlushFrames
  BY <1>11 DEF FlushFrames, Flush
<1>12. CASE StartScreensaver
  BY <1>12 DEF StartScreensaver
<1>13. CASE RequestOutputStop
  BY <1>13 DEF RequestOutputStop
<1>14. CASE OutputNull
  BY <1>14 DEF OutputNull
<1>15. CASE StartOutput
  BY <1>15 DEF StartOutput
<1>16. CASE StartOutputFails
  BY <1>16 DEF StartOutputFails
<1>17. CASE Stopped
  BY <1>17 DEF Stopped
<1>18. CASE BeginSwitch
  BY <1>18 DEF BeginSwitch
<1>19. CASE BeginStop
  BY <1>19 DEF BeginStop, Close
<1>20. CASE BeginRebuild
  BY <1>20 DEF BeginRebuild
<1>21. CASE OutputDies
  BY <1>21 DEF OutputDies
<1> HIDE DEF FlagTypes
<1> QED
  BY <1>1, <1>2, <1>3, <1>4, <1>5, <1>6, <1>7, <1>8, <1>9, <1>10, <1>11, <1>12,
     <1>13, <1>14, <1>15, <1>16, <1>17, <1>18, <1>19, <1>20, <1>21
     DEF Next, Producer, Output, Holder, vars, PushLatest, Close

\* Threads and tasks are where they can be.
LEMMA ControlNext == ControlTypes /\ [Next]_vars => ControlTypes'
<1> SUFFICES ASSUME ControlTypes, [Next]_vars PROVE ControlTypes'
  OBVIOUS
<1> USE DEF ControlTypes, buffer, producer, output, control, history
<1>1. CASE UNCHANGED vars
  BY <1>1 DEF vars
<1>2. CASE MakeFrame
  BY <1>2 DEF MakeFrame
<1>3. CASE PushFrame
  BY <1>3 DEF PushFrame, PushLatest
<1>4. CASE ProducerExits
  BY <1>4 DEF ProducerExits
<1>5. CASE CheckStop
  BY <1>5 DEF CheckStop
<1>6. CASE PopFrame
  BY <1>6 DEF PopFrame
<1>7. CASE PopNothing
  BY <1>7 DEF PopNothing
<1>8. CASE TagFrame
  BY <1>8 DEF TagFrame
<1>9. CASE PushBuffer
  BY <1>9 DEF PushBuffer
<1>10. CASE PushRejected
  BY <1>10 DEF PushRejected
<1>11. CASE FlushFrames
  BY <1>11 DEF FlushFrames, Flush
<1>12. CASE StartScreensaver
  BY <1>12 DEF StartScreensaver
<1>13. CASE RequestOutputStop
  BY <1>13 DEF RequestOutputStop
<1>14. CASE OutputNull
  BY <1>14 DEF OutputNull
<1>15. CASE StartOutput
  BY <1>15 DEF StartOutput
<1>16. CASE StartOutputFails
  BY <1>16 DEF StartOutputFails
<1>17. CASE Stopped
  BY <1>17 DEF Stopped
<1>18. CASE BeginSwitch
  BY <1>18 DEF BeginSwitch
<1>19. CASE BeginStop
  BY <1>19 DEF BeginStop
<1>20. CASE BeginRebuild
  BY <1>20 DEF BeginRebuild
<1>21. CASE OutputDies
  BY <1>21 DEF OutputDies
<1> HIDE DEF ControlTypes
<1> QED
  BY <1>1, <1>2, <1>3, <1>4, <1>5, <1>6, <1>7, <1>8, <1>9, <1>10, <1>11, <1>12,
     <1>13, <1>14, <1>15, <1>16, <1>17, <1>18, <1>19, <1>20, <1>21
     DEF Next, Producer, Output, Holder, vars, PushLatest, Close

\* Time, generations and outputs are counted up; a thread never reads a generation
\* that is still to come.
LEMMA NumbersNext == TypeOK /\ [Next]_vars => NumberTypes'
<1> SUFFICES ASSUME TypeOK, [Next]_vars PROVE NumberTypes'
  OBVIOUS
<1> USE FlowAssumption DEF NumberTypes, buffer, producer, output, control, history
<1>1. CASE UNCHANGED <<generation, now, nextPts, seenGeneration, source, outputs>>
  BY <1>1 DEF TypeOK
<1>2. CASE MakeFrame
  <2>1. /\ now' = now + 1 /\ nextPts' = nextPts + 1 /\ now <= MaxFrames
        /\ UNCHANGED <<generation, seenGeneration, source, outputs>>
    BY <1>2, Zenon DEF MakeFrame
  <2> QED
    BY <2>1 DEF TypeOK
<1>3. CASE TagFrame
  <2>1. seenGeneration' = generation /\ UNCHANGED <<generation, now, nextPts, source, outputs>>
    BY <1>3, Zenon DEF TagFrame
  <2> QED
    BY <2>1 DEF TypeOK
<1>4. CASE FlushFrames
  <2>1. /\ generation' = generation + 1
        /\ UNCHANGED <<now, nextPts, seenGeneration, source, outputs>>
    BY <1>4, Zenon DEF FlushFrames, Flush
  <2> QED
    BY <2>1 DEF TypeOK
<1>5. CASE StartScreensaver
  <2>1. nextPts' = now /\ source' = 2 /\ UNCHANGED <<generation, now, seenGeneration, outputs>>
    BY <1>5, Zenon DEF StartScreensaver, ScreensaverStart
  <2> QED
    BY <2>1 DEF TypeOK
<1>6. CASE StartOutput
  <2>1. seenGeneration' = 0 /\ outputs' = outputs + 1 /\ UNCHANGED <<generation, now, nextPts, source>>
    BY <1>6, Zenon DEF StartOutput
  <2> QED
    BY <2>1 DEF TypeOK
<1> HIDE DEF NumberTypes
<1> QED
  BY <1>1, <1>2, <1>3, <1>4, <1>5, <1>6
     DEF Next, Producer, Output, Holder, vars, PushLatest, Close, PushFrame,
         ProducerExits, CheckStop, PopFrame, PopNothing, PushBuffer, PushRejected,
         RequestOutputStop, OutputNull, StartOutputFails, Stopped, BeginSwitch,
         BeginStop, BeginRebuild, OutputDies

\* Frames move from place to place, and the buffer stays bounded.
LEMMA FramesNext == TypeOK /\ Hands /\ [Next]_vars => FrameTypes'
<1> SUFFICES ASSUME TypeOK /\ Hands, [Next]_vars PROVE FrameTypes'
  OBVIOUS
<1> USE Fields DEF FrameTypes, buffer, producer, output, control, history
<1>1. CASE UNCHANGED <<frames, made, held, shown, last>>
  BY <1>1 DEF TypeOK
<1>2. CASE MakeFrame
  BY <1>2, Making DEF TypeOK
<1>3. CASE PushFrame
  <2>1. made \in Frames /\ last' = made /\ made' = NoFrame /\ UNCHANGED <<held, shown>>
    BY <1>3, Zenon DEF PushFrame, Hands
  <2> QED
    BY <1>3, <2>1, Pushed DEF TypeOK
<1>4. CASE ProducerExits
  <2>1. made' = NoFrame /\ UNCHANGED <<frames, held, shown, last>>
    BY <1>4, Zenon DEF ProducerExits
  <2> QED
    BY <2>1 DEF TypeOK
<1>5. CASE PopFrame
  <2>1. UNCHANGED <<made, shown, last>>
    BY <1>5, Zenon DEF PopFrame
  <2> QED
    BY <1>5, <2>1, Popped, FlowAssumption DEF TypeOK
<1>6. CASE PushBuffer
  <2>1. shown' = held /\ held' = NoFrame /\ UNCHANGED <<frames, made, last>>
    BY <1>6, Zenon DEF PushBuffer
  <2> QED
    BY <2>1 DEF TypeOK
<1>7. CASE PushRejected
  <2>1. held' = NoFrame /\ UNCHANGED <<frames, made, shown, last>>
    BY <1>7, Zenon DEF PushRejected
  <2> QED
    BY <2>1 DEF TypeOK
<1>8. CASE FlushFrames
  <2>1. frames' = <<>> /\ UNCHANGED <<made, held, shown, last>>
    BY <1>8, Flushing
  <2> QED
    BY <2>1, FlowAssumption DEF TypeOK
<1> HIDE DEF FrameTypes
<1> QED
  BY <1>1, <1>2, <1>3, <1>4, <1>5, <1>6, <1>7, <1>8
     DEF Next, Producer, Output, Holder, vars, PushLatest, Close, CheckStop,
         PopNothing, TagFrame, StartScreensaver, RequestOutputStop, OutputNull,
         StartOutput, StartOutputFails, Stopped, BeginSwitch, BeginStop,
         BeginRebuild, OutputDies

\* A thread has a frame in its hands exactly where its code has one.
LEMMA HandsNext == IInv /\ [Next]_vars => Hands'
<1> SUFFICES ASSUME IInv, [Next]_vars PROVE Hands'
  OBVIOUS
<1> USE DEF Hands, buffer, producer, output, control, history
<1>1. CASE UNCHANGED <<made, held, producerPc, now, nextPts, source, outputPc>>
  BY <1>1 DEF IInv
<1>2. CASE MakeFrame
  BY <1>2, Making DEF IInv, TypeOK, NumberTypes
<1>3. CASE PushFrame
  <2>1. producerPc' = "loop" /\ UNCHANGED <<held, now, nextPts, source, outputPc>>
    BY <1>3, Zenon DEF PushFrame
  <2> QED
    BY <2>1 DEF IInv
<1>4. CASE ProducerExits
  <2>1. producerPc' = "off" /\ UNCHANGED <<held, now, nextPts, source, outputPc>>
    BY <1>4, Zenon DEF ProducerExits
  <2> QED
    BY <2>1 DEF IInv
<1>5. CASE CheckStop
  <2>1. /\ outputPc = "loop" /\ outputPc' \in {"off", "pop"}
        /\ UNCHANGED <<made, held, producerPc, now, nextPts, source>>
    BY <1>5, Zenon DEF CheckStop
  <2> QED
    BY <2>1 DEF IInv
<1>6. CASE PopFrame
  <2>1. /\ outputPc' = "popped" /\ UNCHANGED <<made, producerPc, now, nextPts, source>>
    BY <1>6, Zenon DEF PopFrame
  <2> QED
    BY <1>6, <2>1, Popped DEF IInv, TypeOK
<1>7. CASE PopNothing
  <2>1. /\ outputPc = "pop" /\ outputPc' = "off"
        /\ UNCHANGED <<made, held, producerPc, now, nextPts, source>>
    BY <1>7, Zenon DEF PopNothing
  <2> QED
    BY <2>1 DEF IInv
<1>8. CASE TagFrame
  <2>1. /\ outputPc = "popped" /\ outputPc' = "push"
        /\ UNCHANGED <<made, held, producerPc, now, nextPts, source>>
    BY <1>8, Zenon DEF TagFrame
  <2> QED
    BY <2>1 DEF IInv
<1>9. CASE PushBuffer
  <2>1. /\ outputPc' = "loop" /\ held' = NoFrame
        /\ UNCHANGED <<made, producerPc, now, nextPts, source>>
    BY <1>9, Zenon DEF PushBuffer
  <2> QED
    BY <2>1 DEF IInv
<1>10. CASE PushRejected
  <2>1. /\ outputPc' = "off" /\ held' = NoFrame
        /\ UNCHANGED <<made, producerPc, now, nextPts, source>>
    BY <1>10, Zenon DEF PushRejected
  <2> QED
    BY <2>1 DEF IInv
<1>11. CASE FlushFrames
  BY <1>11, Flushing DEF IInv
<1>12. CASE StartScreensaver
  <2>1. /\ producerPc' = "loop" /\ nextPts' = now
        /\ UNCHANGED <<made, held, now, outputPc>>
    BY <1>12, Zenon DEF StartScreensaver, ScreensaverStart
  <2> QED
    BY <2>1 DEF IInv
<1>13. CASE StartOutput
  BY <1>13, Restarting DEF IInv
<1> HIDE DEF Hands
<1> QED
  BY <1>1, <1>2, <1>3, <1>4, <1>5, <1>6, <1>7, <1>8, <1>9, <1>10, <1>11, <1>12,
     <1>13
     DEF Next, Producer, Output, Holder, vars, PushLatest, Close, RequestOutputStop,
         OutputNull, StartOutputFails, Stopped, BeginSwitch, BeginStop,
         BeginRebuild, OutputDies

\* The holder of mutex_ goes on only when the thread it waits for is joined.
LEMMA HoldingNext == IInv /\ [Next]_vars => Holding'
<1> SUFFICES ASSUME IInv, [Next]_vars PROVE Holding'
  OBVIOUS
<1> USE DEF IInv, Holding, buffer, producer, output, control, history
<1>1. CASE UNCHANGED <<task, taskPc, producerPc, producerStop, frames, source,
                    outputStop>>
  BY <1>1
<1>2. CASE MakeFrame
  BY <1>2 DEF MakeFrame
<1>3. CASE PushFrame
  BY <1>3 DEF PushFrame
<1>4. CASE ProducerExits
  BY <1>4 DEF ProducerExits
<1>5. CASE PopFrame
  BY <1>5 DEF PopFrame
<1>6. CASE FlushFrames
  BY <1>6 DEF FlushFrames, Flush, Joined
<1>7. CASE StartScreensaver
  BY <1>7 DEF StartScreensaver
<1>8. CASE RequestOutputStop
  BY <1>8 DEF RequestOutputStop
<1>9. CASE OutputNull
  BY <1>9 DEF OutputNull
<1>10. CASE StartOutput
  BY <1>10 DEF StartOutput
<1>11. CASE StartOutputFails
  BY <1>11 DEF StartOutputFails
<1>12. CASE Stopped
  BY <1>12 DEF Stopped
<1>13. CASE BeginSwitch
  BY <1>13 DEF BeginSwitch
<1>14. CASE BeginStop
  BY <1>14 DEF BeginStop, Close
<1>15. CASE BeginRebuild
  BY <1>15 DEF BeginRebuild
<1> HIDE DEF IInv, Holding
<1> QED
  BY <1>1, <1>2, <1>3, <1>4, <1>5, <1>6, <1>7, <1>8, <1>9, <1>10, <1>11, <1>12,
     <1>13, <1>14, <1>15
     DEF Next, Producer, Output, Holder, vars, PushLatest, Close, CheckStop,
         PopNothing, TagFrame, PushBuffer, PushRejected, OutputDies

\* The pipeline goes down after a stop request, or as a failure that is remembered.
LEMMA DownsNext == IInv /\ [Next]_vars => Downs'
<1> SUFFICES ASSUME IInv, [Next]_vars PROVE Downs'
  OBVIOUS
<1> USE DEF IInv, Downs, Holding, TeardownIsNoFailure, buffer, producer, output,
     control, history
<1>1. CASE UNCHANGED <<pipelineUp, broken, outputStop, outputFailed>>
  BY <1>1
<1>2. CASE PushRejected
  BY <1>2 DEF PushRejected, RejectFails
<1>3. CASE RequestOutputStop
  BY <1>3 DEF RequestOutputStop
<1>4. CASE OutputNull
  BY <1>4 DEF OutputNull
<1>5. CASE StartOutput
  BY <1>5 DEF StartOutput
<1>6. CASE StartOutputFails
  BY <1>6 DEF StartOutputFails
<1>7. CASE OutputDies
  BY <1>7 DEF OutputDies
<1> HIDE DEF IInv, Downs, Holding, TeardownIsNoFailure
<1> QED
  BY <1>1, <1>2, <1>3, <1>4, <1>5, <1>6, <1>7
     DEF Next, Producer, Output, Holder, vars, PushLatest, Close, MakeFrame,
         PushFrame, ProducerExits, CheckStop, PopFrame, PopNothing, TagFrame,
         PushBuffer, FlushFrames, StartScreensaver, Stopped, BeginSwitch, BeginStop,
         BeginRebuild

\* A producer pushes frames of its source, and the buffer is empty when the source
\* changes.
LEMMA PresentNext == IInv /\ [Next]_vars => QueueIsPresent'
<1> SUFFICES ASSUME IInv, [Next]_vars PROVE QueueIsPresent'
  OBVIOUS
<1> USE DEF QueueIsPresent, buffer, producer, output, control, history
<1>1. CASE UNCHANGED <<frames, source, taskPc>>
  BY <1>1 DEF IInv
<1>2. CASE PushFrame
  <2>1. producerPc = "made" /\ UNCHANGED <<source, taskPc>>
    BY <1>2, Zenon DEF PushFrame
  <2>2. made \in Frames /\ made.source = source /\ taskPc # "restart"
    BY <2>1, Zenon DEF IInv, Hands, Holding
  <2>3. FrameTypes /\ QueueIsPresent
    BY Zenon DEF IInv, TypeOK
  <2>4. frames \in Seq(Frames) /\ frames' \in Seq(Frames)
    BY <1>2, <2>2, <2>3, Pushed DEF FrameTypes
  <2> QED
    BY <1>2, <2>1, <2>2, <2>3, <2>4, Pushed
<1>3. CASE PopFrame
  <2>1. UNCHANGED <<source, taskPc>>
    BY <1>3, Zenon DEF PopFrame
  <2>2. FrameTypes /\ QueueIsPresent
    BY Zenon DEF IInv, TypeOK
  <2>3. frames \in Seq(Frames)
    BY <2>2 DEF FrameTypes
  <2> QED
    BY <1>3, <2>1, <2>2, <2>3, Popped
<1>4. CASE FlushFrames
  <2>1. frames' = <<>>
    BY <1>4, Flushing
  <2> QED
    BY <2>1
<1>5. CASE StartScreensaver
  <2>1. frames' = <<>>
    BY <1>5, Zenon DEF StartScreensaver, IInv, Holding
  <2> QED
    BY <2>1
<1>6. CASE RequestOutputStop
  <2>1. UNCHANGED <<frames, source>> /\ taskPc' # "restart"
    BY <1>6, Zenon DEF RequestOutputStop
  <2> QED
    BY <2>1 DEF IInv
<1>7. CASE OutputNull
  <2>1. UNCHANGED <<frames, source>> /\ taskPc' # "restart"
    BY <1>7, Zenon DEF OutputNull
  <2> QED
    BY <2>1 DEF IInv
<1>8. CASE StartOutput
  <2>1. UNCHANGED <<frames, source>> /\ taskPc' # "restart"
    BY <1>8, Zenon DEF StartOutput
  <2> QED
    BY <2>1 DEF IInv
<1>9. CASE StartOutputFails
  <2>1. UNCHANGED <<frames, source>> /\ taskPc' # "restart"
    BY <1>9, Zenon DEF StartOutputFails
  <2> QED
    BY <2>1 DEF IInv
<1>10. CASE Stopped
  <2>1. UNCHANGED <<frames, source>> /\ taskPc' # "restart"
    BY <1>10, Zenon DEF Stopped
  <2> QED
    BY <2>1 DEF IInv
<1>11. CASE BeginSwitch
  <2>1. UNCHANGED <<frames, source>> /\ taskPc' # "restart"
    BY <1>11, Zenon DEF BeginSwitch
  <2> QED
    BY <2>1 DEF IInv
<1>12. CASE BeginStop
  <2>1. UNCHANGED <<frames, source>> /\ taskPc' # "restart"
    BY <1>12, Zenon DEF BeginStop, Close
  <2> QED
    BY <2>1 DEF IInv
<1>13. CASE BeginRebuild
  <2>1. UNCHANGED <<frames, source>> /\ taskPc' # "restart"
    BY <1>13, Zenon DEF BeginRebuild
  <2> QED
    BY <2>1 DEF IInv
<1> HIDE DEF QueueIsPresent
<1> QED
  BY <1>1, <1>2, <1>3, <1>4, <1>5, <1>6, <1>7, <1>8, <1>9, <1>10, <1>11, <1>12,
     <1>13
     DEF Next, Producer, Output, Holder, vars, PushLatest, Close, MakeFrame,
         ProducerExits, CheckStop, PopNothing, TagFrame, PushBuffer, PushRejected,
         OutputDies

\* Pushes and pops keep the buffer a run that ends with the newest frame.
LEMMA CountNext == IInv /\ [Next]_vars => CountsDown'
<1> SUFFICES ASSUME IInv, [Next]_vars PROVE CountsDown'
  OBVIOUS
<1> USE DEF CountsDown, buffer, producer, output, control, history
<1>1. CASE UNCHANGED <<frames, last>>
  BY <1>1 DEF IInv
<1>2. CASE PushFrame
  <2>1. producerPc = "made" /\ last' = made
    BY <1>2, Zenon DEF PushFrame
  <2>2. /\ made \in Frames /\ made.pts = now - 1 /\ now \in Nat
        /\ frames # <<>> => last.pts + 1 = now - 1
    BY <2>1 DEF IInv, Hands, TypeOK, NumberTypes, InOrder, Upcoming
  <2>3. FrameTypes /\ CountsDown
    BY Zenon DEF IInv, TypeOK
  <2>4. frames \in Seq(Frames) /\ Len(frames) \in Nat /\ last \in Frames \cup {NoFrame}
    BY <2>3 DEF FrameTypes
  <2>5. ASSUME NEW i \in 1 .. Len(frames')
        PROVE  /\ frames'[i].pts + (Len(frames') - i) = last'.pts
               /\ i = Len(frames') => frames'[i] = last'
    <3>1. CASE i = Len(frames')
      BY <3>1, <1>2, <2>1, <2>2, <2>3, Pushed, Fields
    <3>2. CASE i < Len(frames')
      <4> DEFINE j == i + (Len(frames) + 1 - Len(frames'))
      <4>1. j \in 1 .. Len(frames) /\ frames'[i] = frames[j] /\ Len(frames') \in Nat
        BY <3>2, <1>2, <2>2, <2>3, Pushed, FlowAssumption
      <4>2. frames[j].pts + (Len(frames) - j) = last.pts /\ frames[j].pts \in Nat
        BY <4>1, <2>3, <2>4, Fields, ElementOfSeq
      <4>3. last.pts + 1 = now - 1 /\ last'.pts = now - 1 /\ last.pts \in Nat
        BY <4>1, <2>1, <2>2, <2>4, Fields
      <4> QED
        BY <3>2, <4>1, <4>2, <4>3, <2>2, <2>4
    <3> QED
      BY <3>1, <3>2, <1>2, <2>2, <2>3, Pushed, FlowAssumption
  <2> QED
    BY <2>5
<1>3. CASE PopFrame
  <2>1. FrameTypes /\ CountsDown /\ last' = last
    BY <1>3, Zenon DEF IInv, TypeOK, PopFrame
  <2>2. frames \in Seq(Frames) /\ Len(frames) \in Nat
    BY <2>1 DEF FrameTypes
  <2> QED
    BY <1>3, <2>1, <2>2, Popped
<1>4. CASE FlushFrames
  <2>1. frames' = <<>>
    BY <1>4, Flushing
  <2> QED
    BY <2>1
<1> HIDE DEF CountsDown
<1> QED
  BY <1>1, <1>2, <1>3, <1>4
     DEF Next, Producer, Output, Holder, vars, PushLatest, Close, MakeFrame,
         ProducerExits, CheckStop, PopNothing, TagFrame, PushBuffer, PushRejected,
         StartScreensaver, RequestOutputStop, OutputNull, StartOutput,
         StartOutputFails, Stopped, BeginSwitch, BeginStop, BeginRebuild, OutputDies

\* The terms that InOrder compares are numbers.
LEMMA Comparable ==
  ASSUME IInv
  PROVE  /\ {shown.pts, held.pts, last.pts, Latest.pts, now} \subseteq Nat
         /\ {shown.source, held.source, Latest.source, source} \subseteq Nat
         /\ frames \in Seq(Frames) /\ Len(frames) \in Nat
<1>1. \A f \in Frames \cup {NoFrame} : f.pts \in Nat /\ f.source \in Nat
  BY Fields, FlowAssumption
<1>2. {shown, held, last, Latest} \subseteq Frames \cup {NoFrame}
  BY Zenon DEF IInv, TypeOK, FrameTypes, Latest
<1>3. now \in Nat /\ source \in Nat /\ frames \in Seq(Frames)
  BY DEF IInv, TypeOK, NumberTypes, FrameTypes
<1> QED
  BY <1>1, <1>2, <1>3

\* A frame that moves stays behind the one that moved before it.
LEMMA OrderNext == IInv /\ [Next]_vars => InOrder'
<1> SUFFICES ASSUME IInv, [Next]_vars PROVE InOrder'
  OBVIOUS
<1> USE Comparable DEF InOrder, Latest, Upcoming, buffer, producer, output, control,
     history
<1>1. CASE UNCHANGED <<shown, held, source, outputPc, frames, last, producerPc, now>>
  BY <1>1 DEF IInv
<1>2. CASE MakeFrame
  <2>1. TypeOK /\ Hands /\ InOrder
    BY DEF IInv
  <2> QED
    BY <1>2, <2>1, Making
<1>3. CASE PushFrame
  <2>1. /\ producerPc = "made" /\ producerPc' = "loop" /\ last' = made
        /\ UNCHANGED <<shown, held, source, outputPc, now>>
    BY <1>3, Zenon DEF PushFrame
  <2>2. FrameTypes /\ InOrder /\ CountsDown /\ made \in Frames /\ made.pts = now - 1
    BY <2>1 DEF IInv, TypeOK, Hands
  <2>3. frames' \in Seq(Frames) /\ Len(frames') \in 1 .. Len(frames) + 1
    BY <1>3, <2>2, Pushed, FlowAssumption
  <2>4. CASE frames = <<>>
    BY <2>1, <2>2, <2>3, <2>4
  <2>5. CASE frames # <<>>
    <3>1. Latest.pts + Len(frames) <= last.pts /\ last.pts + 1 = now - 1
      BY <2>1, <2>2, <2>5
    <3>2. frames' # <<>> /\ Latest' = Latest /\ Latest.pts + Len(frames') <= made.pts
      BY <2>1, <2>2, <2>3, <3>1
    <3> QED
      BY <2>1, <2>2, <3>2
  <2> QED
    BY <2>4, <2>5
<1>4. CASE ProducerExits
  <2>1. producerPc' = "off" /\ UNCHANGED <<shown, held, source, outputPc, frames, last, now>>
    BY <1>4, Zenon DEF ProducerExits
  <2> QED
    BY <2>1 DEF IInv
<1>5. CASE CheckStop
  <2>1. /\ outputPc = "loop" /\ outputPc' \in {"off", "pop"}
        /\ UNCHANGED <<shown, held, source, frames, last, producerPc, now>>
    BY <1>5, Zenon DEF CheckStop
  <2> QED
    BY <2>1 DEF IInv
<1>6. CASE PopFrame
  <2>1. /\ outputPc = "pop" /\ outputPc' = "popped"
        /\ UNCHANGED <<shown, source, last, producerPc, now>>
    BY <1>6, Zenon DEF PopFrame
  <2>2. FrameTypes /\ InOrder /\ CountsDown
    BY DEF IInv, TypeOK
  <2>3. /\ held' = frames[1] /\ Len(frames) \in Nat \ {0} /\ Len(frames') = Len(frames) - 1
        /\ frames' \in Seq(Frames) /\ frames[1] \in Frames
    BY <1>6, <2>2, Popped, FlowAssumption
  <2>4. frames[1].pts + (Len(frames) - 1) = last.pts /\ frames[1].pts \in Nat
    BY <2>2, <2>3, Fields DEF CountsDown
  <2>5. frames[1].source = source
    BY <2>3 DEF IInv, QueueIsPresent
  <2>6. frames # <<>>
    BY <2>3
  <2>7. Latest' = frames[1]
    BY <2>1, <2>3
  <2>8. Latest = shown
    BY <2>1
  <2>9. CASE frames' = <<>>
    BY <2>1, <2>2, <2>3, <2>4, <2>5, <2>6, <2>7, <2>8, <2>9
  <2>10. CASE frames' # <<>>
    BY <2>1, <2>2, <2>3, <2>4, <2>5, <2>6, <2>7, <2>8, <2>10
  <2> QED
    BY <2>9, <2>10
<1>7. CASE PopNothing
  <2>1. /\ outputPc = "pop" /\ outputPc' = "off"
        /\ UNCHANGED <<shown, held, source, frames, last, producerPc, now>>
    BY <1>7, Zenon DEF PopNothing
  <2> QED
    BY <2>1 DEF IInv
<1>8. CASE TagFrame
  <2>1. /\ outputPc = "popped" /\ outputPc' = "push"
        /\ UNCHANGED <<shown, held, source, frames, last, producerPc, now>>
    BY <1>8, Zenon DEF TagFrame
  <2> QED
    BY <2>1 DEF IInv
<1>9. CASE PushBuffer
  <2>1. /\ outputPc = "push" /\ outputPc' = "loop" /\ shown' = held
        /\ UNCHANGED <<source, frames, last, producerPc, now>>
    BY <1>9, Zenon DEF PushBuffer
  <2> QED
    BY <2>1 DEF IInv
<1>10. CASE PushRejected
  <2>1. /\ outputPc = "push" /\ outputPc' = "off"
        /\ UNCHANGED <<shown, source, frames, last, producerPc, now>>
    BY <1>10, Zenon DEF PushRejected
  <2> QED
    BY <2>1 DEF IInv
<1>11. CASE FlushFrames
  <2>1. /\ producerPc = "off" /\ frames' = <<>>
        /\ UNCHANGED <<shown, held, source, outputPc, producerPc, now>>
    BY <1>11, Flushing DEF output, producer
  <2> QED
    BY <2>1 DEF IInv
<1>12. CASE StartScreensaver
  <2>1. /\ taskPc = "restart" /\ source' = 2 /\ producerPc' = "loop"
        /\ UNCHANGED <<shown, held, outputPc, frames, last, now>>
    BY <1>12, Zenon DEF StartScreensaver
  <2>2. producerPc = "off" /\ frames = <<>> /\ source \in {1, 2}
    BY <2>1 DEF IInv, Holding, TypeOK, NumberTypes
  <2> QED
    BY <2>1, <2>2 DEF IInv
<1>13. CASE StartOutput
  <2>1. /\ outputPc = "off" /\ outputPc' = "loop"
        /\ UNCHANGED <<shown, held, source, frames, last, producerPc, now>>
    BY <1>13, Restarting
  <2> QED
    BY <2>1 DEF IInv
<1> HIDE DEF InOrder, Latest, Upcoming
<1> QED
  BY <1>1, <1>2, <1>3, <1>4, <1>5, <1>6, <1>7, <1>8, <1>9, <1>10, <1>11, <1>12,
     <1>13
     DEF Next, Producer, Output, Holder, vars, PushLatest, Close, RequestOutputStop,
         OutputNull, StartOutputFails, Stopped, BeginSwitch, BeginStop,
         BeginRebuild, OutputDies

\* A mark can be late, but not later than the first frame behind a flush.
LEMMA MarksNext == IInv /\ [Next]_vars => Marks'
<1> SUFFICES ASSUME IInv, [Next]_vars PROVE Marks'
  OBVIOUS
<1> USE DEF IInv, Marks, buffer, producer, output, control, history
<1>1. CASE UNCHANGED <<outputPc, seenGeneration, generation, marked, discont, held, taskPc, source>>
  BY <1>1
<1>2. CASE CheckStop
  BY <1>2 DEF CheckStop
<1>3. CASE PopFrame
  BY <1>3 DEF PopFrame
<1>4. CASE PopNothing
  BY <1>4 DEF PopNothing
<1>5. CASE TagFrame
  BY <1>5 DEF TagFrame, NewGeneration
<1>6. CASE PushBuffer
  BY <1>6 DEF PushBuffer
<1>7. CASE PushRejected
  BY <1>7 DEF PushRejected
<1>8. CASE FlushFrames
  <2>1. seenGeneration \in 0 .. generation /\ generation \in Nat
    BY DEF TypeOK, NumberTypes
  <2>2. generation' = generation + 1 /\ seenGeneration' = seenGeneration
    BY <1>8, Zenon DEF FlushFrames, Flush
  <2>3. seenGeneration' # generation'
    BY <2>1, <2>2
  <2>4. ASSUME outputPc = "push", task = "switch" PROVE held.source = 1
    <3>1. held \in Frames /\ source = 1
      BY <2>4 DEF Hands, Holding
    <3>2. held.source <= source
      BY <2>4 DEF InOrder, Latest
    <3> QED
      BY <3>1, <3>2, Fields
  <2>5. /\ taskPc = "join" /\ UNCHANGED <<outputPc, discont, held, source, task>>
        /\ task = "switch" => taskPc' = "restart"
        /\ task = "stop" /\ marked => marked'
    BY <1>8, Zenon DEF FlushFrames
  <2>6. task \in {"switch", "stop"}
    BY <2>5 DEF Holding
  <2> QED
    BY <2>3, <2>4, <2>5, <2>6, Zenon
<1>9. CASE StartScreensaver
  BY <1>9 DEF StartScreensaver
<1>10. CASE RequestOutputStop
  BY <1>10 DEF RequestOutputStop
<1>11. CASE OutputNull
  BY <1>11 DEF OutputNull
<1>12. CASE StartOutput
  <2>1. /\ outputPc = "off" /\ outputPc' = "loop" /\ seenGeneration' = 0
        /\ UNCHANGED <<generation, discont>>
    BY <1>12, Zenon DEF StartOutput
  <2>2. generation' # seenGeneration'
    BY <2>1 DEF TypeOK, NumberTypes
  <2> QED
    BY <2>1, <2>2, Zenon
<1>13. CASE StartOutputFails
  BY <1>13 DEF StartOutputFails
<1>14. CASE Stopped
  BY <1>14 DEF Stopped
<1>15. CASE BeginSwitch
  BY <1>15 DEF BeginSwitch, Holding
<1>16. CASE BeginStop
  BY <1>16 DEF BeginStop, Close, Holding
<1>17. CASE BeginRebuild
  BY <1>17 DEF BeginRebuild, Holding
<1> HIDE DEF IInv, Marks
<1> QED
  BY <1>1, <1>2, <1>3, <1>4, <1>5, <1>6, <1>7, <1>8, <1>9, <1>10, <1>11, <1>12,
     <1>13, <1>14, <1>15, <1>16, <1>17
     DEF Next, Producer, Output, Holder, vars, PushLatest, Close, MakeFrame,
         PushFrame, ProducerExits, OutputDies

-----------------------------------------------------------------------------
(* The theorems. *)

\* The first capture and the first output start with an empty buffer.
LEMMA InvariantInit == Init => IInv
<1> SUFFICES ASSUME Init PROVE IInv
  OBVIOUS
<1> USE FlowAssumption DEF Init
<1>1. FlagTypes /\ ControlTypes
  BY DEF FlagTypes, ControlTypes
<1>2. NumberTypes
  <2>1. /\ generation = 1 /\ now = 1 /\ nextPts = 1 /\ source = 1
        /\ seenGeneration = 0 /\ outputs = 1
    BY Zenon
  <2> QED
    BY <2>1 DEF NumberTypes
<1>3. FrameTypes
  <2>1. frames = <<>> /\ made = NoFrame /\ held = NoFrame /\ shown = NoFrame /\ last = NoFrame
    BY Zenon
  <2> QED
    BY <2>1 DEF FrameTypes
<1>4. Hands /\ Holding
  BY DEF Hands, Holding
<1>5. InOrder
  <2>1. /\ frames = <<>> /\ held = NoFrame /\ shown = NoFrame /\ outputPc = "loop"
        /\ now = 1 /\ producerPc = "loop" /\ source = 1
    BY Zenon
  <2> QED
    BY <2>1, Fields DEF InOrder, Latest, Upcoming
<1>6. Downs
  BY DEF Downs, TeardownIsNoFailure
<1>7. Marks
  <2>1. seenGeneration = 0 /\ generation = 1 /\ outputPc = "loop" /\ discont = FALSE
    BY Zenon
  <2> QED
    BY <2>1 DEF Marks
<1>8. QueueIsPresent /\ CountsDown
  <2>1. frames = <<>>
    BY Zenon
  <2> QED
    BY <2>1 DEF QueueIsPresent, CountsDown
<1> QED
  BY <1>1, <1>2, <1>3, <1>4, <1>5, <1>6, <1>7, <1>8 DEF IInv, TypeOK

\* Where each frame is and what each thread may assume of the others holds throughout
\* (FrameBuffer, RunCapture, RunScreensaver, RunOutput and the holder of mutex_).
THEOREM Invariance == Spec => []IInv
<1>1. IInv /\ [Next]_vars => IInv'
  BY FlagsNext, ControlNext, NumbersNext, FramesNext, HandsNext, HoldingNext, OrderNext,
     DownsNext, MarksNext, PresentNext, CountNext
     DEF IInv, TypeOK
<1> QED
  BY InvariantInit, <1>1, PTL DEF Spec

\* Every variable keeps its type, and the buffer its capacity.
THEOREM TypeCorrect == Spec => []TypeOK
<1>1. IInv => TypeOK
  BY DEF IInv
<1> QED
  BY <1>1, Invariance, PTL

\* For any capacity, PushLatest loses the oldest frames only, and after
\* StopCapturePipeline no frame of the capture waits for the output.
THEOREM QueueSound == Spec => []QueueIsSound
<1>1. ASSUME IInv PROVE QueueIsSound
  <2>1. /\ frames \in Seq(Frames) /\ Len(frames) <= Capacity /\ Len(frames) \in Nat
        /\ CountsDown /\ QueueIsPresent
    BY <1>1 DEF IInv, TypeOK, FrameTypes
  <2>2. ASSUME NEW i \in DOMAIN frames
        PROVE  IF i = Len(frames) THEN frames[i] = last
                                  ELSE frames[i + 1].pts = frames[i].pts + 1
    <3>1. i \in 1 .. Len(frames)
      BY <2>1
    <3>2. CASE i = Len(frames)
      BY <3>1, <3>2, <2>1 DEF CountsDown
    <3>3. CASE i # Len(frames)
      <4>1. i + 1 \in 1 .. Len(frames)
        BY <3>1, <3>3, <2>1
      <4>2. frames[i] \in Frames /\ frames[i + 1] \in Frames
        BY <3>1, <4>1, <2>1, ElementOfSeq
      <4>3. frames[i].pts \in Nat /\ frames[i + 1].pts \in Nat
        BY <4>2, Fields, FlowAssumption
      <4>4. frames[i].pts + (Len(frames) - i) = frames[i + 1].pts + (Len(frames) - (i + 1))
        BY <3>1, <4>1, <2>1 DEF CountsDown
      <4>5. i \in Int /\ Len(frames) \in Int
        BY <3>1, <2>1
      <4> DEFINE older == frames[i].pts
                 newer == frames[i + 1].pts
                 size  == Len(frames)
      <4>6. /\ older \in Int /\ newer \in Int /\ size \in Int /\ i \in Int
            /\ older + (size - i) = newer + (size - (i + 1))
        BY <4>3, <4>4, <4>5
      <4> HIDE DEF older, newer, size
      <4>7. newer = older + 1
        BY <4>6
      <4> USE DEF older, newer
      <4> QED
        BY <3>3, <4>7
    <3> QED
      BY <3>2, <3>3
  <2> QED
    BY <2>1, <2>2 DEF QueueIsSound, NewestSurvive
<1> QED
  BY <1>1, Invariance, PTL

\* No join or restart of RunOutput raises output_failed_.
THEOREM TeardownSound == Spec => []TeardownIsNoFailure
<1>1. IInv => TeardownIsNoFailure
  BY DEF IInv, Downs
<1> QED
  BY <1>1, Invariance, PTL

\* What lets a task go on: nobody to wait for, or the thread it joins is over. A producer
\* that was told to stop has its frame to push or leaves; RunOutput waits only in Pop, as
\* long as PopEnds is false. The guards of their steps say so.
TaskMoves ==
  \/ taskPc \in {"restart", "stop output", "null output"}
  \/ taskPc = "join" /\ Joined
  \/ taskPc = "join output" /\ outputPc = "off"
ProducerMoves == producerPc = "made" \/ (producerPc = "loop" /\ ProducerDone)
OutputMoves == outputPc \in {"loop", "popped", "push"} \/ (outputPc = "pop" /\ PopEnds)

\* A task never waits for a thread that waits as well: Stop, a switch or a rebuild that is
\* under way has a step to take, or the thread that it joins has one, and that thread
\* was told to stop. Pop is what could wait forever, on a buffer that nobody fills.
THEOREM JoinsMove ==
  Spec => []/\ taskPc = "join" => producerStop /\ (TaskMoves \/ ProducerMoves)
            /\ taskPc = "join output" => outputStop /\ (TaskMoves \/ OutputMoves)
            /\ taskPc \notin {"idle", "join", "join output"} => TaskMoves
<1> DEFINE Moves ==
      /\ taskPc = "join" => producerStop /\ (TaskMoves \/ ProducerMoves)
      /\ taskPc = "join output" => outputStop /\ (TaskMoves \/ OutputMoves)
      /\ taskPc \notin {"idle", "join", "join output"} => TaskMoves
<1>1. IInv => Moves
  <2> SUFFICES ASSUME IInv PROVE Moves
    OBVIOUS
  <2>1. TypeOK /\ Holding
    BY DEF IInv
  <2>2. CASE taskPc = "join"
    BY <2>1, <2>2 DEF TypeOK, ControlTypes, Holding, TaskMoves, ProducerMoves, Joined,
                      ProducerDone
  <2>3. CASE taskPc = "join output"
    BY <2>1, <2>3 DEF TypeOK, ControlTypes, Holding, TaskMoves, OutputMoves, PopEnds
  <2>4. CASE taskPc \notin {"idle", "join", "join output"}
    BY <2>1, <2>4 DEF TypeOK, ControlTypes, TaskMoves
  <2> QED
    BY <2>2, <2>3, <2>4
<1> QED
  BY Invariance, <1>1, PTL

\* Only PushBuffer shows a frame, and it shows the one that RunOutput holds.
LEMMA ShowingStep ==
  ASSUME IInv, [Next]_vars, shown' # shown
  PROVE  PushBuffer /\ shown' = held
<1>1. PushBuffer
  BY Zenon DEF Next, Producer, Output, Holder, vars, buffer, producer, output, control,
         history, PushLatest, Close, Flush, ScreensaverStart, MakeFrame, PushFrame, ProducerExits,
         CheckStop, PopFrame, PopNothing, TagFrame, PushRejected, FlushFrames,
         StartScreensaver, RequestOutputStop, OutputNull, StartOutput, StartOutputFails,
         Stopped, BeginSwitch, BeginStop, BeginRebuild, OutputDies
<1> QED
  BY <1>1, Zenon DEF PushBuffer

\* Timestamps at the appsrc grow for any interleaving of captures, flushes, rebuilds and
\* the change to the no-signal screen, and that change is never undone.
THEOREM OrderSound == Spec => OutputIsMonotonic
<1>1. ASSUME IInv, [Next]_vars, shown' # shown
      PROVE  shown'.pts > shown.pts /\ shown'.source >= shown.source
  <2>1. outputPc = "push" /\ shown' = held
    BY <1>1, ShowingStep, Zenon DEF PushBuffer
  <2>2. Latest = held /\ InOrder
    BY <1>1, <2>1 DEF Latest, IInv
  <2> QED
    BY <1>1, <2>1, <2>2, Comparable DEF InOrder
<1>2. IInv /\ [Next]_vars
        => [shown' # shown => shown'.pts > shown.pts /\ shown'.source >= shown.source]_vars
  BY <1>1
<1> QED
  BY <1>2, Invariance, PTL DEF Spec, OutputIsMonotonic

\* However flushes fall between the pop of a frame, the reading of the generation and the
\* push, a buffer marked as discontinuous comes no later than the first new frame.
THEOREM BreakSound == Spec => BreakIsMarked
<1>1. ASSUME IInv, [Next]_vars, shown' # shown, shown'.source = source, taskPc # "restart"
      PROVE  marked'
  <2>1. outputPc = "push" /\ shown' = held /\ (marked \/ discont => marked')
    BY <1>1, ShowingStep, Zenon DEF PushBuffer
  <2>2. ~(held.source = 1 /\ (taskPc = "restart" \/ source = 2))
    BY <1>1, <2>1
  <2> QED
    BY <1>1, <2>1, <2>2, Zenon DEF IInv, Marks
<1>2. IInv /\ [Next]_vars
        => [shown' # shown /\ shown'.source = source /\ taskPc # "restart" => marked']_vars
  BY <1>1
<1> QED
  BY <1>2, Invariance, PTL DEF Spec, BreakIsMarked

=============================================================================
