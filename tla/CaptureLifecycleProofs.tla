----------------------- MODULE CaptureLifecycleProofs -----------------------
(***************************************************************************)
(* Proofs about CaptureLifecycle for any finite set of captured streams.   *)
(* What the process made of a loss is decided over several steps of Poll,  *)
(* between which a device may die and a thread may leave: IInv says what   *)
(* is known at each of them.                                               *)
(***************************************************************************)
EXTENDS CaptureLifecycle, TLAPS

\* Who holds mutex_ is where its holder is.
MutexHeld ==
  /\ mutex = "main" <=> mainPc \in {"poll output", "poll failed", "poll active",
                                    "poll fallback", "join", "stop output"}
  /\ mutex = "io" <=> ioPc = "rebuild"

\* Main's way down: Stop is entered once and never left, the buffers are closed for
\* it alone, and the exit code is the last word.
Teardown ==
  /\ stopping <=> closed
  /\ stopping => mainPc \in {"join", "stop output", "exit", "done"}
  /\ mainPc \in {"stop output", "exit", "done"} => stopping /\ captureState = "stopped"
  /\ mainPc = "join" => stopRequested
  /\ stopRequested => stopping \/ mainPc = "join" \/ captureState = "stopped"
  /\ mainPc = "join" /\ ~stopping => captureState = "capturing"
  /\ mainPc = "poll active" => captureState = "capturing"
  /\ exitCode # "none" => mainPc = "done"

\* A capture that is not running has no threads, a screensaver that runs replaces it.
NoThreads == \A s \in Streams : threadPc[s] = "off"
Producers ==
  /\ captureState # "capturing" => NoThreads
  /\ screensaver = "on" => captureState = "screensaver"
  /\ captureState = "stopped" =>
       mainPc \in {"poll fallback", "stop output", "exit", "done"}

\* Where the error of a dead device is: on the bus until Poll drains it, then in the
\* flag that Poll reads before it decides. An error that is late escapes the decision.
ErrorSeen == died /\ ~late
ErrorKept ==
  /\ ErrorSeen /\ captureState = "capturing" /\ ~stopRequested
       => "error" \in bus \/ captureFailed
  /\ ErrorSeen /\ mainPc \in {"poll output", "poll failed"} /\ captureState = "capturing"
       => captureFailed
  /\ mainPc = "poll active" => ~ErrorSeen
  /\ mainPc = "join" /\ ~stopping => ~ErrorSeen
  /\ captureState = "stopped" /\ ~stopping => ~ErrorSeen

\* Every failure flag has a cause.
Causes ==
  /\ "error" \in bus => died
  /\ captureFailed => died \/ alarms # {}
  /\ outputFailed => alarms # {}
  /\ outputDead => alarms # {} \/ closed

\* What the flags are, after main has left its loop, in terms of what they were then
\* and of what happened since. Before that nothing is written down.
Reckoned ==
  /\ ~LeftLoop /\ mainPc # "done" => verdict = {} /\ since = {}
  /\ LeftLoop =>
       /\ captureFailed <=> "capture" \in verdict \/ "copy" \in since
       /\ outputFailed <=>
            "output" \in since \/ ("output" \in verdict /\ "rebuilt" \notin since)

IInv ==
  /\ TypeOK /\ MutexHeld /\ Teardown /\ Producers /\ ErrorKept /\ Causes /\ Reckoned
  /\ SeenErrorIsFatal /\ ExitIsHonest

-----------------------------------------------------------------------------
(* Types. *)

\* A comparison is a flag: whether a death comes between the drain and the decision.
LEMMA LateIsFlag == DeviceDies => late' \in BOOLEAN
<1> SUFFICES ASSUME DeviceDies PROVE late' \in BOOLEAN
  OBVIOUS
<1> DEFINE midPoll == mainPc \in {"poll output", "poll failed", "poll active"}
<1>1. late' = midPoll
  BY DEF DeviceDies
<1>2. midPoll \in BOOLEAN
  OBVIOUS
<1> QED
  BY <1>1, <1>2

\* Where main and the hook are.
LEMMA MainTypesNext == MainTypes /\ [Next]_vars => MainTypes'
<1> SUFFICES ASSUME MainTypes, [Next]_vars PROVE MainTypes'
  OBVIOUS
<1> USE DEF MainTypes, control
<1>1. CASE UNCHANGED <<control, closed>>
  BY <1>1
<1>2. CASE CheckLoop
  BY <1>2 DEF CheckLoop
<1>3. CASE PollCaptureBus
  BY <1>3 DEF PollCaptureBus, Health
<1>4. CASE PollOutputBus \/ ReadFailed \/ ReadActive
  BY <1>4 DEF PollOutputBus, ReadFailed, ReadActive
<1>5. CASE CaptureJoined \/ PollEnds
  BY <1>5 DEF CaptureJoined, PollEnds
<1>6. CASE BeginStop \/ StopOutput
  BY <1>6 DEF BeginStop, StopOutput
<1>7. CASE Exit
  BY <1>7 DEF Exit, ExitCode
<1>8. CASE BeginRebuild \/ IoReturns
  BY <1>8 DEF BeginRebuild, IoReturns, Rebuilt, RebuildKept, RebuildFails
<1> QED
  BY <1>1, <1>2, <1>3, <1>4, <1>5, <1>6, <1>7, <1>8
     DEF Next, Threads, Main, vars, DeviceDies, OutputDies, StreamEnds, CopyFails,
         CaptureEnds, CaptureLeaves, ScreensaverLeaves, OutputRejects, FeederEnds

\* The flags.
LEMMA FlagTypesNext == FlagTypes /\ [Next]_vars => FlagTypes'
<1> SUFFICES ASSUME FlagTypes, [Next]_vars PROVE FlagTypes'
  OBVIOUS
<1> USE DEF FlagTypes, flags, threads
<1>1. CASE UNCHANGED <<flags, outputDead, stopRequested>>
  BY <1>1
<1>2. ASSUME NEW s \in Streams, CopyFails(s) \/ CaptureLeaves(s) PROVE FlagTypes'
  BY <1>2 DEF CopyFails, CaptureLeaves
<1>3. CASE OutputDies \/ OutputRejects \/ FeederEnds
  BY <1>3 DEF OutputDies, OutputRejects, FeederEnds
<1>4. CASE PollCaptureBus
  <2>1. captureFailed' \in BOOLEAN
    BY <1>4 DEF PollCaptureBus
  <2>2. UNCHANGED <<captureActive, outputFailed, outputDead, stopRequested>>
    BY <1>4 DEF PollCaptureBus
  <2> QED
    BY <2>1, <2>2
<1>5. CASE PollOutputBus
  BY <1>5 DEF PollOutputBus
<1>6. CASE ReadActive
  BY <1>6 DEF ReadActive
<1>7. CASE PollEnds \/ BeginStop \/ StopOutput
  BY <1>7 DEF PollEnds, BeginStop, StopOutput
<1>8. CASE Rebuilt
  BY <1>8 DEF Rebuilt
<1>9. CASE RebuildFails
  BY <1>9 DEF RebuildFails
<1> QED
  BY <1>1, <1>2, <1>3, <1>4, <1>5, <1>6, <1>7, <1>8, <1>9
     DEF Next, Threads, Main, IoReturns, vars, DeviceDies, StreamEnds, CaptureEnds,
         ScreensaverLeaves, CheckLoop, ReadFailed, CaptureJoined, Exit, BeginRebuild,
         RebuildKept

\* The buses, the threads and the output.
LEMMA ThreadTypesNext == ThreadTypes /\ [Next]_vars => ThreadTypes'
<1> SUFFICES ASSUME ThreadTypes, [Next]_vars PROVE ThreadTypes'
  OBVIOUS
<1> USE DEF ThreadTypes, device, threads
<1>1. CASE UNCHANGED <<device, threadPc, screensaver, output>>
  BY <1>1
<1>2. CASE DeviceDies
  BY <1>2 DEF DeviceDies
<1>3. ASSUME NEW s \in Streams, StreamEnds(s) PROVE ThreadTypes'
  BY <1>3 DEF StreamEnds
<1>4. ASSUME NEW s \in Streams, CopyFails(s) \/ CaptureEnds(s) \/ CaptureLeaves(s)
      PROVE  ThreadTypes'
  BY <1>4 DEF CopyFails, CaptureEnds, CaptureLeaves
<1>5. CASE ScreensaverLeaves \/ OutputRejects \/ FeederEnds
  BY <1>5 DEF ScreensaverLeaves, OutputRejects, FeederEnds
<1>6. CASE PollCaptureBus \/ CaptureJoined
  BY <1>6 DEF PollCaptureBus, CaptureJoined
<1>7. CASE PollEnds \/ StopOutput
  BY <1>7 DEF PollEnds, StopOutput
<1>8. CASE Rebuilt \/ RebuildFails
  BY <1>8 DEF Rebuilt, RebuildFails
<1> QED
  BY <1>1, <1>2, <1>3, <1>4, <1>5, <1>6, <1>7, <1>8
     DEF Next, Threads, Main, IoReturns, vars, OutputDies, CheckLoop, PollOutputBus,
         ReadFailed, ReadActive, BeginStop, Exit, BeginRebuild, RebuildKept

\* What is written down.
LEMMA HistoryTypesNext == HistoryTypes /\ [Next]_vars => HistoryTypes'
<1> SUFFICES ASSUME HistoryTypes, [Next]_vars PROVE HistoryTypes'
  OBVIOUS
<1> USE DEF HistoryTypes, history, exits
<1>1. CASE UNCHANGED history
  BY <1>1
<1>2. CASE DeviceDies
  BY <1>2, LateIsFlag DEF DeviceDies
<1>3. CASE OutputDies
  BY <1>3 DEF OutputDies
<1>4. ASSUME NEW s \in Streams, CopyFails(s) PROVE HistoryTypes'
  BY <1>4 DEF CopyFails, Since
<1>5. CASE OutputRejects
  BY <1>5 DEF OutputRejects, Since
<1>6. CASE CheckLoop
  BY <1>6 DEF CheckLoop, UpFlags
<1>7. CASE Rebuilt
  BY <1>7 DEF Rebuilt, Since
<1>8. CASE RebuildFails
  BY <1>8 DEF RebuildFails, Since
<1> QED
  BY <1>1, <1>2, <1>3, <1>4, <1>5, <1>6, <1>7, <1>8
     DEF Next, Threads, Main, IoReturns, vars, StreamEnds, CaptureEnds, CaptureLeaves,
         ScreensaverLeaves, FeederEnds, PollCaptureBus, PollOutputBus, ReadFailed,
         ReadActive, CaptureJoined, PollEnds, BeginStop, StopOutput, Exit, BeginRebuild,
         RebuildKept

\* When the exit code is written, main has joined every thread, and none starts again.
LEMMA ExitLastNext == IInv /\ [Next]_vars => ExitIsLast'
<1> SUFFICES ASSUME IInv, [Next]_vars PROVE ExitIsLast'
  OBVIOUS
<1> USE DEF IInv, TypeOK, ThreadTypes, ExitIsLast, Teardown, Producers, NoThreads,
     threads, control
<1>1. CASE UNCHANGED <<exitCode, screensaver, threadPc>>
  BY <1>1
<1>2. ASSUME NEW s \in Streams, CopyFails(s) \/ CaptureEnds(s) \/ CaptureLeaves(s)
      PROVE  ExitIsLast'
  BY <1>2 DEF CopyFails, CaptureEnds, CaptureLeaves
<1>3. CASE ScreensaverLeaves
  BY <1>3 DEF ScreensaverLeaves
<1>4. CASE PollEnds
  BY <1>4 DEF PollEnds
<1>5. CASE Exit
  <2>1. captureState = "stopped" /\ UNCHANGED threads
    BY <1>5 DEF Exit
  <2>2. screensaver = "off" /\ threadPc = [s \in Streams |-> "off"]
    BY <2>1
  <2> QED
    BY <2>1, <2>2
<1> QED
  BY <1>1, <1>2, <1>3, <1>4, <1>5
     DEF Next, Threads, Main, IoReturns, vars, DeviceDies, OutputDies, StreamEnds,
         OutputRejects, FeederEnds, CheckLoop, PollCaptureBus, PollOutputBus, ReadFailed,
         ReadActive, CaptureJoined, BeginStop, StopOutput, BeginRebuild, Rebuilt,
         RebuildKept, RebuildFails

\* Every variable keeps its type.
LEMMA TypeNext == IInv /\ [Next]_vars => TypeOK'
BY MainTypesNext, FlagTypesNext, ThreadTypesNext, HistoryTypesNext, ExitLastNext
   DEF IInv, TypeOK

-----------------------------------------------------------------------------
(* What the threads know of each other. *)

\* A mutex is taken and released where its holder moves.
LEMMA MutexNext == IInv /\ [Next]_vars => MutexHeld'
<1> SUFFICES ASSUME IInv, [Next]_vars PROVE MutexHeld'
  OBVIOUS
<1> USE DEF IInv, MutexHeld, flags, device, threads, control, history,
     exits
<1>1. CASE UNCHANGED <<mutex, mainPc, ioPc>>
  BY <1>1
<1>2. CASE CheckLoop
  BY <1>2 DEF CheckLoop
<1>3. CASE PollCaptureBus
  BY <1>3 DEF PollCaptureBus
<1>4. CASE PollOutputBus
  BY <1>4 DEF PollOutputBus
<1>5. CASE ReadFailed
  BY <1>5 DEF ReadFailed
<1>6. CASE ReadActive
  BY <1>6 DEF ReadActive
<1>7. CASE CaptureJoined
  BY <1>7 DEF CaptureJoined
<1>8. CASE PollEnds
  BY <1>8 DEF PollEnds
<1>9. CASE BeginStop
  BY <1>9 DEF BeginStop
<1>10. CASE StopOutput
  BY <1>10 DEF StopOutput
<1>11. CASE Exit
  BY <1>11 DEF Exit
<1>12. CASE BeginRebuild
  BY <1>12 DEF BeginRebuild
<1>13. CASE Rebuilt
  BY <1>13 DEF Rebuilt
<1>14. CASE RebuildKept
  BY <1>14 DEF RebuildKept
<1>15. CASE RebuildFails
  BY <1>15 DEF RebuildFails
<1> QED
  BY <1>1, <1>2, <1>3, <1>4, <1>5, <1>6, <1>7, <1>8, <1>9, <1>10, <1>11, <1>12,
     <1>13, <1>14, <1>15
     DEF Next, Threads, Main, IoReturns, vars, DeviceDies, OutputDies, StreamEnds,
         CopyFails, CaptureEnds, CaptureLeaves, ScreensaverLeaves,
         OutputRejects, FeederEnds

\* Main goes down once, and what it closes for it stays closed.
LEMMA TeardownNext == IInv /\ [Next]_vars => Teardown'
<1> SUFFICES ASSUME IInv, [Next]_vars PROVE Teardown'
  OBVIOUS
<1> USE DEF IInv, MutexHeld, Teardown, Producers, flags, device, threads, control,
     history, exits
<1>1. CASE UNCHANGED <<stopping, closed, mainPc, captureState, stopRequested, exitCode>>
  BY <1>1
<1>2. CASE CheckLoop
  BY <1>2 DEF CheckLoop
<1>3. CASE PollCaptureBus
  BY <1>3 DEF PollCaptureBus
<1>4. CASE PollOutputBus
  BY <1>4 DEF PollOutputBus
<1>5. CASE ReadFailed
  BY <1>5 DEF ReadFailed
<1>6. CASE ReadActive
  BY <1>6 DEF ReadActive
<1>7. CASE CaptureJoined
  BY <1>7 DEF CaptureJoined
<1>8. CASE PollEnds
  BY <1>8 DEF PollEnds
<1>9. CASE BeginStop
  BY <1>9 DEF BeginStop
<1>10. CASE StopOutput
  BY <1>10 DEF StopOutput
<1>11. CASE Exit
  BY <1>11 DEF Exit
<1> QED
  BY <1>1, <1>2, <1>3, <1>4, <1>5, <1>6, <1>7, <1>8, <1>9, <1>10, <1>11
     DEF Next, Threads, Main, IoReturns, vars, DeviceDies, OutputDies, StreamEnds,
         CopyFails, CaptureEnds, CaptureLeaves, ScreensaverLeaves, OutputRejects, FeederEnds,
         BeginRebuild, Rebuilt, RebuildKept, RebuildFails

\* The no-signal screen starts when the capture threads are joined, and no capture
\* thread starts again.
LEMMA ProducersNext == IInv /\ [Next]_vars => Producers'
<1> SUFFICES ASSUME IInv, [Next]_vars PROVE Producers'
  OBVIOUS
<1> USE DEF IInv, Teardown, Producers, NoThreads, flags, device, threads,
     control, history, exits
<1>1. CASE UNCHANGED <<captureState, mainPc, threadPc, screensaver>>
  BY <1>1
<1>2. ASSUME NEW s \in Streams, CopyFails(s) PROVE Producers'
  BY <1>2 DEF CopyFails
<1>3. ASSUME NEW s \in Streams, CaptureEnds(s) PROVE Producers'
  BY <1>3 DEF CaptureEnds
<1>4. ASSUME NEW s \in Streams, CaptureLeaves(s) PROVE Producers'
  BY <1>4 DEF CaptureLeaves
<1>5. CASE ScreensaverLeaves
  BY <1>5 DEF ScreensaverLeaves
<1>6. CASE CheckLoop
  BY <1>6 DEF CheckLoop
<1>7. CASE PollCaptureBus
  BY <1>7 DEF PollCaptureBus
<1>8. CASE PollOutputBus
  BY <1>8 DEF PollOutputBus
<1>9. CASE ReadFailed
  BY <1>9 DEF ReadFailed
<1>10. CASE ReadActive
  BY <1>10 DEF ReadActive
<1>11. CASE CaptureJoined
  BY <1>11 DEF CaptureJoined, Joined
<1>12. CASE PollEnds
  BY <1>12 DEF PollEnds
<1>13. CASE BeginStop
  BY <1>13 DEF BeginStop
<1>14. CASE StopOutput
  BY <1>14 DEF StopOutput
<1>15. CASE Exit
  BY <1>15 DEF Exit
<1> QED
  BY <1>1, <1>2, <1>3, <1>4, <1>5, <1>6, <1>7, <1>8, <1>9, <1>10, <1>11, <1>12,
     <1>13, <1>14, <1>15
     DEF Next, Threads, Main, IoReturns, vars, DeviceDies, OutputDies, StreamEnds,
         OutputRejects, FeederEnds, BeginRebuild, Rebuilt, RebuildKept, RebuildFails

\* A device may die at any step of Poll; only main moves its error from the bus to
\* the flag and reads the flag.
LEMMA ErrorNext == IInv /\ [Next]_vars => ErrorKept'
<1> SUFFICES ASSUME IInv, [Next]_vars PROVE ErrorKept'
  OBVIOUS
<1> USE DEF IInv, Teardown, Producers, ErrorKept, ErrorSeen, flags, device, threads,
     control, history, exits
<1>1. CASE UNCHANGED <<died, late, captureState, stopRequested, bus, captureFailed,
                       mainPc, stopping>>
  BY <1>1
<1>2. CASE DeviceDies
  BY <1>2 DEF DeviceDies, CaptureUp
<1>3. ASSUME NEW s \in Streams, StreamEnds(s) PROVE ErrorKept'
  BY <1>3 DEF StreamEnds
<1>4. ASSUME NEW s \in Streams, CopyFails(s) PROVE ErrorKept'
  BY <1>4 DEF CopyFails
<1>5. CASE CheckLoop
  BY <1>5 DEF CheckLoop
<1>6. CASE PollCaptureBus
  BY <1>6 DEF PollCaptureBus, Health
<1>7. CASE PollOutputBus
  BY <1>7 DEF PollOutputBus
<1>8. CASE ReadFailed
  BY <1>8 DEF ReadFailed
<1>9. CASE ReadActive
  BY <1>9 DEF ReadActive, CaptureLost
<1>10. CASE CaptureJoined
  BY <1>10 DEF CaptureJoined
<1>11. CASE PollEnds
  BY <1>11 DEF PollEnds
<1>12. CASE BeginStop
  BY <1>12 DEF BeginStop
<1>13. CASE StopOutput
  BY <1>13 DEF StopOutput
<1>14. CASE Exit
  BY <1>14 DEF Exit
<1> QED
  BY <1>1, <1>2, <1>3, <1>4, <1>5, <1>6, <1>7, <1>8, <1>9, <1>10, <1>11, <1>12,
     <1>13, <1>14
     DEF Next, Threads, Main, IoReturns, vars, OutputDies, CaptureEnds,
         CaptureLeaves, ScreensaverLeaves, OutputRejects, FeederEnds, BeginRebuild,
         Rebuilt, RebuildKept, RebuildFails

\* A flag is raised with its cause, and causes are never forgotten.
LEMMA CausesNext == IInv /\ [Next]_vars => Causes'
<1> SUFFICES ASSUME IInv, [Next]_vars PROVE Causes'
  OBVIOUS
<1> USE DEF IInv, Teardown, Causes, flags, device, threads, control, history,
     exits
<1>1. CASE UNCHANGED <<bus, died, captureFailed, outputFailed, outputDead, alarms, closed>>
  BY <1>1
<1>2. CASE DeviceDies
  BY <1>2 DEF DeviceDies
<1>3. CASE OutputDies
  BY <1>3 DEF OutputDies
<1>4. ASSUME NEW s \in Streams, StreamEnds(s) PROVE Causes'
  BY <1>4 DEF StreamEnds
<1>5. ASSUME NEW s \in Streams, CopyFails(s) PROVE Causes'
  BY <1>5 DEF CopyFails
<1>6. CASE PollCaptureBus
  BY <1>6 DEF PollCaptureBus, Health
<1>7. CASE PollOutputBus
  BY <1>7 DEF PollOutputBus
<1>8. CASE CaptureJoined
  BY <1>8 DEF CaptureJoined
<1>9. CASE BeginStop
  BY <1>9 DEF BeginStop
<1>10. CASE Rebuilt
  BY <1>10 DEF Rebuilt
<1>11. CASE RebuildFails
  BY <1>11 DEF RebuildFails
<1>12. CASE OutputRejects
  BY <1>12 DEF OutputRejects
<1>13. CASE FeederEnds
  BY <1>13 DEF FeederEnds
<1>14. CASE StopOutput
  BY <1>14 DEF StopOutput
<1> QED
  BY <1>1, <1>2, <1>3, <1>4, <1>5, <1>6, <1>7, <1>8, <1>9, <1>10, <1>11, <1>12,
     <1>13, <1>14
     DEF Next, Threads, Main, IoReturns, vars, CaptureEnds, CaptureLeaves,
         ScreensaverLeaves, CheckLoop, ReadFailed, ReadActive, PollEnds, Exit,
         BeginRebuild, RebuildKept

\* Only CheckLoop writes a verdict; from there on every change of a flag is written down.
LEMMA ReckonedNext == IInv /\ [Next]_vars => Reckoned'
<1> SUFFICES ASSUME IInv, [Next]_vars PROVE Reckoned'
  OBVIOUS
<1> USE DEF IInv, Teardown, Reckoned, LeftLoop, Since, flags, device, threads,
     control, history, exits
<1>1. CASE UNCHANGED <<mainPc, stopping, captureFailed, outputFailed, exits>>
  BY <1>1
<1>2. ASSUME NEW s \in Streams, CopyFails(s) PROVE Reckoned'
  BY <1>2 DEF CopyFails
<1>3. CASE OutputRejects
  BY <1>3 DEF OutputRejects
<1>4. CASE CheckLoop
  BY <1>4 DEF CheckLoop, UpFlags
<1>5. CASE PollCaptureBus
  BY <1>5 DEF PollCaptureBus, Health
<1>6. CASE PollOutputBus
  BY <1>6 DEF PollOutputBus
<1>7. CASE ReadFailed
  BY <1>7 DEF ReadFailed
<1>8. CASE ReadActive
  BY <1>8 DEF ReadActive
<1>9. CASE CaptureJoined
  BY <1>9 DEF CaptureJoined
<1>10. CASE PollEnds
  BY <1>10 DEF PollEnds
<1>11. CASE BeginStop
  BY <1>11 DEF BeginStop
<1>12. CASE StopOutput
  BY <1>12 DEF StopOutput
<1>13. CASE Exit
  BY <1>13 DEF Exit
<1>14. CASE Rebuilt
  BY <1>14 DEF Rebuilt
<1>15. CASE RebuildFails
  BY <1>15 DEF RebuildFails
<1> QED
  BY <1>1, <1>2, <1>3, <1>4, <1>5, <1>6, <1>7, <1>8, <1>9, <1>10, <1>11, <1>12,
     <1>13, <1>14, <1>15
     DEF Next, Threads, Main, IoReturns, vars, DeviceDies, OutputDies, StreamEnds,
         CaptureEnds, CaptureLeaves, ScreensaverLeaves, FeederEnds, BeginRebuild,
         RebuildKept

\* Poll decides by the flag it has read, and a decision is kept.
LEMMA FatalNext == IInv /\ [Next]_vars => SeenErrorIsFatal'
<1> SUFFICES ASSUME IInv, [Next]_vars PROVE SeenErrorIsFatal'
  OBVIOUS
<1> USE DEF IInv, Teardown, Producers, ErrorKept, ErrorSeen, SeenErrorIsFatal, flags,
     device, threads, control, history, exits
<1>1. CASE UNCHANGED <<captureState, died, late>>
  BY <1>1
<1>2. CASE DeviceDies
  BY <1>2 DEF DeviceDies, CaptureUp
<1>3. CASE CaptureJoined
  BY <1>3 DEF CaptureJoined
<1>4. CASE PollEnds
  BY <1>4 DEF PollEnds
<1> QED
  BY <1>1, <1>2, <1>3, <1>4
     DEF Next, Threads, Main, IoReturns, vars, OutputDies, StreamEnds, CopyFails,
         CaptureEnds, CaptureLeaves, ScreensaverLeaves, OutputRejects, FeederEnds,
         CheckLoop, PollCaptureBus, PollOutputBus, ReadFailed, ReadActive, BeginStop,
         StopOutput, Exit, BeginRebuild, Rebuilt, RebuildKept, RebuildFails

\* The exit code is read off the flags, and what it was read off stays written down.
LEMMA HonestNext == IInv /\ [Next]_vars => ExitIsHonest'
<1> SUFFICES ASSUME IInv, [Next]_vars PROVE ExitIsHonest'
  OBVIOUS
<1> USE DEF IInv, Teardown, Causes, Reckoned, LeftLoop, Since, ExitIsHonest,
     flags, device, threads, control, history, exits
<1>1. CASE UNCHANGED <<died, alarms, exitCode, exits>>
  BY <1>1
<1>2. CASE DeviceDies
  BY <1>2 DEF DeviceDies
<1>3. CASE OutputDies
  BY <1>3 DEF OutputDies
<1>4. ASSUME NEW s \in Streams, CopyFails(s) PROVE ExitIsHonest'
  BY <1>4 DEF CopyFails
<1>5. CASE OutputRejects
  BY <1>5 DEF OutputRejects
<1>6. CASE CheckLoop
  BY <1>6 DEF CheckLoop
<1>7. CASE Exit
  BY <1>7 DEF Exit, ExitCode, Failed
<1>8. CASE Rebuilt
  BY <1>8 DEF Rebuilt
<1>9. CASE RebuildFails
  BY <1>9 DEF RebuildFails
<1> QED
  BY <1>1, <1>2, <1>3, <1>4, <1>5, <1>6, <1>7, <1>8, <1>9
     DEF Next, Threads, Main, IoReturns, vars, StreamEnds, CaptureEnds, CaptureLeaves,
         ScreensaverLeaves, FeederEnds, PollCaptureBus, PollOutputBus, ReadFailed,
         ReadActive, CaptureJoined, PollEnds, BeginStop, StopOutput, BeginRebuild,
         RebuildKept

-----------------------------------------------------------------------------
(* The theorems. *)

\* The process starts with a running capture, an idle hook and nothing lost.
LEMMA InvariantInit == Init => IInv
  BY LifecycleAssumption
     DEF Init, IInv, TypeOK, MainTypes, FlagTypes, ThreadTypes, HistoryTypes, ExitIsLast,
         MutexHeld, Teardown, Producers, NoThreads, ErrorKept, ErrorSeen, Causes,
         Reckoned, LeftLoop, SeenErrorIsFatal, ExitIsHonest

\* What main, the capture threads, the screensaver and the hook know of each other holds
\* throughout (Poll, Stop, RunCapture, RunScreensaver, SetSubtitleFile).
THEOREM Invariance == Spec => []IInv
<1>1. IInv /\ [Next]_vars => IInv'
  BY TypeNext, MutexNext, TeardownNext, ProducersNext, ErrorNext, CausesNext,
     ReckonedNext, FatalNext, HonestNext
     DEF IInv
<1> QED
  BY InvariantInit, <1>1, PTL DEF Spec

\* Every variable keeps its type, and the process returns its exit code only when
\* StopCapturePipeline has joined every thread.
THEOREM TypeCorrect == Spec => []TypeOK
<1>1. IInv => TypeOK
  BY DEF IInv
<1> QED
  BY <1>1, Invariance, PTL

\* RunScreensaver never pushes beside RunCapture or RunAudioCapture, for any number of
\* streams.
THEOREM ProducerSound == Spec => []OneProducer
<1>1. IInv => OneProducer
  BY DEF IInv, Producers, NoThreads, OneProducer
<1> QED
  BY <1>1, Invariance, PTL

\* Poll never falls back to the no-signal screen over a device whose error was on the bus
\* when it drained it.
THEOREM FallbackSound == Spec => []SeenErrorIsFatal
<1>1. IInv => SeenErrorIsFatal
  BY DEF IInv
<1> QED
  BY <1>1, Invariance, PTL

\* For any number of streams, the exit code of main tells what its loop ended for and
\* what was flagged since: a stop alone is a success, a failure is reported unless the
\* rebuild of a hook has replaced the output since.
THEOREM ExitSound == Spec => []ExitIsHonest
<1>1. IInv => ExitIsHonest
  BY DEF IInv
<1> QED
  BY <1>1, Invariance, PTL

=============================================================================
