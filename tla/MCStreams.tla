----------------------------- MODULE MCStreams ------------------------------
(***************************************************************************)
(* The parts that move frames and run threads, for TLC: streaming through  *)
(* qvcam, the completion threads of qvio's poll mode and the daemon of     *)
(* 03_qvio-ctl.  A behaviour is that of one part, the others rest.         *)
(***************************************************************************)
EXTENDS Naturals, Sequences

CONSTANTS
  Output, Captures, MaxFrames, MaxSignals, \* of the streams
  Engines, ThreadCnt,                      \* of the threads
  MaxCalls, MaxInterrupts, MaxAnnounced    \* of the daemon

VARIABLES
  part, \* which one it is
  where, streaming, op, todo, list, thread, hand, lost, frame, togo, current,
  content, shown, frames, signals,
  admin, whom, work_list, work_cnt, cmplthp, schedule, stopping, at, item,
  transfers, submitter,
  stage, asking, calls, interrupts, job_list, done_list, loop, mTaskQ,
  mTaskEvent, worker, task, added, ran, mapped, bVidSrcDone, source,
  oSrcMbuffers, oSrcBufferQ

\* The program has two buffers of the output, both needed to start, and one of
\* each capture.
Buffers == [d \in {Output} \cup Captures |-> IF d = Output THEN {1, 2} ELSE {1}]
MinBuffers == [d \in {Output} \cup Captures |-> IF d = Output THEN 2 ELSE 1]

Cam == INSTANCE CamStreamProofs \* CamStream with its theorems
Threads == INSTANCE XdmaThread
Daemon == INSTANCE QvioDaemon

ASSUME ConstantsFit ==
  /\ Cam!DevicesDiffer /\ Cam!BoundsFit /\ Cam!BuffersEnough
  /\ Threads!SomeThreads /\ Daemon!BoundsFit

ofCam == <<where, streaming, op, todo, list, thread, hand, lost, frame, togo,
           current, content, shown, frames, signals>>
ofThreads == <<admin, whom, work_list, work_cnt, cmplthp, schedule, stopping, at,
               item, transfers, submitter>>
ofDaemon == <<stage, asking, calls, interrupts, job_list, done_list, loop,
              mTaskQ, mTaskEvent, worker, task, added, ran, mapped, bVidSrcDone,
              source, oSrcMbuffers, oSrcBufferQ>>
vars == <<part, ofCam, ofThreads, ofDaemon>>

Init ==
  /\ part \in {"cam", "threads", "daemon"}
  /\ Cam!Init /\ Threads!Init /\ Daemon!Init

Next ==
  /\ UNCHANGED part
  /\ \/ part = "cam" /\ Cam!Next /\ UNCHANGED <<ofThreads, ofDaemon>>
     \/ part = "threads" /\ Threads!Next /\ UNCHANGED <<ofCam, ofDaemon>>
     \/ part = "daemon" /\ Daemon!Next /\ UNCHANGED <<ofCam, ofThreads>>

Spec == Init /\ [][Next]_vars
FairSpec == Spec /\ Cam!Fairness

-----------------------------------------------------------------------------
(* Properties, each stated where the part is modelled.                     *)

\* Every variable of every part keeps its type.
TypeOK == Cam!TypeOK /\ Threads!TypeOK /\ Daemon!TypeOK

\* qvcam has each buffer it was given in one place.
Accounted == Cam!Accounted

\* After STREAMOFF no thread runs and no buffer is with the driver.
QuietAfterStop == Cam!QuietAfterStop

\* No capture goes back to an older frame of the output.
FramesInOrder == Cam!FramesInOrder

\* A buffer on the list of a device is filled or given back.
BuffersServed == Cam!BuffersServed

\* STREAMOFF returns, whatever the other devices do.
StopReturns == Cam!StopReturns

\* A completion thread does not sleep through a transfer it was woken for.
NobodySleepsOn == Threads!NobodySleepsOn

\* Deferred tasks run in order, each once, all of them before Stop returns.
TasksOnce == Daemon!TasksOnce

\* Each deferred task finds what the task before it must leave.
TasksFit == Daemon!TasksFit
=============================================================================
