----------------------------- MODULE QvioDaemon -----------------------------
(***************************************************************************)
(* The daemon of 03_qvio-ctl: its main thread answers the jobs of the      *)
(* channel and leaves to a deferred-task thread what must not be done      *)
(* while the caller waits; a source thread takes frames from a camera.     *)
(*                                                                         *)
(* The jobs are all those of user_job.c, posted in the order of the V4L2   *)
(* operations they are named for.  At this commit the driver posts S_FMT   *)
(* only; the operations that post the others have no caller yet.  One      *)
(* buffer stands for those of the caller, and of the camera's buffers it   *)
(* only matters how many are announced.                                    *)
(***************************************************************************)
EXTENDS Naturals, Sequences

CONSTANTS
  MaxCalls,      \* bound: jobs that are posted
  MaxInterrupts, \* bound: waits for an answer that are interrupted
  MaxAnnounced   \* bound: the camera's buffers announced at a time

\* Assumed of the constants.
BoundsFit == MaxCalls \in Nat /\ MaxInterrupts \in Nat /\ MaxAnnounced \in Nat

VARIABLES
  stage,       \* how far the application is with its queue
  asking,      \* the job its call waits for, "none" if there is no call
  calls,       \* counted for the bound
  interrupts,  \* history: waits that were interrupted
  job_list, done_list, \* of the channel; an answer is not told from another
  loop,        \* where the main thread is
  mTaskQ, mTaskEvent,
  worker,      \* where the task thread is
  task,        \* what it runs
  added, ran,  \* history: tasks added, and the last that ran
  mapped,      \* the caller's buffer: "no", "yes", or its map has "failed"
  bVidSrcDone,
  source,      \* where the source thread is; "none": there is no such thread
  oSrcMbuffers, \* the source thread has the camera's buffers
  oSrcBufferQ   \* how many of them are announced

tasks == <<mTaskQ, mTaskEvent, worker, task, added, ran>>
app == <<stage, asking, calls, interrupts>>
src == <<source, oSrcMbuffers, oSrcBufferQ>>
vars == <<app, job_list, done_list, loop, tasks, mapped, bVidSrcDone, src>>

NoTask == [n |-> 0, what |-> "none"]

Init ==
  /\ stage = "closed" /\ asking = "none" /\ calls = 0 /\ interrupts = 0
  /\ job_list = << >> /\ done_list = 0
  /\ loop = "select"
  /\ mTaskQ = << >> /\ mTaskEvent = 0
  /\ worker = "select" /\ task = NoTask /\ added = 0 /\ ran = 0
  /\ mapped = "no" /\ bVidSrcDone = FALSE
  /\ source = "none" /\ oSrcMbuffers = FALSE /\ oSrcBufferQ = 0

-----------------------------------------------------------------------------
(* The application, inside a call of the driver.                           *)

\* The jobs a call may post, and where the queue is when it is answered.
Calls == [closed |-> {<<"S_FMT", "closed">>, <<"QUEUE_SETUP", "setup">>},
          setup |-> {<<"BUF_INIT", "ready">>},
          ready |-> {<<"START_STREAMING", "streaming">>,
                     <<"BUF_CLEANUP", "closed">>},
          streaming |-> {<<"BUF_DONE", "streaming">>,
                         <<"STOP_STREAMING", "ready">>}]
Call ==
  /\ asking = "none" /\ calls < MaxCalls /\ calls' = calls + 1
  /\ \E c \in Calls[stage] :
       asking' = c[1] /\ job_list' = Append(job_list, c[1])
  /\ UNCHANGED <<stage, interrupts, done_list, loop, tasks, mapped,
                 bVidSrcDone, src>>

\* The wait finds an answer and takes the first, whoever's it is.
Answered ==
  /\ asking # "none" /\ done_list > 0 /\ done_list' = done_list - 1
  /\ asking' = "none"
  /\ \E c \in Calls[stage] : c[1] = asking /\ stage' = c[2]
  /\ UNCHANGED <<calls, interrupts, job_list, loop, tasks, mapped,
                 bVidSrcDone, src>>

\* A signal ends the wait, the job stays where it is.  The operation fails, or
\* counts as done where nothing looks at its result.
Interrupted ==
  /\ asking # "none" /\ done_list = 0 /\ asking' = "none"
  /\ interrupts < MaxInterrupts /\ interrupts' = interrupts + 1
  /\ \E c \in Calls[stage] : c[1] = asking /\ stage' \in {stage, c[2]}
  /\ UNCHANGED <<calls, job_list, done_list, loop, tasks, mapped, bVidSrcDone,
                 src>>

-----------------------------------------------------------------------------
(* VidUserJobHandling, the main thread.                                    *)

\* AddTask: the task, and a token for it.
AddTask(what) ==
  /\ mTaskQ' = Append(mTaskQ, [n |-> added + 1, what |-> what])
  /\ mTaskEvent' = mTaskEvent + 1 /\ added' = added + 1
  /\ UNCHANGED <<worker, task, ran>>

Deferred == [BUF_INIT |-> "map", BUF_CLEANUP |-> "unmap",
             START_STREAMING |-> "start", STOP_STREAMING |-> "join"]

\* GET takes the first job, which is handled.
Handle ==
  /\ loop = "select" /\ job_list # << >> /\ Head(job_list) # "BUF_DONE"
  /\ LET job == Head(job_list) IN
     /\ IF job \in DOMAIN Deferred THEN AddTask(Deferred[job])
        ELSE UNCHANGED tasks
     /\ bVidSrcDone' = (bVidSrcDone \/ job = "STOP_STREAMING")
  /\ job_list' = Tail(job_list) /\ loop' = "done"
  /\ UNCHANGED <<app, done_list, mapped, src>>

\* VidUserJob_BUF_DONE takes the announced buffer, if there is one,
VidUserJob_BUF_DONE ==
  /\ loop = "select" /\ job_list # << >> /\ Head(job_list) = "BUF_DONE"
  /\ job_list' = Tail(job_list)
  /\ \/ oSrcBufferQ > 0 /\ oSrcBufferQ' = oSrcBufferQ - 1 /\ loop' = "taken"
     \/ oSrcBufferQ = 0 /\ loop' = "done" /\ UNCHANGED oSrcBufferQ
  /\ UNCHANGED <<app, done_list, tasks, mapped, bVidSrcDone, source,
                 oSrcMbuffers>>
\* and copies from it if the source thread still has its buffers.
Copy ==
  /\ loop = "taken" /\ loop' = IF oSrcMbuffers THEN "copy" ELSE "done"
  /\ UNCHANGED <<app, job_list, done_list, tasks, mapped, bVidSrcDone, src>>
Copied ==
  /\ loop = "copy" /\ loop' = "done"
  /\ UNCHANGED <<app, job_list, done_list, tasks, mapped, bVidSrcDone, src>>

\* DONE answers, or fails and ends the loop.
Done ==
  /\ loop = "done"
  /\ \/ loop' = "select" /\ done_list' = done_list + 1
     \/ loop' = "quit" /\ UNCHANGED done_list
  /\ UNCHANGED <<app, job_list, tasks, mapped, bVidSrcDone, src>>
\* A GET that cannot hand out the job has freed it; the loop ends.
GetFails ==
  /\ loop = "select" /\ job_list # << >> /\ job_list' = Tail(job_list)
  /\ loop' = "quit"
  /\ UNCHANGED <<app, done_list, tasks, mapped, bVidSrcDone, src>>

\* The end of the loop, also for q on stdin: Stop writes a token of its own and
\* waits for the thread.
Stop ==
  /\ loop \in {"select", "quit"} /\ loop' = "stop"
  /\ mTaskEvent' = mTaskEvent + 1
  /\ UNCHANGED <<app, job_list, done_list, mTaskQ, worker, task, added, ran,
                 mapped, bVidSrcDone, src>>
Joined ==
  /\ loop = "stop" /\ worker = "ended" /\ loop' = "ended"
  /\ UNCHANGED <<app, job_list, done_list, tasks, mapped, bVidSrcDone, src>>

-----------------------------------------------------------------------------
(* ZzDeferredTasks::Main.                                                  *)

\* The event is a semaphore: a read takes one token.
AllTokens == 0 \* a mutated form: without EFD_SEMAPHORE
OneLess == mTaskEvent - 1
Main ==
  /\ worker = "select" /\ mTaskEvent > 0
  /\ mTaskEvent' = OneLess /\ worker' = "pop"
  /\ UNCHANGED <<app, job_list, done_list, loop, mTaskQ, task, added, ran,
                 mapped, bVidSrcDone, src>>
\* The task at the front; the mutated form takes the one at the back.
Newest == [task |-> mTaskQ[Len(mTaskQ)],
           others |-> SubSeq(mTaskQ, 1, Len(mTaskQ) - 1)]
Oldest == [task |-> Head(mTaskQ), others |-> Tail(mTaskQ)]
\* A token without a task is that of Stop.
Pop ==
  /\ worker = "pop"
  /\ IF mTaskQ = << >> THEN worker' = "ended" /\ UNCHANGED <<mTaskQ, task>>
     ELSE /\ worker' = "run"
          /\ task' = Oldest.task /\ mTaskQ' = Oldest.others
  /\ UNCHANGED <<app, job_list, done_list, loop, mTaskEvent, added, ran,
                 mapped, bVidSrcDone, src>>

\* A second thread over a joinable one, or a join without one, ends the program
\* (std::terminate).
Misplaced ==
  \/ task.what = "start" /\ source # "none"
  \/ task.what = "join" /\ source = "none"
Terminated ==
  /\ worker = "run" /\ Misplaced
  /\ worker' = "dead" /\ loop' = "dead" /\ source' = "dead"
  /\ UNCHANGED <<app, job_list, done_list, mTaskQ, mTaskEvent, task, added,
                 ran, mapped, bVidSrcDone, oSrcMbuffers, oSrcBufferQ>>

\* The tasks.  A map fails without a buffer to query or memory to map; an unmap
\* goes by what is mapped; join waits for the end of the source thread.
Mapping == CASE task.what = "map" -> {"yes", "failed"}
             [] task.what = "unmap" -> {"no"}
             [] OTHER -> {mapped}
Run ==
  /\ worker = "run" /\ ~Misplaced
  /\ worker' = "select" /\ ran' = task.n /\ task' = NoTask
  /\ task.what = "join" => source = "ended"
  /\ mapped' \in Mapping
  /\ bVidSrcDone' = (bVidSrcDone /\ task.what # "start")
  /\ source' = CASE task.what = "start" -> "open"
                 [] task.what = "join" -> "none"
                 [] OTHER -> source
  /\ UNCHANGED <<app, job_list, done_list, loop, mTaskQ, mTaskEvent, added,
                 oSrcMbuffers, oSrcBufferQ>>

-----------------------------------------------------------------------------
(* VidSrc_Main, the source thread.                                         *)

unrelated == <<app, job_list, done_list, loop, tasks, mapped, bVidSrcDone>>

Step(from, to) == source = from /\ source' = to
\* A step that fails and the end of the loop release what the thread has, last
\* its buffers (_FreeStack.Flush).
Ended(from) == Step(from, "ended") /\ oSrcMbuffers' = FALSE

\* The camera's buffers are requested,
OpenSource ==
  /\ \/ Step("open", "buffers") /\ oSrcMbuffers' = TRUE
     \/ Step("open", "ended") /\ UNCHANGED oSrcMbuffers
  /\ UNCHANGED <<unrelated, oSrcBufferQ>>
\* mapped and queued, and it streams.  A failed mmap returns without the Flush.
StartSource ==
  /\ \/ Step("buffers", "loop") /\ UNCHANGED oSrcMbuffers
     \/ Ended("buffers")
     \/ Step("buffers", "ended") /\ UNCHANGED oSrcMbuffers
  /\ UNCHANGED <<unrelated, oSrcBufferQ>>
\* It ends when it is told to,
LoopSource ==
  /\ \/ ~bVidSrcDone /\ Step("loop", "select") /\ UNCHANGED oSrcMbuffers
     \/ bVidSrcDone /\ Ended("loop")
  /\ UNCHANGED <<unrelated, oSrcBufferQ>>
\* or when no frame comes for half a second, or a call fails; a frame that
\* comes is announced.
DequeueSource ==
  /\ \/ /\ Step("select", "announce") /\ UNCHANGED oSrcMbuffers
        /\ oSrcBufferQ < MaxAnnounced /\ oSrcBufferQ' = oSrcBufferQ + 1
     \/ Ended("select") /\ UNCHANGED oSrcBufferQ
  /\ UNCHANGED unrelated
\* QVID_IOC_BUF_DONE: the driver moves a frame by a DMA that it waits for, and
\* posts no job.
AnnounceSource ==
  /\ \/ Step("announce", "requeue") /\ UNCHANGED oSrcMbuffers
     \/ Ended("announce")
  /\ UNCHANGED <<unrelated, oSrcBufferQ>>
\* The buffer goes back to the camera.
RequeueSource ==
  /\ \/ Step("requeue", "loop") /\ UNCHANGED oSrcMbuffers
     \/ Ended("requeue")
  /\ UNCHANGED <<unrelated, oSrcBufferQ>>

Next ==
  \/ Call \/ Answered \/ Interrupted
  \/ Handle \/ VidUserJob_BUF_DONE \/ Copy \/ Copied \/ Done \/ GetFails
  \/ Stop \/ Joined
  \/ Main \/ Pop \/ Run \/ Terminated
  \/ OpenSource \/ StartSource \/ LoopSource \/ DequeueSource \/ AnnounceSource
  \/ RequeueSource

Spec == Init /\ [][Next]_vars

-----------------------------------------------------------------------------
(* Properties.                                                             *)

TypeOK ==
  /\ stage \in DOMAIN Calls /\ calls \in 0 .. MaxCalls
  /\ asking = "none" \/ \E c \in Calls[stage] : c[1] = asking
  /\ loop \in {"select", "taken", "copy", "done", "quit", "stop", "ended",
               "dead"}
  /\ worker \in {"select", "pop", "run", "ended", "dead"}
  /\ mapped \in {"no", "yes", "failed"}
  /\ source \in {"none", "open", "buffers", "loop", "select", "announce",
                 "requeue", "ended", "dead"}
  /\ oSrcBufferQ \in 0 .. MaxAnnounced

\* Tasks run one after the other in the order they were added; as long as one
\* waits there is a token for it, and when Stop has joined the thread none
\* does.
TasksOnce ==
  LET taken == IF worker \in {"run", "dead"} THEN <<task>> ELSE << >>
      waiting == taken \o mTaskQ IN
  /\ \A i \in DOMAIN waiting : waiting[i].n = ran + i
  /\ ran + Len(waiting) = added
  /\ mTaskEvent + (IF worker = "pop" THEN 1 ELSE 0) >= Len(mTaskQ)
  /\ loop = "ended" => ran = added

\* Tasks run long after the calls that caused them were answered, and still
\* each finds what the one before it must leave: an unmapped buffer to map, a
\* buffer whose map was tried to unmap, a thread to join, no thread to start
\* one; and the source thread never runs beside a buffer nobody tried to map.
\* Until a wait is interrupted: then a call may be repeated, or skipped.
TasksFit ==
  interrupts = 0 =>
    /\ worker = "run" =>
         /\ task.what = "join" <=> source # "none"
         /\ task.what = "map" <=> mapped = "no"
    /\ source # "none" => mapped # "no"
=============================================================================
