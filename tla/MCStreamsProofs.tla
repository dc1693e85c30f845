-------------------------- MODULE MCStreamsProofs ---------------------------
(***************************************************************************)
(* What the runs of MCStreams check of small instances, for every value of *)
(* the constants: the step lemmas of the parts carry over, as the part     *)
(* that a behaviour is not of rests.                                       *)
(***************************************************************************)
EXTENDS MCStreams, ListFacts
-----------------------------------------------------------------------------
(* The daemon: its tasks and its jobs.                                     *)

Jobs == {"S_FMT", "QUEUE_SETUP", "BUF_INIT", "BUF_CLEANUP", "START_STREAMING",
         "STOP_STREAMING", "BUF_DONE"}
Tasks == [n : Nat, what : {"map", "unmap", "start", "join"}]

\* The jobs that a call of the application may post.
Offered ==
  IF stage = "closed" THEN {"S_FMT", "QUEUE_SETUP"}
  ELSE IF stage = "setup" THEN {"BUF_INIT"}
  ELSE IF stage = "ready" THEN {"START_STREAMING", "BUF_CLEANUP"}
  ELSE {"BUF_DONE", "STOP_STREAMING"}

\* The types of the variables.
Typed ==
  /\ stage \in {"closed", "setup", "ready", "streaming"}
  /\ calls \in 0 .. MaxCalls /\ interrupts \in Nat
  /\ asking = "none" \/ asking \in Offered
  /\ loop \in {"select", "taken", "copy", "done", "quit", "stop", "ended",
               "dead"}
  /\ worker \in {"select", "pop", "run", "ended", "dead"}
  /\ source \in {"none", "open", "buffers", "loop", "select", "announce",
                 "requeue", "ended", "dead"}
  /\ mapped \in {"no", "yes", "failed"}
  /\ mTaskQ \in Seq(Tasks) /\ (worker \in {"run", "dead"} => task \in Tasks)
  /\ job_list \in Seq(Jobs) /\ done_list \in Nat
  /\ oSrcBufferQ \in 0 .. MaxAnnounced
  /\ mTaskEvent \in Nat /\ added \in Nat /\ ran \in Nat

\* The last task that was taken.
Taken == IF worker \in {"run", "dead"} THEN ran + 1 ELSE ran

\* Tasks are numbered from the one that runs on.
Numbered ==
  /\ worker \in {"run", "dead"} => task.n = ran + 1
  /\ \A i \in 1 .. Len(mTaskQ) : mTaskQ[i].n = Taken + i
  /\ added = Taken + Len(mTaskQ)

\* There is a token for each task and, once Stop was called, one more, which the
\* thread takes last.
Tokens ==
  LET tokens == IF worker = "pop" THEN mTaskEvent + 1 ELSE mTaskEvent IN
  /\ loop \in {"select", "taken", "copy", "done", "quit"} =>
       worker # "ended" /\ tokens = Len(mTaskQ)
  /\ loop = "stop" /\ worker # "ended" => tokens = Len(mTaskQ) + 1
  /\ loop = "ended" => worker = "ended"
  /\ worker = "ended" => mTaskQ = << >> /\ mTaskEvent = 0
  /\ worker = "dead" => mTaskEvent >= Len(mTaskQ)
  /\ loop = "dead" <=> worker = "dead"

\* Where the caller's buffer is before and after a task, and a job.
Before(what) ==
  IF what = "map" THEN "unmapped"
  ELSE IF what = "join" THEN "streaming" ELSE "mapped"
Beyond(what) ==
  IF what = "unmap" THEN "unmapped"
  ELSE IF what = "start" THEN "streaming" ELSE "mapped"
Posted(job) ==
  IF job \in {"S_FMT", "QUEUE_SETUP", "BUF_INIT"} THEN "unmapped"
  ELSE IF job \in {"STOP_STREAMING", "BUF_DONE"} THEN "streaming" ELSE "mapped"
Leads(job) ==
  IF job \in {"S_FMT", "QUEUE_SETUP", "BUF_CLEANUP"} THEN "unmapped"
  ELSE IF job \in {"START_STREAMING", "BUF_DONE"} THEN "streaming" ELSE "mapped"

\* Where it is now, once the task that runs has ended, and once all have; a map
\* that failed counts.
Now ==
  IF source # "none" THEN "streaming"
  ELSE IF mapped # "no" THEN "mapped" ELSE "unmapped"
Soon == IF worker = "run" THEN Beyond(task.what) ELSE Now
Later == IF mTaskQ = << >> THEN Soon ELSE Beyond(mTaskQ[Len(mTaskQ)].what)
\* Where the application has it, when its call returns.
Wanted ==
  IF asking # "none" THEN Leads(asking)
  ELSE IF stage = "streaming" THEN "streaming"
  ELSE IF stage = "ready" THEN "mapped" ELSE "unmapped"

\* The tasks follow one another,
Chained ==
  /\ source # "none" => mapped # "no"
  /\ worker = "run" => Before(task.what) = Now
  /\ mTaskQ # << >> => Before(mTaskQ[1].what) = Soon
  /\ \A i \in 1 .. Len(mTaskQ) - 1 :
       Beyond(mTaskQ[i].what) = Before(mTaskQ[i + 1].what)

\* and the job follows them, to where the application is.
Led ==
  /\ job_list = << >> => Later = Wanted
  /\ job_list # << >> => Posted(job_list[1]) = Later /\ Leads(job_list[1]) = Wanted

\* Whoever waits for an answer has a job under way, or an answer that waits.
Owed ==
  Len(job_list) + done_list + (IF loop \in {"taken", "copy", "done"} THEN 1 ELSE 0)
    = (IF asking # "none" THEN 1 ELSE 0)

\* So it is until the main thread leaves its loop, or a wait is interrupted.
Serving == loop \in {"select", "taken", "copy", "done"}
Orderly == Chained /\ (Serving => Owed /\ Led)

DaemonInv == Typed /\ Numbered /\ Tokens /\ (interrupts = 0 => Orderly)

-----------------------------------------------------------------------------
(* The steps of the daemon.                                                *)

\* A job has its task, but those that leave the buffer where it is.
LEMMA Lemma_Deferred ==
  /\ DOMAIN Daemon!Deferred =
       {"BUF_INIT", "BUF_CLEANUP", "START_STREAMING", "STOP_STREAMING"}
  /\ \A job \in DOMAIN Daemon!Deferred :
       /\ Daemon!Deferred[job] \in {"map", "unmap", "start", "join"}
       /\ Before(Daemon!Deferred[job]) = Posted(job)
       /\ Beyond(Daemon!Deferred[job]) = Leads(job)
  /\ \A job \in Jobs \ DOMAIN Daemon!Deferred : Posted(job) = Leads(job)
BY DEF Daemon!Deferred, Before, Beyond, Posted, Leads, Jobs

\* Nothing is under way at first.
LEMMA Lemma_DaemonInit == Daemon!Init => DaemonInv
<1> SUFFICES ASSUME Daemon!Init PROVE DaemonInv
  OBVIOUS
<1>1. Typed
  BY ConstantsFit DEF Daemon!BoundsFit, Daemon!Init, Typed
<1>2. Numbered /\ Tokens
  BY DEF Daemon!Init, Numbered, Taken, Tokens
<1>3. Orderly
  BY DEF Daemon!Init, Orderly, Owed, Chained, Led, Now, Soon, Later, Wanted
<1> QED
  BY <1>1, <1>2, <1>3 DEF DaemonInv

\* Steps that leave the tasks alone.
LEMMA Lemma_TasksStay ==
  ASSUME Numbered, Tokens, UNCHANGED <<Daemon!tasks, loop>>
  PROVE  Numbered' /\ Tokens'
BY DEF Daemon!tasks, Numbered, Taken, Tokens

\* Steps that leave the tasks and what they change alone.
LEMMA Lemma_ChainStays ==
  ASSUME UNCHANGED <<mTaskQ, worker, task, source, mapped>>
  PROVE  Later' = Later /\ Soon' = Soon /\ Now' = Now /\ (Chained => Chained')
BY DEF Later, Soon, Now, Chained

\* What a call asks for leads on from where the application is.
LEMMA Lemma_Call ==
  ASSUME DaemonInv, Daemon!Call
  PROVE  DaemonInv'
<1>0. Typed /\ Numbered /\ Tokens /\ (interrupts = 0 => Orderly)
  BY DEF DaemonInv
<1>1. /\ asking = "none" /\ calls < MaxCalls /\ calls' = calls + 1
      /\ UNCHANGED <<stage, interrupts, done_list, loop, Daemon!tasks, mapped,
                     bVidSrcDone, Daemon!src>>
      /\ job_list' = Append(job_list, asking')
      /\ asking' \in Offered
  <2>1. stage \in {"closed", "setup", "ready", "streaming"}
    BY <1>0 DEF Typed
  <2>2. PICK c \in Daemon!Calls[stage] :
          asking' = c[1] /\ job_list' = Append(job_list, c[1])
    BY DEF Daemon!Call
  <2>3. c[1] \in Offered
    BY <2>1, <2>2 DEF Daemon!Calls, Offered
  <2> QED
    BY <2>2, <2>3 DEF Daemon!Call
<1>2. UNCHANGED <<mTaskQ, mTaskEvent, worker, task, added, ran, source,
                  oSrcMbuffers, oSrcBufferQ>>
  BY <1>1 DEF Daemon!tasks, Daemon!src
<1>3. /\ asking' # "none" /\ asking' \in Jobs
      /\ Posted(asking') = Wanted /\ Leads(asking') = Wanted'
  BY <1>0, <1>1 DEF Typed, Offered, Jobs, Posted, Leads, Wanted
<1>4. /\ Len(job_list') = Len(job_list) + 1 /\ job_list' \in Seq(Jobs)
      /\ job_list' # << >> /\ Len(job_list) \in Nat /\ done_list \in Nat
      /\ job_list = << >> => job_list'[1] = asking'
      /\ Len(job_list) = 0 => job_list = << >>
  BY <1>0, <1>1, <1>3 DEF Typed
<1>5. Typed'
  <2>1. calls' \in 0 .. MaxCalls
    BY <1>0, <1>1, ConstantsFit DEF Typed, Daemon!BoundsFit
  <2>2. Offered' = Offered
    BY <1>1 DEF Offered
  <2> QED
    BY <1>0, <1>1, <1>2, <1>4, <2>1, <2>2 DEF Typed
<1>6. Numbered' /\ Tokens'
  BY <1>0, <1>1, Lemma_TasksStay
<1>7. ASSUME interrupts' = 0 PROVE Orderly'
  <2>1. Chained /\ (Serving => Owed /\ Led)
    BY <1>0, <1>1, <1>7 DEF Orderly
  <2>2. Later' = Later /\ Chained'
    BY <1>1, <1>2, <2>1, Lemma_ChainStays
  <2>3. ASSUME Serving PROVE Owed' /\ Led'
    <3>1. job_list = << >> /\ done_list = 0 /\ loop = "select"
      BY <1>1, <1>4, <2>1, <2>3 DEF Owed, Serving
    <3> QED
      BY <1>1, <1>3, <1>4, <2>1, <2>2, <2>3, <3>1 DEF Owed, Led
  <2> QED
    BY <1>1, <2>2, <2>3 DEF Orderly, Serving
<1> QED
  BY <1>5, <1>6, <1>7 DEF DaemonInv

\* The answer puts the application where its call leads; without it nobody
\* knows where the application is.
LEMMA Lemma_Answered ==
  ASSUME DaemonInv, Daemon!Answered \/ Daemon!Interrupted
  PROVE  DaemonInv'
<1>0. Typed /\ Numbered /\ Tokens /\ (interrupts = 0 => Orderly)
  BY DEF DaemonInv
<1>1. /\ asking # "none" /\ asking' = "none"
      /\ UNCHANGED <<calls, job_list, loop, mapped, mTaskQ, mTaskEvent, worker,
                     task, added, ran, source, oSrcBufferQ, Daemon!tasks>>
  BY DEF Daemon!Answered, Daemon!Interrupted, Daemon!tasks, Daemon!src
<1>2. PICK c \in Daemon!Calls[stage] : c[1] = asking /\ stage' \in {stage, c[2]}
  BY DEF Daemon!Answered, Daemon!Interrupted
<1>3. /\ stage \in {"closed", "setup", "ready", "streaming"}
      /\ c[2] \in {"closed", "setup", "ready", "streaming"}
      /\ Leads(c[1]) = IF c[2] = "streaming" THEN "streaming"
                       ELSE IF c[2] = "ready" THEN "mapped" ELSE "unmapped"
  <2>1. stage \in {"closed", "setup", "ready", "streaming"}
    BY <1>0 DEF Typed
  <2> QED
    BY <2>1 DEF Daemon!Calls, Leads
<1>4. done_list' \in Nat /\ interrupts' \in Nat
  BY <1>0 DEF Typed, Daemon!Answered, Daemon!Interrupted
<1>5. Typed'
  BY <1>0, <1>1, <1>2, <1>3, <1>4 DEF Typed
<1>6. Numbered' /\ Tokens'
  BY <1>0, <1>1, Lemma_TasksStay
<1>7. ASSUME interrupts' = 0 PROVE Orderly'
  <2>1. /\ interrupts = 0 /\ done_list > 0 /\ done_list' = done_list - 1
        /\ \E d \in Daemon!Calls[stage] : d[1] = asking /\ stage' = d[2]
    BY <1>0, <1>7 DEF Typed, Daemon!Answered, Daemon!Interrupted
  <2>2. Chained /\ (Serving => Owed /\ Led)
    BY <1>0, <2>1 DEF Orderly
  <2>3. Later' = Later /\ Chained'
    BY <1>1, <2>2, Lemma_ChainStays
  <2>4. Wanted' = Wanted
    <3>1. PICK d \in Daemon!Calls[stage] : d[1] = asking /\ stage' = d[2]
      BY <2>1
    <3>2. Leads(d[1]) = IF d[2] = "streaming" THEN "streaming"
                        ELSE IF d[2] = "ready" THEN "mapped" ELSE "unmapped"
      BY <1>3 DEF Daemon!Calls, Leads
    <3> QED
      BY <1>1, <3>1, <3>2 DEF Wanted
  <2>5. Serving => Owed' /\ Led'
    <3>1. Len(job_list) \in Nat /\ done_list \in Nat
      BY <1>0 DEF Typed
    <3> QED
      BY <1>1, <2>1, <2>2, <2>3, <2>4, <3>1 DEF Owed, Led
  <2> QED
    BY <1>1, <2>3, <2>5 DEF Orderly, Serving
<1> QED
  BY <1>5, <1>6, <1>7 DEF DaemonInv

\* A job is handled, its task left for later.
LEMMA Lemma_Handle ==
  ASSUME DaemonInv, Daemon!Handle
  PROVE  DaemonInv'
<1> DEFINE job == Head(job_list)
           deferred == job \in DOMAIN Daemon!Deferred
<1>0. Typed /\ Numbered /\ Tokens /\ (interrupts = 0 => Orderly)
  BY DEF DaemonInv
<1>1. /\ loop = "select" /\ loop' = "done" /\ job_list # << >>
      /\ job_list' = Tail(job_list)
      /\ UNCHANGED <<stage, asking, calls, interrupts, done_list, mapped, source,
                     oSrcBufferQ, worker, task, ran>>
  BY DEF Daemon!Handle, Daemon!app, Daemon!src, Daemon!tasks, Daemon!AddTask
<1>2. /\ deferred =>
           /\ mTaskQ' = Append(mTaskQ, [n |-> added + 1, what |-> Daemon!Deferred[job]])
           /\ mTaskEvent' = mTaskEvent + 1 /\ added' = added + 1
      /\ ~deferred => UNCHANGED <<mTaskQ, mTaskEvent, added>>
  BY DEF Daemon!Handle, Daemon!AddTask, Daemon!tasks
<1>3. /\ job_list \in Seq(Jobs) /\ job \in Jobs /\ job = job_list[1]
      /\ job_list' \in Seq(Jobs) /\ Len(job_list') = Len(job_list) - 1
      /\ Len(job_list) \in Nat /\ Len(job_list) # 0
      /\ Len(job_list') = 0 => job_list' = << >>
      /\ mTaskQ \in Seq(Tasks) /\ Len(mTaskQ) \in Nat
      /\ added \in Nat /\ mTaskEvent \in Nat /\ done_list \in Nat /\ ran \in Nat
  BY <1>0, <1>1 DEF Typed
<1> HIDE DEF job, deferred
<1>orderly. ASSUME Chained', Later = Posted(job) => Later' = Leads(job),
                   interrupts' = 0
            PROVE  Orderly'
  <2>1. Owed /\ Led
    BY <1>0, <1>1, <1>orderly DEF Orderly, Serving
  <2>2. Posted(job) = Later /\ Leads(job) = Wanted
    BY <1>1, <1>3, <2>1 DEF Led
  <2>3. Len(job_list) = 1 /\ job_list' = << >> /\ done_list = 0 /\ asking # "none"
    BY <1>1, <1>3, <2>1 DEF Owed
  <2>4. Wanted' = Wanted
    BY <1>1 DEF Wanted
  <2> QED
    BY <1>1, <1>3, <1>orderly, <2>2, <2>3, <2>4 DEF Orderly, Owed, Led
<1>4. CASE deferred
  <2> DEFINE new == [n |-> added + 1, what |-> Daemon!Deferred[job]]
  <2>1. /\ new \in Tasks /\ new.n = added + 1
        /\ Before(new.what) = Posted(job) /\ Beyond(new.what) = Leads(job)
    BY <1>3, <1>4, Lemma_Deferred DEF Tasks, deferred
  <2> HIDE DEF new
  <2>2. /\ mTaskQ' \in Seq(Tasks) /\ Len(mTaskQ') = Len(mTaskQ) + 1
        /\ mTaskQ' # << >> /\ mTaskQ'[Len(mTaskQ) + 1] = new
        /\ \A i \in 1 .. Len(mTaskQ) : mTaskQ'[i] = mTaskQ[i]
    <3>1. mTaskQ' = Append(mTaskQ, new)
      BY <1>2, <1>4 DEF new
    <3> QED
      BY <1>3, <2>1, <3>1
  <2>3. Soon' = Soon /\ Now' = Now /\ Later' = Leads(job)
    BY <1>1, <2>1, <2>2 DEF Soon, Now, Later
  <2>5. Typed'
    BY <1>0, <1>1, <1>2, <1>3, <1>4, <2>2 DEF Typed, Offered
  <2>6. Numbered'
    <3>1. Taken' = Taken /\ Taken \in Nat /\ added = Taken + Len(mTaskQ)
      BY <1>0, <1>1, <1>3 DEF Numbered, Taken
    <3>2. \A i \in 1 .. Len(mTaskQ) : mTaskQ'[i].n = Taken + i
      BY <1>0, <2>2 DEF Numbered
    <3>3. ASSUME NEW i \in 1 .. Len(mTaskQ')
          PROVE  mTaskQ'[i].n = Taken + i
      <4>1. CASE i = Len(mTaskQ) + 1
        BY <2>1, <2>2, <3>1, <4>1
      <4>2. CASE i # Len(mTaskQ) + 1
        <5>1. i \in 1 .. Len(mTaskQ)
          BY <1>3, <2>2, <4>2
        <5> QED
          BY <2>2, <3>2, <5>1
      <4> QED
        BY <4>1, <4>2
    <3>4. added' = Taken + Len(mTaskQ')
      BY <1>2, <1>3, <1>4, <2>2, <3>1
    <3> QED
      BY <1>0, <1>1, <3>1, <3>3, <3>4 DEF Numbered
  <2>7. Tokens'
    BY <1>0, <1>1, <1>2, <1>3, <1>4, <2>2 DEF Tokens
  <2>8. ASSUME interrupts' = 0 PROVE Orderly'
    <3>1. Chained /\ Before(new.what) = Later
      <4>1. Chained /\ Led
        BY <1>0, <1>1, <2>8 DEF Orderly, Serving
      <4> QED
        BY <1>1, <1>3, <2>1, <4>1 DEF Led
    <3>2. /\ source' # "none" => mapped' # "no"
          /\ worker' = "run" => Before(task'.what) = Now'
      BY <1>1, <2>3, <3>1 DEF Chained
    <3>3. Before(mTaskQ'[1].what) = Soon'
      <4>1. CASE mTaskQ = << >>
        BY <1>3, <2>2, <2>3, <3>1, <4>1 DEF Later
      <4>2. CASE mTaskQ # << >>
        <5>1. mTaskQ'[1] = mTaskQ[1]
          BY <1>3, <2>2, <4>2
        <5> QED
          BY <2>3, <3>1, <4>2, <5>1 DEF Chained
      <4> QED
        BY <4>1, <4>2
    <3>4. ASSUME NEW i \in 1 .. Len(mTaskQ') - 1
          PROVE  Beyond(mTaskQ'[i].what) = Before(mTaskQ'[i + 1].what)
      <4>1. i \in 1 .. Len(mTaskQ) /\ mTaskQ'[i] = mTaskQ[i]
        BY <1>3, <2>2
      <4>2. CASE i = Len(mTaskQ)
        BY <2>2, <3>1, <4>1, <4>2 DEF Later
      <4>3. CASE i # Len(mTaskQ)
        <5>1. /\ i \in 1 .. Len(mTaskQ) - 1 /\ i + 1 \in 1 .. Len(mTaskQ)
              /\ mTaskQ'[i + 1] = mTaskQ[i + 1]
          BY <1>3, <2>2, <4>1, <4>3
        <5> QED
          BY <3>1, <4>1, <5>1 DEF Chained
      <4> QED
        BY <4>2, <4>3
    <3>5. Chained'
      BY <3>2, <3>3, <3>4 DEF Chained
    <3> QED
      BY <1>orderly, <2>3, <2>8, <3>5
  <2> QED
    BY <2>5, <2>6, <2>7, <2>8 DEF DaemonInv
<1>5. CASE ~deferred
  <2>1. Posted(job) = Leads(job)
    BY <1>3, <1>5, Lemma_Deferred DEF deferred
  <2>5. Typed'
    BY <1>0, <1>1, <1>2, <1>3, <1>5 DEF Typed, Offered
  <2>6. Numbered' /\ Tokens'
    BY <1>0, <1>1, <1>2, <1>5 DEF Numbered, Taken, Tokens
  <2>7. ASSUME interrupts' = 0 PROVE Orderly'
    <3>1. Later' = Later /\ Chained'
      BY <1>0, <1>1, <1>2, <1>5, <2>7, Lemma_ChainStays DEF Orderly
    <3> QED
      BY <1>orderly, <2>1, <2>7, <3>1
  <2> QED
    BY <2>5, <2>6, <2>7 DEF DaemonInv
<1> QED
  BY <1>4, <1>5

\* The main thread takes a copy on, copies and answers, or leaves its loop.
LEMMA Lemma_MainThread ==
  ASSUME DaemonInv,
         \/ Daemon!VidUserJob_BUF_DONE \/ Daemon!Copy \/ Daemon!Copied
         \/ Daemon!Done \/ Daemon!GetFails
  PROVE  DaemonInv'
<1>0. Typed /\ Numbered /\ Tokens /\ (interrupts = 0 => Orderly)
  BY DEF DaemonInv
<1>1. /\ loop \in {"select", "taken", "copy", "done"}
      /\ loop' \in {"select", "taken", "copy", "done", "quit"}
      /\ UNCHANGED <<stage, asking, calls, interrupts, mTaskQ, mTaskEvent,
                     worker, task, added, ran, mapped, source>>
  BY DEF Daemon!VidUserJob_BUF_DONE, Daemon!Copy, Daemon!Copied, Daemon!Done,
         Daemon!GetFails, Daemon!app, Daemon!tasks, Daemon!src
<1>2. /\ job_list \in Seq(Jobs) /\ Len(job_list) \in Nat /\ done_list \in Nat
      /\ oSrcBufferQ \in 0 .. MaxAnnounced /\ MaxAnnounced \in Nat
  BY <1>0, ConstantsFit DEF Typed, Daemon!BoundsFit
<1>3. /\ job_list' \in Seq(Jobs) /\ done_list' \in Nat
      /\ oSrcBufferQ' \in 0 .. MaxAnnounced
  BY <1>2 DEF Daemon!VidUserJob_BUF_DONE, Daemon!Copy, Daemon!Copied,
              Daemon!Done, Daemon!GetFails, Daemon!src
<1>4. Typed'
  BY <1>0, <1>1, <1>3 DEF Typed, Offered
<1>5. Numbered' /\ Tokens'
  BY <1>0, <1>1 DEF Numbered, Taken, Tokens
<1>6. ASSUME interrupts' = 0 PROVE Orderly'
  <2>1. Chained /\ Owed /\ Led
    BY <1>0, <1>1, <1>6 DEF Orderly, Serving
  <2>2. Later' = Later /\ Chained' /\ Wanted' = Wanted
    BY <1>1, <2>1, Lemma_ChainStays DEF Wanted
  <2>3. CASE Daemon!VidUserJob_BUF_DONE
    <3>1. /\ loop = "select" /\ loop' \in {"taken", "done"} /\ job_list # << >>
          /\ job_list[1] = "BUF_DONE" /\ done_list' = done_list
          /\ job_list' \in Seq(Jobs) /\ Len(job_list') = Len(job_list) - 1
      BY <1>2, <2>3 DEF Daemon!VidUserJob_BUF_DONE
    <3>2. Len(job_list) = 1 /\ job_list' = << >> /\ done_list = 0
      BY <1>2, <2>1, <3>1 DEF Owed
    <3>3. Later = Wanted
      BY <2>1, <3>1 DEF Led, Posted, Leads
    <3> QED
      BY <1>1, <2>1, <2>2, <3>1, <3>2, <3>3 DEF Orderly, Owed, Led
  <2>4. CASE Daemon!Copy \/ Daemon!Copied
    <3>1. /\ loop \in {"taken", "copy"} /\ loop' \in {"copy", "done"}
          /\ UNCHANGED <<job_list, done_list>>
      BY <2>4 DEF Daemon!Copy, Daemon!Copied
    <3> QED
      BY <1>1, <2>1, <2>2, <3>1 DEF Orderly, Owed, Led
  <2>5. CASE Daemon!Done
    <3>1. /\ loop = "done" /\ UNCHANGED job_list
          /\ \/ loop' = "quit"
             \/ loop' = "select" /\ done_list' = done_list + 1
      BY <2>5 DEF Daemon!Done
    <3> QED
      BY <1>1, <1>2, <2>1, <2>2, <3>1 DEF Orderly, Serving, Owed, Led
  <2>6. CASE Daemon!GetFails
    <3>1. loop' = "quit"
      BY <2>6 DEF Daemon!GetFails
    <3> QED
      BY <2>2, <3>1 DEF Orderly, Serving
  <2> QED
    BY <2>3, <2>4, <2>5, <2>6
<1> QED
  BY <1>4, <1>5, <1>6 DEF DaemonInv

\* The main thread stops, and waits for the tasks.
LEMMA Lemma_Stop ==
  ASSUME DaemonInv, Daemon!Stop \/ Daemon!Joined
  PROVE  DaemonInv'
<1>0. Typed /\ Numbered /\ Tokens /\ (interrupts = 0 => Orderly)
  BY DEF DaemonInv
<1>1. /\ loop' \in {"stop", "ended"}
      /\ \/ /\ loop \in {"select", "quit"} /\ loop' = "stop"
            /\ mTaskEvent' = mTaskEvent + 1
         \/ /\ loop = "stop" /\ loop' = "ended" /\ worker = "ended"
            /\ mTaskEvent' = mTaskEvent
      /\ UNCHANGED <<stage, asking, calls, interrupts, job_list, done_list,
                     mTaskQ, worker, task, added, ran, mapped, source,
                     oSrcBufferQ>>
  BY DEF Daemon!Stop, Daemon!Joined, Daemon!app, Daemon!tasks, Daemon!src
<1>2. Typed'
  BY <1>0, <1>1 DEF Typed, Offered
<1>3. Numbered'
  BY <1>0, <1>1 DEF Numbered, Taken
<1>4. Tokens'
  BY <1>0, <1>1 DEF Tokens, Typed
<1>5. interrupts' = 0 => Orderly'
  BY <1>0, <1>1, Lemma_ChainStays DEF Orderly, Serving
<1> QED
  BY <1>2, <1>3, <1>4, <1>5 DEF DaemonInv

\* The task thread takes a token, and with it the first task.
LEMMA Lemma_Main ==
  ASSUME DaemonInv, Daemon!Main
  PROVE  DaemonInv'
<1>0. Typed /\ Numbered /\ Tokens /\ (interrupts = 0 => Orderly)
  BY DEF DaemonInv
<1>1. /\ worker = "select" /\ mTaskEvent > 0
      /\ mTaskEvent' = mTaskEvent - 1 /\ worker' = "pop"
      /\ UNCHANGED <<stage, asking, calls, interrupts, job_list, done_list, loop,
                     mTaskQ, task, added, ran, mapped, source, oSrcBufferQ>>
  BY DEF Daemon!Main, Daemon!OneLess, Daemon!app, Daemon!src
<1>2. Soon' = Soon /\ Now' = Now /\ Later' = Later /\ Wanted' = Wanted
  BY <1>1 DEF Soon, Now, Later, Wanted
<1>3. Typed'
  BY <1>0, <1>1 DEF Typed, Offered
<1>4. Numbered'
  BY <1>0, <1>1 DEF Numbered, Taken
<1>5. Tokens'
  BY <1>0, <1>1 DEF Tokens, Typed
<1>6. interrupts' = 0 => Orderly'
  BY <1>0, <1>1, <1>2 DEF Orderly, Serving, Owed, Chained, Led
<1> QED
  BY <1>3, <1>4, <1>5, <1>6 DEF DaemonInv

\* The worker takes the first task of the queue, if there is one.
LEMMA Lemma_Pop ==
  ASSUME DaemonInv, Daemon!Pop
  PROVE  DaemonInv'
<1>0. Typed /\ Numbered /\ Tokens /\ (interrupts = 0 => Orderly)
  BY DEF DaemonInv
<1>1. /\ worker = "pop"
      /\ UNCHANGED <<stage, asking, calls, interrupts, job_list, done_list, loop,
                     mTaskEvent, added, ran, mapped, source, oSrcBufferQ>>
  BY DEF Daemon!Pop, Daemon!app, Daemon!src
<1>2. Now' = Now /\ Wanted' = Wanted
  BY <1>1 DEF Now, Wanted
<1>4. mTaskQ \in Seq(Tasks) /\ Len(mTaskQ) \in Nat /\ mTaskEvent \in Nat /\ ran \in Nat
  BY <1>0 DEF Typed
<1>5. CASE mTaskQ = << >> /\ worker' = "ended" /\ UNCHANGED <<mTaskQ, task>>
  <2>1. Soon' = Soon /\ Later' = Later
    BY <1>1, <1>2, <1>5 DEF Soon, Later
  <2>2. Typed'
    BY <1>0, <1>1, <1>5 DEF Typed, Offered
  <2>3. Numbered'
    BY <1>0, <1>1, <1>5 DEF Numbered, Taken
  <2>4. Tokens'
    BY <1>0, <1>1, <1>4, <1>5 DEF Tokens, Typed
  <2>5. interrupts' = 0 => Orderly'
    BY <1>0, <1>1, <1>2, <1>5, <2>1 DEF Orderly, Serving, Owed, Chained, Led
  <2> QED
    BY <2>2, <2>3, <2>4, <2>5 DEF DaemonInv
<1>6. CASE /\ mTaskQ # << >> /\ worker' = "run"
           /\ task' = Head(mTaskQ) /\ mTaskQ' = Tail(mTaskQ)
  <2>1. /\ Len(mTaskQ) > 0 /\ mTaskQ' \in Seq(Tasks) /\ Len(mTaskQ') = Len(mTaskQ) - 1
        /\ task' = mTaskQ[1] /\ task' \in Tasks
        /\ \A i \in 1 .. Len(mTaskQ) - 1 : mTaskQ'[i] = mTaskQ[i + 1]
    BY <1>4, <1>6
  <2>2. mTaskQ' = << >> <=> Len(mTaskQ) = 1
    BY <1>4, <2>1
  <2>3. Soon = Now /\ Soon' = Beyond(mTaskQ[1].what) /\ Later' = Later
    <3>1. Soon = Now /\ Soon' = Beyond(mTaskQ[1].what)
      BY <1>1, <1>6, <2>1 DEF Soon
    <3>2. CASE Len(mTaskQ) = 1
      BY <1>6, <2>2, <3>1, <3>2 DEF Later
    <3>3. CASE Len(mTaskQ) # 1
      <4>1. mTaskQ'[Len(mTaskQ')] = mTaskQ[Len(mTaskQ)]
        BY <1>4, <2>1, <3>3
      <4>2. Later' = Beyond(mTaskQ'[Len(mTaskQ')].what)
        BY <2>2, <3>3 DEF Later
      <4>3. Later = Beyond(mTaskQ[Len(mTaskQ)].what)
        BY <1>6 DEF Later
      <4> QED
        BY <3>1, <4>1, <4>2, <4>3
    <3> QED
      BY <3>2, <3>3
  <2>4. Typed'
    BY <1>0, <1>1, <1>6, <2>1 DEF Typed, Offered
  <2>5. Numbered'
    BY <1>0, <1>1, <1>4, <1>6, <2>1 DEF Numbered, Taken
  <2>6. Tokens'
    <3>1. loop \in {"select", "taken", "copy", "done", "quit"} =>
            mTaskEvent + 1 = Len(mTaskQ)
      BY <1>0, <1>1 DEF Tokens
    <3>2. loop = "stop" => mTaskEvent + 1 = Len(mTaskQ) + 1
      BY <1>0, <1>1 DEF Tokens
    <3>3. loop \notin {"ended", "dead"}
      BY <1>0, <1>1 DEF Tokens
    <3>4. mTaskEvent' = mTaskEvent /\ loop' = loop /\ worker' = "run"
      BY <1>1, <1>6
    <3>5. loop' \in {"select", "taken", "copy", "done", "quit"} =>
            mTaskEvent' = Len(mTaskQ')
      BY <1>4, <2>1, <3>1, <3>4
    <3>6. loop' = "stop" => mTaskEvent' = Len(mTaskQ') + 1
      BY <1>4, <2>1, <3>2, <3>4
    <3> QED
      BY <3>3, <3>4, <3>5, <3>6 DEF Tokens
  <2>7. ASSUME interrupts' = 0 PROVE Orderly'
    <3>0. Chained /\ (Serving => Owed /\ Led)
      BY <1>0, <1>1, <2>7 DEF Orderly
    <3>1. Before(task'.what) = Now'
      BY <1>2, <1>6, <2>1, <2>3, <3>0 DEF Chained
    <3>2. mTaskQ' # << >> => Before(mTaskQ'[1].what) = Soon'
      BY <1>4, <2>1, <2>2, <2>3, <3>0 DEF Chained
    <3>3. \A i \in 1 .. Len(mTaskQ') - 1 :
            Beyond(mTaskQ'[i].what) = Before(mTaskQ'[i + 1].what)
      BY <1>4, <2>1, <3>0 DEF Chained
    <3>4. Chained'
      BY <1>1, <3>0, <3>1, <3>2, <3>3 DEF Chained
    <3>5. Serving => Owed' /\ Led'
      BY <1>1, <1>2, <2>3, <3>0 DEF Owed, Led
    <3> QED
      BY <1>1, <3>4, <3>5 DEF Orderly, Serving
  <2> QED
    BY <2>4, <2>5, <2>6, <2>7 DEF DaemonInv
<1> QED
  BY <1>5, <1>6 DEF Daemon!Pop, Daemon!Oldest

\* A thread over a thread, or a join without one, ends the program; but not
\* before a wait was interrupted.
LEMMA Lemma_Terminated ==
  ASSUME DaemonInv, Daemon!Terminated
  PROVE  DaemonInv'
<1>0. Typed /\ Numbered /\ Tokens /\ (interrupts = 0 => Orderly)
  BY DEF DaemonInv
<1>1. /\ worker = "run" /\ worker' = "dead" /\ loop' = "dead" /\ source' = "dead"
      /\ UNCHANGED <<stage, asking, calls, interrupts, job_list, done_list,
                     mTaskQ, mTaskEvent, task, added, ran, mapped, oSrcBufferQ>>
  BY DEF Daemon!Terminated, Daemon!app
<1>2. Typed'
  BY <1>0, <1>1 DEF Typed, Offered
<1>3. Numbered'
  BY <1>0, <1>1 DEF Numbered, Taken
<1>4. Tokens'
  <2>1. Len(mTaskQ) \in Nat /\ mTaskEvent \in Nat
    BY <1>0 DEF Typed
  <2>2. loop \in {"select", "taken", "copy", "done", "quit", "stop"}
    BY <1>0, <1>1 DEF Tokens, Typed
  <2> QED
    BY <1>0, <1>1, <2>1, <2>2 DEF Tokens
<1>5. interrupts # 0
  <2>1. CASE task.what = "start" /\ source # "none"
    BY <1>0, <1>1, <2>1 DEF Orderly, Chained, Before, Now
  <2>2. CASE task.what = "join" /\ source = "none"
    BY <1>0, <1>1, <2>2 DEF Orderly, Chained, Before, Now
  <2> QED
    BY <2>1, <2>2 DEF Daemon!Terminated, Daemon!Misplaced
<1> QED
  BY <1>1, <1>2, <1>3, <1>4, <1>5 DEF DaemonInv

\* A task has ended: the next one begins where it leads.
LEMMA Lemma_Run ==
  ASSUME DaemonInv, Daemon!Run
  PROVE  DaemonInv'
<1>0. Typed /\ Numbered /\ Tokens /\ (interrupts = 0 => Orderly)
  BY DEF DaemonInv
<1>1. /\ worker = "run" /\ worker' = "select" /\ ran' = task.n
      /\ UNCHANGED <<stage, asking, calls, interrupts, job_list, done_list, loop,
                     mTaskQ, mTaskEvent, added, oSrcBufferQ>>
  BY DEF Daemon!Run, Daemon!app
<1>2. /\ task.what \in {"map", "unmap", "start", "join"} /\ task.n = ran + 1
      /\ ran \in Nat
  BY <1>0, <1>1 DEF Typed, Tasks, Numbered
<1>3. /\ source' = IF task.what = "start" THEN "open"
                   ELSE IF task.what = "join" THEN "none" ELSE source
  BY <1>2 DEF Daemon!Run
<1>4. /\ task.what = "map" => mapped' \in {"yes", "failed"}
      /\ task.what = "unmap" => mapped' = "no"
      /\ task.what \in {"start", "join"} => mapped' = mapped
  <2>1. mapped' \in Daemon!Mapping
    BY DEF Daemon!Run
  <2> QED
    BY <1>2, <2>1 DEF Daemon!Mapping
<1>5. Typed'
  BY <1>0, <1>1, <1>2, <1>3, <1>4 DEF Typed, Offered
<1>6. Numbered'
  BY <1>0, <1>1, <1>2 DEF Numbered, Taken
<1>7. Tokens'
  BY <1>0, <1>1 DEF Tokens
<1>8. ASSUME interrupts' = 0 PROVE Orderly'
  <2>0. Chained /\ (Serving => Owed /\ Led)
    BY <1>0, <1>1, <1>8 DEF Orderly
  <2>1. Now' = Beyond(task.what) /\ (source' # "none" => mapped' # "no")
    BY <1>1, <1>2, <1>3, <1>4, <2>0 DEF Chained, Before, Beyond, Now
  <2>2. Soon = Beyond(task.what) /\ Soon' = Soon /\ Later' = Later /\ Wanted' = Wanted
    BY <1>1, <2>1 DEF Soon, Later, Wanted
  <2>3. Chained'
    BY <1>1, <2>0, <2>1, <2>2 DEF Chained
  <2>4. Serving => Owed' /\ Led'
    BY <1>1, <2>0, <2>2 DEF Owed, Led
  <2> QED
    BY <1>1, <2>3, <2>4 DEF Orderly, Serving
<1> QED
  BY <1>5, <1>6, <1>7, <1>8 DEF DaemonInv

\* What the source thread does between its start and its end is nothing to the
\* tasks.
LEMMA Lemma_Source ==
  ASSUME DaemonInv,
         \/ Daemon!OpenSource \/ Daemon!StartSource \/ Daemon!LoopSource
         \/ Daemon!DequeueSource \/ Daemon!AnnounceSource
         \/ Daemon!RequeueSource
  PROVE  DaemonInv'
<1>0. Typed /\ Numbered /\ Tokens /\ (interrupts = 0 => Orderly)
  BY DEF DaemonInv
<1>1. /\ source # "none"
      /\ source' \in {"buffers", "loop", "select", "announce", "requeue", "ended"}
      /\ UNCHANGED <<stage, asking, calls, interrupts, job_list, done_list, loop,
                     mTaskQ, mTaskEvent, worker, task, added, ran, mapped,
                     Daemon!tasks>>
  BY DEF Daemon!OpenSource, Daemon!StartSource, Daemon!LoopSource,
         Daemon!DequeueSource, Daemon!AnnounceSource, Daemon!RequeueSource,
         Daemon!Step, Daemon!Ended, Daemon!unrelated, Daemon!app, Daemon!tasks
<1>2. oSrcBufferQ' \in 0 .. MaxAnnounced
  <2>1. oSrcBufferQ \in 0 .. MaxAnnounced /\ MaxAnnounced \in Nat
    BY <1>0, ConstantsFit DEF Typed, Daemon!BoundsFit
  <2>2. \/ oSrcBufferQ' = oSrcBufferQ
        \/ oSrcBufferQ < MaxAnnounced /\ oSrcBufferQ' = oSrcBufferQ + 1
    BY DEF Daemon!OpenSource, Daemon!StartSource, Daemon!LoopSource,
           Daemon!DequeueSource, Daemon!AnnounceSource, Daemon!RequeueSource
  <2> QED
    BY <2>1, <2>2
<1>3. Typed'
  BY <1>0, <1>1, <1>2 DEF Typed, Offered
<1>4. Numbered' /\ Tokens'
  BY <1>0, <1>1, Lemma_TasksStay
<1>5. Now' = Now /\ Soon' = Soon /\ Later' = Later /\ Wanted' = Wanted
  BY <1>1 DEF Now, Soon, Later, Wanted
<1>6. interrupts' = 0 => Orderly'
  BY <1>0, <1>1, <1>5 DEF Orderly, Serving, Owed, Chained, Led
<1> QED
  BY <1>3, <1>4, <1>6 DEF DaemonInv

\* No step loses a task or an answer, or a place in the order of the tasks.
LEMMA DaemonStep ==
  ASSUME DaemonInv, [Daemon!Next]_(Daemon!vars)
  PROVE  DaemonInv'
<1>1. CASE UNCHANGED Daemon!vars
  BY <1>1 DEF Daemon!vars, Daemon!app, Daemon!tasks, Daemon!src, DaemonInv,
              Typed, Offered, Numbered, Taken, Tokens, Orderly, Serving, Owed,
              Chained, Led, Now, Soon, Later, Wanted
<1>2. CASE Daemon!Next
  BY <1>2, Lemma_Call, Lemma_Answered, Lemma_Handle, Lemma_MainThread,
     Lemma_Stop, Lemma_Main, Lemma_Pop, Lemma_Run, Lemma_Terminated,
     Lemma_Source DEF Daemon!Next
<1> QED
  BY <1>1, <1>2

\* What the invariant says is what is promised.
LEMMA Lemma_DaemonTypeOK ==
  ASSUME DaemonInv
  PROVE  Daemon!TypeOK
<1>1. asking = "none" \/ \E c \in Daemon!Calls[stage] : c[1] = asking
  <2>1. Typed
    BY DEF DaemonInv
  <2>2. CASE stage = "closed"
    BY <2>1, <2>2 DEF Typed, Offered, Daemon!Calls
  <2>3. CASE stage = "setup"
    BY <2>1, <2>3 DEF Typed, Offered, Daemon!Calls
  <2>4. CASE stage = "ready"
    BY <2>1, <2>4 DEF Typed, Offered, Daemon!Calls
  <2>5. CASE stage = "streaming"
    BY <2>1, <2>5 DEF Typed, Offered, Daemon!Calls
  <2> QED
    BY <2>1, <2>2, <2>3, <2>4, <2>5 DEF Typed
<1>2. stage \in DOMAIN Daemon!Calls
  BY DEF DaemonInv, Typed, Daemon!Calls
<1> QED
  BY <1>1, <1>2 DEF Daemon!TypeOK, DaemonInv, Typed

\* The invariant says what the run checks of the tasks,
LEMMA Lemma_TasksOnce ==
  ASSUME DaemonInv
  PROVE  TasksOnce
<1> DEFINE first == IF worker \in {"run", "dead"} THEN <<task>> ELSE << >>
           waiting == first \o mTaskQ
<1>0. Typed /\ Numbered /\ Tokens
  BY DEF DaemonInv
<1>1. /\ mTaskQ \in Seq(Tasks) /\ Len(mTaskQ) \in Nat /\ ran \in Nat /\ mTaskEvent \in Nat
      /\ worker \in {"run", "dead"} => task \in Tasks
  BY <1>0 DEF Typed
<1>2. /\ DOMAIN waiting = 1 .. Len(waiting) /\ ran + Len(waiting) = added
      /\ \A i \in 1 .. Len(waiting) : waiting[i].n = ran + i
  <2>1. CASE worker \in {"run", "dead"}
    <3>1. /\ first = <<task>> /\ waiting \in Seq(Tasks)
          /\ Len(waiting) = Len(mTaskQ) + 1 /\ waiting[1] = task
          /\ \A i \in 2 .. Len(mTaskQ) + 1 : waiting[i] = mTaskQ[i - 1]
      BY <1>1, <2>1
    <3>2. /\ task.n = ran + 1 /\ added = ran + 1 + Len(mTaskQ)
          /\ \A i \in 1 .. Len(mTaskQ) : mTaskQ[i].n = ran + 1 + i
      BY <1>0, <2>1 DEF Numbered, Taken
    <3>3. DOMAIN waiting = 1 .. Len(waiting)
      BY <3>1
    <3> HIDE DEF first, waiting
    <3>4. ASSUME NEW i \in 1 .. Len(waiting)
          PROVE  waiting[i].n = ran + i
      <4>1. CASE i = 1
        BY <3>1, <3>2, <4>1
      <4>2. CASE i # 1
        <5>1. i \in 2 .. Len(mTaskQ) + 1 /\ i - 1 \in 1 .. Len(mTaskQ)
          BY <1>1, <3>1, <4>2
        <5>2. waiting[i].n = ran + 1 + (i - 1)
          BY <3>1, <3>2, <5>1
        <5> QED
          BY <1>1, <5>1, <5>2
      <4> QED
        BY <4>1, <4>2
    <3>5. ran + Len(waiting) = added
      BY <1>1, <3>1, <3>2
    <3> QED
      BY <3>3, <3>4, <3>5
  <2>2. CASE worker \notin {"run", "dead"}
    <3>1. waiting = mTaskQ
      BY <1>1, <2>2
    <3> HIDE DEF waiting
    <3> QED
      BY <1>0, <1>1, <2>2, <3>1 DEF Numbered, Taken
  <2> QED
    BY <2>1, <2>2
<1>3. mTaskEvent + (IF worker = "pop" THEN 1 ELSE 0) >= Len(mTaskQ)
  BY <1>0, <1>1 DEF Typed, Tokens
<1>4. loop = "ended" => ran = added
  BY <1>0, <1>1 DEF Tokens, Numbered, Taken
<1> QED
  BY <1>2, <1>3, <1>4 DEF TasksOnce, Daemon!TasksOnce

\* and of what each finds.
LEMMA Lemma_TasksFit ==
  ASSUME DaemonInv
  PROVE  TasksFit
<1> SUFFICES ASSUME interrupts = 0
             PROVE  /\ worker = "run" =>
                         /\ task.what = "join" <=> source # "none"
                         /\ task.what = "map" <=> mapped = "no"
                    /\ source # "none" => mapped # "no"
  BY DEF TasksFit, Daemon!TasksFit
<1>1. Chained /\ Typed
  BY DEF DaemonInv, Orderly
<1> QED
  BY <1>1 DEF Chained, Typed, Tasks, Before, Now

-----------------------------------------------------------------------------
(* The completion threads of poll mode: who has which engine, and who       *)
(* sleeps.                                                                 *)

ThreadsTyped ==
  /\ admin \in {"closed", "adding", "open", "removing", "closing", "stop"}
  /\ whom \in 0 .. ThreadCnt
  /\ admin \in {"removing", "stop"} => whom # 0
  /\ work_list \in [Threads!Threads -> Seq(Engines)]
  /\ work_cnt \in [Threads!Threads -> Nat]
  /\ cmplthp \in [Engines -> 0 .. ThreadCnt]
  /\ schedule \in [Threads!Threads -> BOOLEAN]
  /\ at \in [Threads!Threads -> {"none", "check", "wait", "ready", "work"}]
  /\ transfers \in [Engines -> BOOLEAN]
  /\ submitter \in [Engines -> {"idle", "queued", "waiting"}]

On(t) == ToSet(work_list[t])

\* The engines of a thread are those that refer to it, but for the one that is
\* being removed.
Assigned ==
  /\ \A t \in Threads!Threads : IsInjective(work_list[t])
       /\ work_cnt[t] = Len(work_list[t])
  /\ \A e \in Engines, t \in Threads!Threads : cmplthp[e] = t => e \in On(t)
  /\ \A e \in Engines, t \in Threads!Threads : e \in On(t) =>
       \/ cmplthp[e] = t
       \/ admin = "removing" /\ t = whom /\ cmplthp[e] = 0
  /\ admin = "removing" => \A e, f \in On(whom) :
       cmplthp[e] = 0 /\ cmplthp[f] = 0 => e = f
  /\ admin \in {"stop", "closed"}
       => \A t \in Threads!Threads : work_list[t] = << >>

\* No thread has more than one engine more than another.
Even ==
  admin \in {"adding", "open"} =>
    \A t, u \in Threads!Threads : work_cnt[t] <= work_cnt[u] + 1

\* A thread sleeps on no transfer its submitter woke it for; there is none
\* while devices are opened.
Awake ==
  /\ admin \in {"closed", "adding"} => \A e \in Engines : ~transfers[e]
  /\ \A t \in Threads!Threads : at[t] = "wait" /\ ~schedule[t] =>
       \A e \in Engines :
         cmplthp[e] = t /\ transfers[e] => submitter[e] = "queued"

ThreadInv == ThreadsTyped /\ Assigned /\ Even /\ Awake

-----------------------------------------------------------------------------
(* The walk over the threads.                                              *)

\* The thread that is chosen has the least to do.
LEMMA Lemma_Chosen ==
  ASSUME ThreadsTyped, Even, admin = "adding", Threads!SomeThreads
  PROVE  Threads!Chosen \in Threads!Threads
         /\ \A t \in Threads!Threads : work_cnt[Threads!Chosen] <= work_cnt[t]
<1> DEFINE less == {t \in Threads!Threads \ {1} : work_cnt[t] < work_cnt[1]}
<1>1. /\ 1 \in Threads!Threads /\ Threads!Threads \subseteq Nat
      /\ Threads!Threads \subseteq 0 .. ThreadCnt
      /\ ThreadCnt \in Nat
  BY DEF Threads!SomeThreads, Threads!Threads
<1>2. \A t \in Threads!Threads : work_cnt[t] \in Nat
  BY DEF ThreadsTyped
<1>3. \A t, u \in Threads!Threads : work_cnt[t] <= work_cnt[u] + 1
  BY DEF Even
<1>4. CASE Threads!Idle # {}
  <2>1. Threads!Chosen
          = CHOOSE t \in Threads!Idle : \A u \in Threads!Idle : t <= u
    BY <1>4 DEF Threads!Chosen
  <2>2. Threads!Idle \in SUBSET Nat
    BY <1>1 DEF Threads!Idle
  <2>3. \E t \in Threads!Idle : \A u \in Threads!Idle : t <= u
    BY <1>4, <2>2, LeastNumber
  <2>4. Threads!Chosen \in Threads!Idle
    BY <2>1, <2>3
  <2> QED
    BY <1>1, <1>2, <2>4 DEF Threads!Idle
<1>5. CASE Threads!Idle = {} /\ less # {}
  <2>1. Threads!Chosen = CHOOSE t \in less : \A u \in less : t >= u
    BY <1>5 DEF Threads!Chosen
  <2>2. less \in SUBSET (0 .. ThreadCnt)
    BY <1>1
  <2>3. \E t \in less : \A u \in less : t >= u
    BY <1>1, <1>5, <2>2, GreatestNumber
  <2>4. Threads!Chosen \in less
    BY <2>1, <2>3
  <2> QED
    BY <1>1, <1>2, <1>3, <2>4
<1>6. CASE Threads!Idle = {} /\ less = {}
  <2>1. Threads!Chosen = 1
    BY <1>6 DEF Threads!Chosen
  <2>2. \A t \in Threads!Threads : ~ (work_cnt[t] < work_cnt[1])
    BY <1>1, <1>2, <1>6
  <2> QED
    BY <1>1, <1>2, <2>1, <2>2
<1> QED
  BY <1>4, <1>5, <1>6

-----------------------------------------------------------------------------
(* The steps.                                                              *)

\* The operators of its lists are those of the facts.
LEMMA Lemma_ThreadLists ==
  /\ \A s : Threads!ToSet(s) = ToSet(s)
  /\ \A s, i : Threads!RemoveAt(s, i) = RemoveAt(s, i)
  /\ \A S : Threads!Cardinality(S) = Cardinality(S)
BY DEF Threads!ToSet, ToSet, Threads!RemoveAt, RemoveAt, Threads!Cardinality,
       Cardinality

\* At first no thread exists and none has an engine.
LEMMA Lemma_ThreadInit == Threads!SomeThreads /\ Threads!Init => ThreadInv
<1> SUFFICES ASSUME Threads!SomeThreads, Threads!Init PROVE ThreadInv
  OBVIOUS
<1>1. ThreadsTyped
  BY ListEmpty DEF Threads!Init, ThreadsTyped, Threads!Threads,
     Threads!SomeThreads
<1>2. Assigned
  BY ListEmpty DEF Threads!Init, Assigned, On, Threads!Threads
<1>3. Even /\ Awake
  BY DEF Threads!Init, Even, Awake
<1> QED
  BY <1>1, <1>2, <1>3 DEF ThreadInv

\* An engine is added to the list of the thread with the least to do.
LEMMA Lemma_Add ==
  ASSUME ThreadInv, Threads!SomeThreads, NEW e \in Engines,
         Threads!xdma_thread_add_work(e)
  PROVE  ThreadInv'
<1> DEFINE c == Threads!Chosen
<1>1. /\ admin = "adding" /\ Threads!OnList(e) = {} /\ admin' = "adding"
      /\ work_list' = [work_list EXCEPT ![c] = Append(@, e)]
      /\ work_cnt' = [work_cnt EXCEPT ![c] = @ + 1]
      /\ cmplthp' = [cmplthp EXCEPT ![e] = c]
      /\ UNCHANGED <<whom, schedule, at, transfers, submitter>>
  BY DEF Threads!xdma_thread_add_work, Threads!traffic
<1>2. c \in Threads!Threads
      /\ \A t \in Threads!Threads : work_cnt[c] <= work_cnt[t]
  BY <1>1, Lemma_Chosen DEF ThreadInv
<1> HIDE DEF c
<1>3. c \in Nat \ {0} /\ Threads!Threads \subseteq Nat \ {0}
      /\ c \in 0 .. ThreadCnt
  BY <1>2 DEF Threads!Threads, Threads!SomeThreads
<1>4. \A t \in Threads!Threads : e \notin On(t)
  BY <1>1, Lemma_ThreadLists DEF Threads!OnList, On
<1>5. /\ Append(work_list[c], e) \in Seq(Engines)
      /\ Len(Append(work_list[c], e)) = Len(work_list[c]) + 1
      /\ ToSet(Append(work_list[c], e)) = On(c) \cup {e}
      /\ IsInjective(Append(work_list[c], e))
  BY <1>2, <1>4, ListAppend DEF ThreadInv, ThreadsTyped, Assigned, On
<1>6. /\ work_list' \in [Threads!Threads -> Seq(Engines)]
      /\ \A t \in Threads!Threads : work_list'[t] =
           IF t = c THEN Append(work_list[c], e) ELSE work_list[t]
      /\ \A t \in Threads!Threads : On(t)' = IF t = c THEN On(c) \cup {e}
           ELSE On(t)
  BY <1>1, <1>2, <1>5 DEF ThreadInv, ThreadsTyped, On
<1>7. /\ work_cnt' \in [Threads!Threads -> Nat]
      /\ \A t \in Threads!Threads : work_cnt'[t] =
           IF t = c THEN work_cnt[c] + 1 ELSE work_cnt[t]
  BY <1>1, <1>2 DEF ThreadInv, ThreadsTyped
<1>8. /\ cmplthp' \in [Engines -> 0 .. ThreadCnt]
      /\ \A f \in Engines : cmplthp'[f] = IF f = e THEN c ELSE cmplthp[f]
  BY <1>1, <1>3 DEF ThreadInv, ThreadsTyped
<1>9. ThreadsTyped'
  BY <1>1, <1>6, <1>7, <1>8 DEF ThreadInv, ThreadsTyped
<1>10. Assigned'
  <2>1. \A t \in Threads!Threads :
          IsInjective(work_list'[t]) /\ work_cnt'[t] = Len(work_list'[t])
    BY <1>2, <1>5, <1>6, <1>7 DEF ThreadInv, Assigned
  <2>2. ASSUME NEW f \in Engines, NEW t \in Threads!Threads, cmplthp'[f] = t
        PROVE  f \in On(t)'
    <3>1. CASE f = e
      BY <1>6, <1>8, <2>2, <3>1
    <3>2. CASE f # e
      <4>1. cmplthp[f] = t
        BY <1>8, <2>2, <3>2
      <4>2. f \in On(t)
        BY <4>1 DEF ThreadInv, Assigned
      <4> QED
        BY <1>6, <4>2
    <3> QED
      BY <3>1, <3>2
  <2>3. \A f \in Engines, t \in Threads!Threads : f \in On(t)'
          => cmplthp'[f] = t
    BY <1>1, <1>2, <1>4, <1>6, <1>8 DEF ThreadInv, Assigned
  <2> QED
    BY <1>1, <2>1, <2>2, <2>3 DEF Assigned
<1>11. Even'
  BY <1>1, <1>2, <1>7 DEF ThreadInv, ThreadsTyped, Even
<1>12. Awake'
  BY <1>1 DEF ThreadInv, Awake
<1> QED
  BY <1>9, <1>10, <1>11, <1>12 DEF ThreadInv

\* The engine no longer refers to its thread, on whose list it still is.
LEMMA Lemma_Forget ==
  ASSUME ThreadInv, Threads!SomeThreads, NEW e \in Engines, Threads!Forget(e)
  PROVE  ThreadInv'
<1>1. /\ admin \in {"open", "closing"} /\ Threads!OnList(e) # {}
      /\ admin' = "removing"
      /\ whom' = cmplthp[e] /\ cmplthp' = [cmplthp EXCEPT ![e] = 0]
      /\ UNCHANGED <<work_list, work_cnt, schedule, at, transfers, submitter>>
  BY DEF Threads!Forget, Threads!traffic
<1>2. cmplthp[e] \in Threads!Threads /\ Threads!Threads \subseteq Nat \ {0}
  BY <1>1, Lemma_ThreadLists DEF ThreadInv, Assigned, Threads!OnList, On,
     Threads!Threads, Threads!SomeThreads
<1>3. /\ cmplthp' \in [Engines -> 0 .. ThreadCnt]
      /\ \A f \in Engines : cmplthp'[f] = IF f = e THEN 0 ELSE cmplthp[f]
  BY <1>1 DEF ThreadInv, ThreadsTyped, Threads!SomeThreads
<1>4. \A t \in Threads!Threads : On(t)' = On(t) /\ On(t) \subseteq Engines
  BY <1>1, ListEntries DEF ThreadInv, ThreadsTyped, On
<1>5. ThreadsTyped'
  BY <1>1, <1>2, <1>3 DEF ThreadInv, ThreadsTyped
<1>6. Assigned'
  <2>1. \A f \in Engines, t \in Threads!Threads : f \in On(t) => cmplthp[f] = t
    BY <1>1 DEF ThreadInv, Assigned
  <2>2. \A t \in Threads!Threads :
          IsInjective(work_list'[t]) /\ work_cnt'[t] = Len(work_list'[t])
    BY <1>1 DEF ThreadInv, Assigned
  <2>3. ASSUME NEW f \in Engines, NEW t \in Threads!Threads
        PROVE  /\ cmplthp'[f] = t => f \in On(t)'
               /\ f \in On(t)' => cmplthp'[f] = t
                    \/ (t = whom' /\ cmplthp'[f] = 0)
    <3>1. cmplthp[f] = t <=> f \in On(t)
      BY <2>1 DEF ThreadInv, Assigned
    <3> QED
      BY <1>1, <1>2, <1>3, <1>4, <3>1
  <2>4. \A f, g \in On(whom)' : cmplthp'[f] = 0 /\ cmplthp'[g] = 0 => f = g
    <3>1. \A f \in On(whom)' : f \in Engines
            /\ (f # e => cmplthp'[f] \in Threads!Threads)
      <4>1. On(whom)' = On(whom')
        BY <1>1 DEF On
      <4> QED
        BY <1>1, <1>2, <1>3, <1>4, <2>1, <4>1
    <3> QED
      BY <1>2, <3>1
  <2> QED
    BY <1>1, <2>2, <2>3, <2>4 DEF Assigned, On
<1>7. Even' /\ Awake'
  BY <1>1, <1>2, <1>3 DEF ThreadInv, Even, Awake
<1> QED
  BY <1>5, <1>6, <1>7 DEF ThreadInv

\* It leaves the list: it is the only one there that refers to no thread.
LEMMA Lemma_Removed ==
  ASSUME ThreadInv, Threads!SomeThreads, Threads!Removed
  PROVE  ThreadInv'
<1>1. /\ admin = "removing" /\ admin' = "closing"
      /\ work_cnt' = [work_cnt EXCEPT ![whom] = @ - 1]
      /\ UNCHANGED <<whom, cmplthp, schedule, at, transfers, submitter>>
  BY DEF Threads!Removed, Threads!traffic
<1>2. PICK i \in DOMAIN work_list[whom] :
        /\ cmplthp[work_list[whom][i]] = 0
        /\ work_list' = [work_list EXCEPT ![whom] = RemoveAt(@, i)]
  BY Lemma_ThreadLists DEF Threads!Removed
<1>3. whom \in Threads!Threads /\ work_list[whom] \in Seq(Engines)
      /\ IsInjective(work_list[whom])
      /\ Threads!Threads \subseteq Nat \ {0}
  BY <1>1 DEF ThreadInv, ThreadsTyped, Assigned, Threads!Threads,
     Threads!SomeThreads
<1> DEFINE e == work_list[whom][i]
           s == RemoveAt(work_list[whom], i)
<1>4. i \in 1 .. Len(work_list[whom]) /\ e \in On(whom)
      /\ On(whom) \subseteq Engines
  BY <1>2, <1>3, ListEntries DEF On
<1>5. /\ s \in Seq(Engines) /\ Len(s) = Len(work_list[whom]) - 1
      /\ ToSet(s) = On(whom) \ {e} /\ IsInjective(s)
  BY <1>3, <1>4, ListRemove DEF On
<1>6. cmplthp[e] = 0 /\ Len(work_list[whom]) \in Nat \ {0}
  BY <1>2, <1>3, <1>4, ListEntries
<1>7. /\ work_list' = [work_list EXCEPT ![whom] = s]
  BY <1>2
<1> HIDE DEF e, s
<1>8. /\ work_list' \in [Threads!Threads -> Seq(Engines)]
      /\ \A t \in Threads!Threads : work_list'[t] = IF t = whom THEN s
           ELSE work_list[t]
      /\ \A t \in Threads!Threads : On(t)' = IF t = whom THEN On(t) \ {e}
           ELSE On(t)
  BY <1>3, <1>5, <1>7 DEF ThreadInv, ThreadsTyped, On
<1>9. /\ work_cnt' \in [Threads!Threads -> Nat]
      /\ \A t \in Threads!Threads : work_cnt'[t] =
           IF t = whom THEN work_cnt[t] - 1 ELSE work_cnt[t]
  BY <1>1, <1>3, <1>6 DEF ThreadInv, ThreadsTyped, Assigned
<1>10. ThreadsTyped'
  BY <1>1, <1>8, <1>9 DEF ThreadInv, ThreadsTyped
<1>11. Assigned'
  <2>1. \A t \in Threads!Threads :
          IsInjective(work_list'[t]) /\ work_cnt'[t] = Len(work_list'[t])
    BY <1>5, <1>8, <1>9 DEF ThreadInv, Assigned
  <2>2. \A f \in Engines, t \in Threads!Threads : cmplthp'[f] = t
          => f \in On(t)'
    BY <1>1, <1>3, <1>6, <1>8 DEF ThreadInv, Assigned
  <2>3. \A f \in Engines, t \in Threads!Threads : f \in On(t)'
          => cmplthp'[f] = t
    BY <1>1, <1>4, <1>6, <1>8 DEF ThreadInv, Assigned
  <2> QED
    BY <1>1, <2>1, <2>2, <2>3 DEF Assigned
<1>12. Even' /\ Awake'
  BY <1>1 DEF ThreadInv, Even, Awake
<1> QED
  BY <1>10, <1>11, <1>12 DEF ThreadInv

\* The other steps of opening and closing.
LEMMA Lemma_Admin ==
  ASSUME ThreadInv, Threads!SomeThreads,
         \/ Threads!xdma_threads_create \/ Threads!Opened \/ Threads!Destroy
              \/ Threads!xdma_kthread_stop
         \/ Threads!Stopped
  PROVE  ThreadInv'
<1> USE DEF ThreadInv, ThreadsTyped, Assigned, Even, Awake, On,
        Threads!traffic, Threads!lists
<1>1. CASE Threads!xdma_threads_create
  BY <1>1, ListEmpty DEF Threads!xdma_threads_create
<1>2. CASE Threads!Opened
  BY <1>2 DEF Threads!Opened
<1>3. CASE Threads!Destroy
  <2>1. \A t \in Threads!Threads : work_list[t] = << >>
    BY <1>3, ListEntries, Lemma_ThreadLists
       DEF Threads!Destroy, Threads!OnList
  <2>2. 1 \in Threads!Threads /\ 1 \in 0 .. ThreadCnt
    BY DEF Threads!SomeThreads, Threads!Threads
  <2> QED
    BY <1>3, <2>1, <2>2 DEF Threads!Destroy
<1>4. CASE Threads!xdma_kthread_stop
  BY <1>4 DEF Threads!xdma_kthread_stop
<1>5. CASE Threads!Stopped
  <2>1. CASE Threads!More
    <3>1. whom + 1 \in 0 .. ThreadCnt /\ whom + 1 # 0
      BY <2>1 DEF Threads!More, Threads!SomeThreads
    <3>2. /\ admin = "stop" /\ whom' = whom + 1
          /\ schedule' = [schedule EXCEPT ![whom + 1] = TRUE]
          /\ UNCHANGED <<admin, work_list, work_cnt, cmplthp, at, transfers,
                         submitter>>
      BY <1>5, <2>1 DEF Threads!Stopped
    <3>3. ThreadsTyped'
      BY <3>1, <3>2
    <3>4. Assigned' /\ Even'
      BY <3>2
    <3>5. Awake'
      BY <3>2
    <3> QED
      BY <3>3, <3>4, <3>5
  <2>2. CASE ~Threads!More
    <3>1. /\ admin = "stop" /\ admin' = "closed" /\ whom' = 0
          /\ schedule' = [t \in Threads!Threads |-> FALSE]
          /\ transfers' = [e \in Engines |-> FALSE]
          /\ submitter' = [e \in Engines |-> "idle"]
          /\ UNCHANGED <<work_list, work_cnt, cmplthp, at>>
      BY <1>5, <2>2 DEF Threads!Stopped
    <3>2. ThreadsTyped'
      BY <3>1 DEF Threads!SomeThreads
    <3>3. Assigned' /\ Even'
      BY <3>1
    <3>4. Awake'
      BY <3>1
    <3> QED
      BY <3>2, <3>3, <3>4
  <2> QED
    BY <2>1, <2>2
<1> QED
  BY <1>1, <1>2, <1>3, <1>4, <1>5

\* Submission: who has woken the thread of its engine is waiting.
LEMMA Lemma_Submit ==
  ASSUME ThreadInv, NEW e \in Engines,
         Threads!transfer_queue(e) \/ Threads!xdma_kthread_wakeup(e)
           \/ Threads!Completed(e)
  PROVE  ThreadInv'
<1> USE DEF ThreadInv, ThreadsTyped, Assigned, Even, Awake, On,
        Threads!traffic, Threads!lists
<1>1. CASE Threads!transfer_queue(e)
  BY <1>1 DEF Threads!transfer_queue
<1>2. CASE Threads!xdma_kthread_wakeup(e)
  BY <1>2 DEF Threads!xdma_kthread_wakeup, Threads!Signalled
<1>3. CASE Threads!Completed(e)
  BY <1>3 DEF Threads!Completed
<1> QED
  BY <1>1, <1>2, <1>3

\* A thread that found no transfer pending may go to sleep.
LEMMA Lemma_Look ==
  ASSUME ThreadInv, NEW t \in Threads!Threads, Threads!xthread_work_pending(t)
  PROVE  ThreadInv'
<1>1. /\ at[t] = "check"
      /\ \E to \in {"none", "ready", "wait"} :
           at' = [at EXCEPT ![t] = to] /\ (to = "wait" => ~Threads!Pending(t))
      /\ UNCHANGED <<admin, whom, work_list, work_cnt, cmplthp, schedule,
                     transfers, submitter>>
  BY DEF Threads!xthread_work_pending, Threads!Goes, Threads!lists,
     Threads!traffic
<1>2. /\ at' \in [Threads!Threads -> {"none", "check", "wait", "ready",
                                      "work"}]
      /\ \A u \in Threads!Threads : u # t => at'[u] = at[u]
      /\ at'[t] = "wait" => ~Threads!Pending(t)
  BY <1>1 DEF ThreadInv, ThreadsTyped
<1>3. ThreadsTyped' /\ Assigned' /\ Even'
  BY <1>1, <1>2 DEF ThreadInv, ThreadsTyped, Assigned, Even, On
<1>4. at'[t] = "wait" => \A e \in Engines : cmplthp[e] = t => ~transfers[e]
  BY <1>2, Lemma_ThreadLists DEF Threads!Pending, ThreadInv, Assigned, On
<1>5. Awake'
  BY <1>1, <1>2, <1>4 DEF ThreadInv, Awake
<1> QED
  BY <1>3, <1>5 DEF ThreadInv

\* Polling ends transfers, and begins none.
LEMMA Lemma_Poll ==
  ASSUME ThreadInv, NEW t \in Threads!Threads, Threads!engine_service_poll(t)
  PROVE  ThreadInv'
<1>1. /\ \/ transfers' = transfers
         \/ transfers' = [transfers EXCEPT ![work_list[t][item[t]]] = FALSE]
      /\ UNCHANGED <<admin, whom, work_list, work_cnt, cmplthp, schedule, at,
                     submitter>>
  BY DEF Threads!engine_service_poll, Threads!lists
<1>2. /\ transfers' \in [Engines -> BOOLEAN]
      /\ \A e \in Engines : transfers'[e] => transfers[e]
  BY <1>1 DEF ThreadInv, ThreadsTyped
<1> QED
  BY <1>1, <1>2 DEF ThreadInv, ThreadsTyped, Assigned, Even, Awake, On

\* The other steps of a thread.
LEMMA Lemma_Thread ==
  ASSUME ThreadInv, NEW t \in Threads!Threads,
         Threads!xthread_reschedule(t) \/ Threads!Work(t) \/ Threads!Worked(t)
  PROVE  ThreadInv'
<1> USE DEF ThreadInv, ThreadsTyped, Assigned, Even, Awake, On,
        Threads!traffic, Threads!lists, Threads!Goes
<1>1. CASE Threads!xthread_reschedule(t)
  BY <1>1 DEF Threads!xthread_reschedule
<1>2. CASE Threads!Work(t)
  BY <1>2 DEF Threads!Work
<1>3. CASE Threads!Worked(t)
  BY <1>3 DEF Threads!Worked
<1> QED
  BY <1>1, <1>2, <1>3

\* A step that is none keeps the invariant.
LEMMA Lemma_Stutter == ThreadInv /\ UNCHANGED Threads!vars => ThreadInv'
BY DEF ThreadInv, ThreadsTyped, Assigned, Even, Awake, On, Threads!vars,
   Threads!traffic, Threads!lists

\* No step assigns an engine twice, or lets a thread sleep on a transfer.
LEMMA ThreadStep ==
  Threads!SomeThreads /\ ThreadInv /\ [Threads!Next]_(Threads!vars) => ThreadInv'
BY Lemma_Add, Lemma_Forget, Lemma_Removed, Lemma_Admin, Lemma_Submit,
   Lemma_Look, Lemma_Poll, Lemma_Thread, Lemma_Stutter DEF Threads!Next

\* What the invariant says is what is promised.
LEMMA Lemma_Promised ==
  ASSUME ThreadInv, Threads!SomeThreads
  PROVE  Threads!TypeOK /\ Threads!NobodySleepsOn
<1>1. Threads!TypeOK
  BY DEF ThreadInv, ThreadsTyped, Threads!TypeOK
<1>2. ASSUME NEW e \in Engines
      PROVE  Cardinality(Threads!OnList(e)) <= 1
  <2>1. \A t, u \in Threads!OnList(e) : t = u
    BY Lemma_ThreadLists DEF Threads!OnList, ThreadInv, ThreadsTyped, Assigned,
       On, Threads!Threads, Threads!SomeThreads
  <2>2. Threads!OnList(e) = {}
          \/ \E t \in Threads!OnList(e) : Threads!OnList(e) = {t}
    BY <2>1
  <2>3. Cardinality(Threads!OnList(e)) \in {0, 1}
    BY <2>2, FS_EmptySet, FS_Singleton
  <2> QED
    BY <2>3
<1>3. Threads!NobodySleepsOn
  BY <1>2, Lemma_ThreadLists
     DEF Threads!NobodySleepsOn, ThreadInv, Assigned, Even, Awake
<1> QED
  BY <1>1, <1>3

-----------------------------------------------------------------------------
(* The theorems, about every part at once.                                 *)

\* What each part keeps.
StreamsInv == Cam!CamInv /\ ThreadInv /\ DaemonInv

\* A step of the whole is a step of each part, or none.
LEMMA Lemma_Parts ==
  [Next]_vars =>
    /\ [Cam!Next]_(Cam!vars) /\ [Threads!Next]_(Threads!vars)
    /\ [Daemon!Next]_(Daemon!vars)
BY DEF Next, vars, ofCam, ofThreads, ofDaemon, Cam!vars, Threads!vars,
       Threads!traffic, Threads!lists, Daemon!vars, Daemon!app,
       Daemon!tasks, Daemon!src

\* So the invariants of the parts are one of the whole.
LEMMA Lemma_Invariant == Spec => []StreamsInv
<1>1. Init => StreamsInv
  BY ConstantsFit, Cam!Lemma_Init, Lemma_ThreadInit, Lemma_DaemonInit
     DEF Init, StreamsInv
<1>2. StreamsInv /\ [Next]_vars => StreamsInv'
  <2> SUFFICES ASSUME StreamsInv, [Next]_vars PROVE StreamsInv'
    OBVIOUS
  <2>1. Cam!CamInv'
    BY Lemma_Parts, ConstantsFit, Cam!CamStep DEF StreamsInv
  <2>2. ThreadInv'
    BY Lemma_Parts, ConstantsFit, ThreadStep DEF StreamsInv
  <2>3. DaemonInv'
    BY Lemma_Parts, DaemonStep DEF StreamsInv
  <2> QED
    BY <2>1, <2>2, <2>3 DEF StreamsInv
<1> QED
  BY <1>1, <1>2, PTL DEF Spec

\* Every variable keeps its type: no count leaves its range.
THEOREM TypesKept == Spec => []TypeOK
<1>1. StreamsInv => TypeOK
  BY ConstantsFit, Cam!Lemma_TypeOK, Lemma_Promised, Lemma_DaemonTypeOK
     DEF StreamsInv, TypeOK
<1> QED
  BY <1>1, Lemma_Invariant, PTL

\* qvcam has each buffer it was given on its list once, in the hand of a thread
\* or lost to a signal, whatever the devices do at the same time.
THEOREM BuffersAccounted == Spec => []Accounted
<1>1. StreamsInv => Accounted
  BY Cam!Lemma_Accounted DEF StreamsInv, Accounted
<1> QED
  BY <1>1, Lemma_Invariant, PTL

\* When akvcam_buffers_stop_streaming has returned, no thread runs and no buffer
\* is with the driver but what a signal lost.
THEOREM StopsQuiet == Spec => []QuietAfterStop
<1>1. StreamsInv => QuietAfterStop
  BY Cam!Lemma_QuietAfterStop DEF StreamsInv, QuietAfterStop
<1> QED
  BY <1>1, Lemma_Invariant, PTL

\* No capture shows a frame that is older than one it has shown, whatever starts
\* and stops in between, and however many captures share the output.
THEOREM FramesForward == Spec => FramesInOrder
<1>1. StreamsInv /\ [Next]_vars =>
        [\A c \in Captures : shown'[c] >= shown[c]]_(Cam!vars)
  BY Lemma_Parts, ConstantsFit, Cam!CamStep DEF StreamsInv
<1> QED
  BY <1>1, Lemma_Invariant, PTL DEF Spec, FramesInOrder, Cam!FramesInOrder

\* No completion thread of the poll mode sleeps through a transfer it was woken
\* for, and the engines are spread evenly over the threads.
THEOREM ThreadsWake == Spec => []NobodySleepsOn
<1>1. StreamsInv => NobodySleepsOn
  BY ConstantsFit, Lemma_Promised DEF StreamsInv, NobodySleepsOn
<1> QED
  BY <1>1, Lemma_Invariant, PTL

\* The daemon's deferred tasks run once and in order, each has its token, and
\* none is left when Stop returns.
THEOREM TasksRun == Spec => []TasksOnce
<1>1. StreamsInv => TasksOnce
  BY Lemma_TasksOnce DEF StreamsInv
<1> QED
  BY <1>1, Lemma_Invariant, PTL

\* Each deferred task finds what the task before it must leave, however long the
\* tasks lag behind the calls that caused them, and whether a map fails or not:
\* until a wait is interrupted, no thread is started over a thread, and none is
\* joined that was not started.
THEOREM TasksMeet == Spec => []TasksFit
<1>1. StreamsInv => TasksFit
  BY Lemma_TasksFit DEF StreamsInv
<1> QED
  BY <1>1, Lemma_Invariant, PTL
=============================================================================
