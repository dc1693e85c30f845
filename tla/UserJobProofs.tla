---------------------------- MODULE UserJobProofs ---------------------------
(***************************************************************************)
(* Theorems about UserJob, for every set of callers and daemons, every     *)
(* width of the sequence and any number of interrupted waits, failed GETs  *)
(* and failed DONEs.                                                       *)
(***************************************************************************)
EXTENDS UserJob, FiniteSetTheorems, TLAPS

\* A caller is inside the ioctl exactly while it holds device_mutex, and a
\* daemon holds a job exactly while it handles one.
Exclusive ==
  /\ \A c \in Callers : cpc[c] # "idle" <=> device_mutex = c
  /\ \A d \in Daemons : dpc[d] = "handle" => held[d] \in Jobs

JobInv == TypeOK /\ Exclusive

-----------------------------------------------------------------------------
(* Types.                                                                  *)

\* The first entry of a list that is not empty is a job.
LEMMA Lemma_Head ==
  ASSUME NEW list \in Seq(Jobs), list # << >>
  PROVE  Head(list) \in Jobs /\ Rest(list) \in Seq(Jobs)
BY DEF Rest

\* list_add_tail keeps the type of a list.
LEMMA Lemma_PutLast ==
  ASSUME NEW list \in Seq(Jobs), NEW job \in Jobs
  PROVE  PutLast(list, job) \in Seq(Jobs)
BY DEF PutLast

\* The sequence stays a __u16.
LEMMA Lemma_Sequence ==
  ASSUME sequence \in 0 .. SeqMod - 1
  PROVE  NextSequence \in 0 .. SeqMod - 1
BY Bounds DEF NextSequence

\* The invariant holds initially.
LEMMA Lemma_Init == Init => JobInv
<1> SUFFICES ASSUME Init PROVE JobInv
  OBVIOUS
<1>1. lost \in 0 .. MaxFailures /\ sequence \in 0 .. SeqMod - 1
  BY Bounds DEF Init
<1>2. mine \in [Callers -> 0 .. SeqMod - 1]
  BY Bounds DEF Init
<1>3. corrupt \in BOOLEAN
  BY Zenon DEF Init
<1> QED
  BY <1>1, <1>2, <1>3, NoneIsNone DEF Init, JobInv, TypeOK, Exclusive

\* Every step of a caller keeps the invariant.
LEMMA Lemma_Caller ==
  ASSUME JobInv, NEW c \in Callers,
         Enter(c) \/ PostNothing(c) \/ Post(c) \/ Wait(c) \/ Interrupted(c)
  PROVE  JobInv'
<1> USE DEF JobInv, Move, Leave, daemonVars, mishaps
<1>1. CASE Enter(c)
  BY <1>1, NoneIsNone DEF Enter, MutexFree, TypeOK, Exclusive
<1>2. CASE PostNothing(c)
  BY <1>2, NoneIsNone DEF PostNothing, TypeOK, Exclusive
<1>3. CASE Number(c)
  <2>1. mine' \in [Callers -> 0 .. SeqMod - 1] /\ sequence' \in 0 .. SeqMod - 1
    BY <1>3, Lemma_Sequence DEF Number, TypeOK
  <2> QED
    BY <1>3, <2>1 DEF Number, TypeOK, Exclusive
<1>4. CASE DoUserJob(c)
  <2>1. [sequence |-> mine[c], owner |-> c] \in Jobs
    BY DEF TypeOK, Jobs
  <2>2. job_list' \in Seq(Jobs)
    BY <1>4, <2>1, Lemma_PutLast DEF DoUserJob, TypeOK
  <2> QED
    BY <1>4, <2>2 DEF DoUserJob, TypeOK, Exclusive
<1>5. CASE Woken(c)
  BY <1>5 DEF Woken, TypeOK, Exclusive
<1>6. CASE RecheckDone(c)
  BY <1>6 DEF RecheckDone, TypeOK, Exclusive
<1>7. CASE PopDone(c)
  <2>1. done_list' \in Seq(Jobs)
    BY <1>7, Lemma_Head DEF PopDone, TypeOK
  <2> QED
    BY <1>7, <2>1, NoneIsNone DEF PopDone, TypeOK, Exclusive
<1>8. CASE Interrupted(c)
  BY <1>8, NoneIsNone DEF Interrupted, TypeOK, Exclusive
<1> QED
  BY <1>1, <1>2, <1>3, <1>4, <1>5, <1>6, <1>7, <1>8 DEF Post, Wait

\* Every step of a daemon keeps the invariant.
LEMMA Lemma_Daemon ==
  ASSUME JobInv, NEW d \in Daemons,
         OpenFd(d) \/ Quit(d) \/ Serve(d) \/ Fail(d)
  PROVE  JobInv'
<1> USE DEF JobInv, Turn, callerVars, mishaps
<1>1. CASE OpenFd(d)
  BY <1>1 DEF OpenFd, TypeOK, Exclusive
<1>2. CASE Quit(d)
  BY <1>2 DEF Quit, TypeOK, Exclusive
<1>3. CASE Select(d)
  BY <1>3 DEF Select, TypeOK, Exclusive
<1>4. CASE GetCheck(d)
  BY <1>4 DEF GetCheck, TypeOK, Exclusive
<1>5. CASE GetFails(d)
  BY <1>5 DEF GetFails, TypeOK, Exclusive
<1>6. CASE PopJob(d)
  <2>1. Head(job_list) \in Jobs /\ job_list' \in Seq(Jobs)
    BY <1>6, Lemma_Head DEF PopJob, TypeOK
  <2> QED
    BY <1>6, <2>1 DEF PopJob, TypeOK, Exclusive
<1>7. CASE Done(d)
  <2>1. done_list' \in Seq(Jobs)
    BY <1>7, Lemma_PutLast DEF Done, TypeOK, Exclusive
  <2> QED
    BY <1>7, <2>1 DEF Done, TypeOK, Exclusive
<1>8. CASE PopMadeUp(d)
  BY <1>8 DEF PopMadeUp, TypeOK, Exclusive
<1>9. CASE GetCopyFails(d)
  <2>1. job_list' \in Seq(Jobs)
    BY <1>9, Lemma_Head DEF GetCopyFails, TypeOK
  <2>2. lost' \in 0 .. MaxFailures
    BY <1>9, Bounds DEF GetCopyFails, TypeOK
  <2> QED
    BY <1>9, <2>1, <2>2 DEF GetCopyFails, TypeOK, Exclusive
<1>10. CASE DoneFails(d)
  <2>1. lost' \in 0 .. MaxFailures
    BY <1>10, Bounds DEF DoneFails, TypeOK
  <2> QED
    BY <1>10, <2>1 DEF DoneFails, TypeOK, Exclusive
<1> QED
  BY <1>1, <1>2, <1>3, <1>4, <1>5, <1>6, <1>7, <1>8, <1>9, <1>10
     DEF Serve, Fail

\* The types and the exclusion hold in every reachable state.
THEOREM JobInvariant == Spec => []JobInv
<1>1. JobInv /\ [Next]_vars => JobInv'
  <2> SUFFICES ASSUME JobInv, [Next]_vars PROVE JobInv'
    OBVIOUS
  <2>1. CASE UNCHANGED vars
    BY <2>1
       DEF JobInv, TypeOK, Exclusive, vars, callerVars, daemonVars, mishaps
  <2> QED
    BY <2>1, Lemma_Caller, Lemma_Daemon DEF Next
<1> QED
  BY <1>1, Lemma_Init, PTL DEF Spec

\* Every variable keeps its type: what a caller waits for and what a daemon
\* answers is a job that was posted, with a sequence of 16 bits.
THEOREM TypeCorrect == Spec => []TypeOK
<1>1. JobInv => TypeOK
  BY DEF JobInv
<1> QED
  BY <1>1, JobInvariant, PTL

-----------------------------------------------------------------------------
(* Conservation of jobs and answers.                                       *)

\* Both sets are finite: their sizes can be counted.
LEMMA Lemma_Finite ==
  /\ IsFiniteSet(Waiting) /\ Cardinality(Waiting) \in Nat
  /\ IsFiniteSet(Handling) /\ Cardinality(Handling) \in Nat
<1>1. Waiting \subseteq Callers /\ Handling \subseteq Daemons
  BY DEF Waiting, Handling
<1> QED
  BY <1>1, FinitelyMany, FS_Subset, FS_CardinalityType

\* A caller that starts or ends its wait is one more or one less waiting.
LEMMA Lemma_Waiting ==
  ASSUME NEW c \in Callers
  PROVE  /\ Waiting' = Waiting \cup {c} /\ c \notin Waiting =>
              Cardinality(Waiting') = Cardinality(Waiting) + 1
         /\ Waiting' = Waiting \ {c} /\ c \in Waiting =>
              Cardinality(Waiting') = Cardinality(Waiting) - 1
BY Lemma_Finite, FS_AddElement, FS_RemoveElement

\* So it is with a daemon that takes or answers a job.
LEMMA Lemma_Handling ==
  ASSUME NEW d \in Daemons
  PROVE  /\ Handling' = Handling \cup {d} /\ d \notin Handling =>
              Cardinality(Handling') = Cardinality(Handling) + 1
         /\ Handling' = Handling \ {d} /\ d \in Handling =>
              Cardinality(Handling') = Cardinality(Handling) - 1
BY Lemma_Finite, FS_AddElement, FS_RemoveElement

\* Appending makes a list one longer, taking its first entry one shorter.
LEMMA Lemma_Len ==
  /\ \A list \in Seq(Jobs), job \in Jobs : Len(PutLast(list, job)) = Len(list) + 1
  /\ \A list \in Seq(Jobs) : list # << >> => Len(Rest(list)) = Len(list) - 1
  /\ \A list \in Seq(Jobs) : Len(list) \in Nat
BY DEF PutLast, Rest

\* What JobsConserved says as long as the job list is sound.
Balanced ==
  Len(job_list) + Cardinality(Handling) + Len(done_list) + lost
    = Cardinality(Waiting) + interrupted

\* One more on either side, or moved from one place to another, leaves it so.
LEMMA Lemma_Sums ==
  ASSUME NEW j \in Nat, NEW h \in Nat, NEW a \in Nat, NEW n \in Nat,
         NEW w \in Nat, NEW i \in Nat,
         j + h + a + n = w + i
  PROVE  /\ (j + 1) + h + a + n = (w + 1) + i
         /\ j + h + (a - 1) + n = (w - 1) + i
         /\ j + h + a + n = (w - 1) + (i + 1)
         /\ (j - 1) + (h + 1) + a + n = w + i
         /\ j + (h - 1) + (a + 1) + n = w + i
         /\ (j - 1) + h + a + (n + 1) = w + i
         /\ j + (h - 1) + a + (n + 1) = w + i
OBVIOUS

\* So it is with the counts of the channel.
LEMMA Lemma_Moved ==
  ASSUME JobInv, Balanced
  PROVE  LET j == Len(job_list)
             h == Cardinality(Handling)
             a == Len(done_list)
             w == Cardinality(Waiting)
             i == interrupted IN
         /\ (j + 1) + h + a + lost = (w + 1) + i
         /\ j + h + (a - 1) + lost = (w - 1) + i
         /\ j + h + a + lost = (w - 1) + (i + 1)
         /\ (j - 1) + (h + 1) + a + lost = w + i
         /\ j + (h - 1) + (a + 1) + lost = w + i
         /\ (j - 1) + h + a + (lost + 1) = w + i
         /\ j + (h - 1) + a + (lost + 1) = w + i
<1> DEFINE j == Len(job_list)
           h == Cardinality(Handling)
           a == Len(done_list)
           w == Cardinality(Waiting)
           i == interrupted
<1>1. j \in Nat /\ a \in Nat /\ i \in Nat /\ lost \in Nat
  BY Lemma_Len, Bounds DEF JobInv, TypeOK
<1>2. w \in Nat /\ h \in Nat
  BY Lemma_Finite
<1>3. j + h + a + lost = w + i
  BY DEF Balanced
<1> HIDE DEF j, h, a, w, i
<1>4. /\ (j + 1) + h + a + lost = (w + 1) + i
      /\ j + h + (a - 1) + lost = (w - 1) + i
      /\ j + h + a + lost = (w - 1) + (i + 1)
      /\ (j - 1) + (h + 1) + a + lost = w + i
      /\ j + (h - 1) + (a + 1) + lost = w + i
      /\ (j - 1) + h + a + (lost + 1) = w + i
      /\ j + (h - 1) + a + (lost + 1) = w + i
  BY <1>1, <1>2, <1>3, Lemma_Sums
<1> QED
  BY <1>4, Zenon DEF j, h, a, w, i

\* A caller puts a job on the way as it starts to wait, and takes an answer off
\* it as it ends, or leaves one behind for good.
LEMMA Lemma_CallerConserves ==
  ASSUME JobInv, JobsConserved, NEW c \in Callers,
         Enter(c) \/ PostNothing(c) \/ Post(c) \/ Wait(c) \/ Interrupted(c)
  PROVE  JobsConserved'
<1> USE DEF Move, daemonVars, mishaps
<1>sound. ~corrupt /\ UNCHANGED mishaps
  BY DEF Enter, PostNothing, Post, Number, DoUserJob, Wait, Woken, RecheckDone,
         PopDone, Interrupted, Leave
<1>before. Balanced
  BY <1>sound, Zenon DEF JobsConserved, Balanced
<1> SUFFICES Balanced'
  BY Zenon DEF JobsConserved, Balanced
<1> HIDE DEF mishaps
<1>typed. /\ job_list \in Seq(Jobs) /\ done_list \in Seq(Jobs)
      /\ mine[c] \in 0 .. SeqMod - 1
  BY DEF JobInv, TypeOK
<1>moved. LET j == Len(job_list)
              h == Cardinality(Handling)
              a == Len(done_list)
              w == Cardinality(Waiting)
              i == interrupted IN
          /\ (j + 1) + h + a + lost = (w + 1) + i
          /\ j + h + (a - 1) + lost = (w - 1) + i
          /\ j + h + a + lost = (w - 1) + (i + 1)
  BY <1>before, Lemma_Moved, Zenon
<1>lost. lost' = lost
  BY <1>sound DEF mishaps
<1>1. Handling' = Handling
  BY DEF Handling, Enter, PostNothing, Post, Number, DoUserJob, Wait, Woken,
         RecheckDone, PopDone, Interrupted
<1>handled. Cardinality(Handling') = Cardinality(Handling)
  BY <1>1
<1>2. CASE Enter(c) \/ PostNothing(c) \/ Number(c) \/ Woken(c) \/ RecheckDone(c)
  <2>1. Waiting' = Waiting
    BY <1>2 DEF JobInv, TypeOK, Waiting, Enter, PostNothing, Number, Woken, RecheckDone, Leave
  <2>2. UNCHANGED <<job_list, done_list, interrupted>>
    BY <1>2 DEF Enter, PostNothing, Number, Woken, RecheckDone, Leave
  <2> QED
    BY <1>1, <2>1, <2>2, <1>lost, <1>before DEF Balanced
<1>3. CASE DoUserJob(c)
  <2>1. Waiting' = Waiting \cup {c} /\ c \notin Waiting
    BY <1>3 DEF JobInv, TypeOK, Waiting, DoUserJob
  <2>2. [sequence |-> mine[c], owner |-> c] \in Jobs
    BY <1>typed DEF Jobs
  <2>3. Len(job_list') = Len(job_list) + 1
    BY <1>typed, <1>3, <2>2, Lemma_Len DEF DoUserJob
  <2>4. Cardinality(Waiting') = Cardinality(Waiting) + 1
    BY <2>1, Lemma_Waiting
  <2>5. Len(done_list') = Len(done_list) /\ interrupted' = interrupted
    BY <1>3 DEF DoUserJob
  <2> QED
    BY <1>handled, <2>3, <2>4, <2>5, <1>moved, <1>lost, Zenon DEF Balanced
<1>4. CASE PopDone(c)
  <2>1. Waiting' = Waiting \ {c} /\ c \in Waiting
    BY <1>4 DEF JobInv, TypeOK, Waiting, PopDone, Leave
  <2>2. Len(done_list') = Len(done_list) - 1
    BY <1>typed, <1>4, Lemma_Len DEF PopDone
  <2>4. Cardinality(Waiting') = Cardinality(Waiting) - 1
    BY <2>1, Lemma_Waiting
  <2>5. Len(job_list') = Len(job_list) /\ interrupted' = interrupted
    BY <1>4 DEF PopDone, Leave
  <2> QED
    BY <1>handled, <2>2, <2>4, <2>5, <1>moved, <1>lost, Zenon DEF Balanced
<1>5. CASE Interrupted(c)
  <2>1. Waiting' = Waiting \ {c} /\ c \in Waiting
    BY <1>5 DEF JobInv, TypeOK, Waiting, Interrupted, Leave
  <2>4. Cardinality(Waiting') = Cardinality(Waiting) - 1
    BY <2>1, Lemma_Waiting
  <2>5. interrupted' = interrupted + 1
    BY <1>5 DEF Interrupted, Leave
  <2>6. Len(job_list') = Len(job_list) /\ Len(done_list') = Len(done_list)
    BY <1>5 DEF Interrupted, Leave
  <2> QED
    BY <1>handled, <2>4, <2>5, <2>6, <1>moved, <1>lost, Zenon DEF Balanced
<1> QED
  BY <1>2, <1>3, <1>4, <1>5 DEF Post, Wait

\* A daemon moves jobs along, or loses one.
LEMMA Lemma_DaemonConserves ==
  ASSUME JobInv, JobsConserved, NEW d \in Daemons,
         OpenFd(d) \/ Quit(d) \/ Serve(d) \/ Fail(d)
  PROVE  JobsConserved'
<1> USE DEF Turn, callerVars, mishaps
<1>sound. ~corrupt
  BY DEF OpenFd, Quit, Serve, Select, GetCheck, GetFails, PopJob, Done, Fail,
         PopMadeUp, GetCopyFails, DoneFails
<1>before. Balanced
  BY <1>sound, Zenon DEF JobsConserved, Balanced
<1> SUFFICES Balanced'
  BY Zenon DEF JobsConserved, Balanced
<1>typed. job_list \in Seq(Jobs) /\ done_list \in Seq(Jobs)
  BY DEF JobInv, TypeOK
<1>moved. LET j == Len(job_list)
              h == Cardinality(Handling)
              a == Len(done_list)
              w == Cardinality(Waiting)
              i == interrupted IN
          /\ (j - 1) + (h + 1) + a + lost = w + i
          /\ j + (h - 1) + (a + 1) + lost = w + i
          /\ (j - 1) + h + a + (lost + 1) = w + i
          /\ j + (h - 1) + a + (lost + 1) = w + i
  BY <1>before, Lemma_Moved, Zenon
<1>1. Waiting' = Waiting /\ interrupted' = interrupted
  BY DEF Waiting, OpenFd, Quit, Serve, Select, GetCheck, GetFails, PopJob, Done,
         Fail, PopMadeUp, GetCopyFails, DoneFails
<1>waiting. Cardinality(Waiting') = Cardinality(Waiting)
  BY <1>1
<1>2. CASE OpenFd(d) \/ Quit(d) \/ Select(d) \/ GetCheck(d) \/ GetFails(d)
  <2>1. Handling' = Handling
    BY <1>2 DEF JobInv, TypeOK, Handling, OpenFd, Quit, Select, GetCheck, GetFails
  <2>2. UNCHANGED <<job_list, done_list, mishaps>>
    BY <1>2 DEF OpenFd, Quit, Select, GetCheck, GetFails
  <2> QED
    BY <1>1, <2>1, <2>2, <1>before DEF Balanced
<1>3. CASE PopJob(d)
  <2>1. Handling' = Handling \cup {d} /\ d \notin Handling
    BY <1>3 DEF JobInv, TypeOK, Handling, PopJob
  <2>2. Len(job_list') = Len(job_list) - 1
    BY <1>typed, <1>3, Lemma_Len DEF PopJob
  <2>4. Cardinality(Handling') = Cardinality(Handling) + 1
    BY <2>1, Lemma_Handling
  <2>5. Len(done_list') = Len(done_list) /\ lost' = lost
    BY <1>3 DEF PopJob, Leave
  <2> QED
    BY <1>1, <1>waiting, <2>2, <2>4, <2>5, <1>moved, Zenon DEF Balanced
<1>4. CASE Done(d)
  <2>1. Handling' = Handling \ {d} /\ d \in Handling
    BY <1>4 DEF JobInv, TypeOK, Handling, Done
  <2>2. Len(done_list') = Len(done_list) + 1
    BY <1>typed, <1>4, Lemma_Len DEF JobInv, Done, Exclusive
  <2>4. Cardinality(Handling') = Cardinality(Handling) - 1
    BY <2>1, Lemma_Handling
  <2>5. Len(job_list') = Len(job_list) /\ lost' = lost
    BY <1>4 DEF Done, Leave
  <2> QED
    BY <1>1, <1>waiting, <2>2, <2>4, <2>5, <1>moved, Zenon DEF Balanced
<1>5. CASE PopMadeUp(d)
  <2>1. Handling' = Handling
    BY <1>5 DEF Handling, PopMadeUp
  <2> QED
    BY <1>1, <1>5, <2>1, <1>before DEF PopMadeUp, Balanced
<1>6. CASE GetCopyFails(d)
  <2>1. Cardinality(Handling') = Cardinality(Handling)
    <3>1. Handling' = Handling
      BY <1>6 DEF JobInv, TypeOK, Handling, GetCopyFails
    <3> QED
      BY <3>1
  <2>2. Len(job_list') = Len(job_list) - 1
    BY <1>typed, <1>6, Lemma_Len DEF GetCopyFails
  <2>3. lost' = lost + 1 /\ Len(done_list') = Len(done_list)
    BY <1>6 DEF GetCopyFails
  <2> QED
    BY <1>1, <1>waiting, <2>1, <2>2, <2>3, <1>moved, Zenon DEF Balanced
<1>7. CASE DoneFails(d)
  <2>1. Handling' = Handling \ {d} /\ d \in Handling
    BY <1>7 DEF JobInv, TypeOK, Handling, DoneFails
  <2>2. Cardinality(Handling') = Cardinality(Handling) - 1
    BY <2>1, Lemma_Handling
  <2>3. lost' = lost + 1 /\ Len(job_list') = Len(job_list)
        /\ Len(done_list') = Len(done_list)
    BY <1>7 DEF DoneFails
  <2> QED
    BY <1>1, <1>waiting, <2>2, <2>3, <1>moved, Zenon DEF Balanced
<1> QED
  BY <1>2, <1>3, <1>4, <1>5, <1>6, <1>7 DEF Serve, Fail

\* For any number of callers, daemons, signals and failures, until two GETs
\* meet at the last job: no job and no answer is made up, only the GETs and
\* DONEs that fail lose one, and every interrupted wait leaves exactly one
\* entry in the channel.
THEOREM Conservation == Spec => []JobsConserved
<1>1. Init => JobsConserved
  <2> SUFFICES ASSUME Init PROVE JobsConserved
    OBVIOUS
  <2>1. Waiting = {} /\ Handling = {}
    BY DEF Init, Waiting, Handling
  <2>2. Cardinality(Waiting) = 0 /\ Cardinality(Handling) = 0
    BY <2>1, FS_EmptySet
  <2>3. /\ Len(job_list) = 0 /\ Len(done_list) = 0
        /\ interrupted = 0 /\ lost = 0
    BY DEF Init
  <2> QED
    BY <2>2, <2>3 DEF JobsConserved
<1>2. JobInv /\ JobsConserved /\ [Next]_vars => JobsConserved'
  <2> SUFFICES ASSUME JobInv, JobsConserved, [Next]_vars PROVE JobsConserved'
    OBVIOUS
  <2>1. CASE UNCHANGED vars
    BY <2>1
       DEF JobsConserved, Waiting, Handling, vars, callerVars, daemonVars, mishaps
  <2> QED
    BY <2>1, Lemma_CallerConserves, Lemma_DaemonConserves DEF Next
<1> QED
  BY <1>1, <1>2, JobInvariant, PTL DEF Spec

-----------------------------------------------------------------------------
(* Looking at a list before it is locked.                                  *)

\* There is one daemon, as nothing keeps two from the same entry.
OneDaemon == \A d, e \in Daemons : d = e

\* A caller or a daemon that saw its list filled still finds it so: the mutex
\* of the device leaves one caller inside, and there is one daemon.
LEMMA Lemma_PopNonEmpty ==
  ASSUME OneDaemon, JobInv, PopNonEmpty, [Next]_vars
  PROVE  PopNonEmpty'
<1> USE DEF Move, Leave, Turn, callerVars, daemonVars, mishaps
<1>typed. /\ job_list \in Seq(Jobs) /\ done_list \in Seq(Jobs)
          /\ DOMAIN cpc = Callers /\ DOMAIN dpc = Daemons
  BY DEF JobInv, TypeOK
<1>put. \A list \in Seq(Jobs), job \in Jobs : PutLast(list, job) # << >>
  BY Lemma_Len
<1>1. CASE UNCHANGED vars
  BY <1>1 DEF PopNonEmpty, vars
<1>2. ASSUME NEW c \in Callers,
             Enter(c) \/ PostNothing(c) \/ Post(c) \/ Wait(c) \/ Interrupted(c)
      PROVE  PopNonEmpty'
  <2>1. CASE Enter(c) \/ PostNothing(c) \/ Number(c) \/ Interrupted(c)
    BY <1>typed, <2>1 DEF PopNonEmpty, Enter, PostNothing, Number, Interrupted
  <2>2. CASE DoUserJob(c)
    <3>1. [sequence |-> mine[c], owner |-> c] \in Jobs
      BY DEF JobInv, TypeOK, Jobs
    <3>2. job_list' # << >>
      BY <1>typed, <1>put, <2>2, <3>1 DEF DoUserJob
    <3> QED
      BY <1>typed, <2>2, <3>2 DEF PopNonEmpty, DoUserJob
  <2>3. CASE Woken(c) \/ RecheckDone(c)
    BY <1>typed, <2>3 DEF PopNonEmpty, Woken, RecheckDone
  <2>4. CASE PopDone(c)
    <3>1. \A e \in Callers : cpc[e] # "idle" => e = c
      BY <2>4 DEF PopDone, JobInv, Exclusive
    <3> QED
      BY <1>typed, <2>4, <3>1 DEF PopNonEmpty, PopDone
  <2> QED
    BY <1>2, <2>1, <2>2, <2>3, <2>4 DEF Post, Wait
<1>3. ASSUME NEW d \in Daemons, OpenFd(d) \/ Quit(d) \/ Serve(d) \/ Fail(d)
      PROVE  PopNonEmpty'
  <2>1. CASE OpenFd(d) \/ Quit(d) \/ GetFails(d)
    BY <1>typed, <2>1 DEF PopNonEmpty, OpenFd, Quit, GetFails
  <2>2. CASE Select(d) \/ GetCheck(d)
    BY <1>typed, <2>2 DEF PopNonEmpty, Select, GetCheck, Readable
  <2>3. CASE PopJob(d)
    BY <1>typed, <2>3 DEF PopNonEmpty, PopJob, OneDaemon
  <2>5. CASE PopMadeUp(d)
    BY <2>5 DEF PopNonEmpty, PopMadeUp
  <2>6. CASE GetCopyFails(d)
    BY <1>typed, <2>6 DEF PopNonEmpty, GetCopyFails, OneDaemon
  <2>7. CASE DoneFails(d)
    BY <1>typed, <2>7 DEF PopNonEmpty, DoneFails
  <2>4. CASE Done(d)
    <3>1. held[d] \in Jobs
      BY <2>4 DEF Done, JobInv, Exclusive
    <3>2. done_list' # << >>
      BY <1>typed, <1>put, <2>4, <3>1 DEF Done
    <3> QED
      BY <1>typed, <2>4, <3>2 DEF PopNonEmpty, Done
  <2> QED
    BY <1>3, <2>1, <2>2, <2>3, <2>4, <2>5, <2>6, <2>7 DEF Serve, Fail
<1> QED
  BY <1>1, <1>2, <1>3 DEF Next

\* With one daemon no entry is taken from an empty list, though both readers
\* look at their list before they lock it.
THEOREM NeverPopsEmpty ==
  ASSUME OneDaemon
  PROVE  Spec => []PopNonEmpty
<1>1. Init => PopNonEmpty
  BY DEF Init, PopNonEmpty
<1>2. JobInv /\ PopNonEmpty /\ [Next]_vars => PopNonEmpty'
  BY Lemma_PopNonEmpty
<1> QED
  BY <1>1, <1>2, JobInvariant, PTL DEF Spec

\* And so no GET makes a job up from the head of the list, which with a second
\* daemon happens.
THEOREM GetsHaveJobs ==
  ASSUME OneDaemon
  PROVE  Spec => []GetHasJob
<1>1. Init => GetHasJob
  BY DEF Init, GetHasJob
<1>2. PopNonEmpty /\ GetHasJob /\ [Next]_vars => GetHasJob'
  <2> SUFFICES ASSUME PopNonEmpty, GetHasJob, [Next]_vars
      PROVE corrupt' = corrupt
    BY DEF GetHasJob
  <2> USE DEF callerVars, daemonVars, mishaps
  <2>1. CASE UNCHANGED vars
    BY <2>1 DEF vars
  <2>2. ASSUME NEW c \in Callers,
               Enter(c) \/ PostNothing(c) \/ Post(c) \/ Wait(c) \/ Interrupted(c)
        PROVE  corrupt' = corrupt
    BY <2>2 DEF Enter, PostNothing, Post, Number, DoUserJob, Wait, Woken,
                RecheckDone, PopDone, Interrupted
  <2>3. ASSUME NEW d \in Daemons, OpenFd(d) \/ Quit(d) \/ Serve(d) \/ Fail(d)
        PROVE  corrupt' = corrupt
    BY <2>3 DEF OpenFd, Quit, Serve, Select, GetCheck, GetFails, PopJob, Done,
                Fail, PopMadeUp, GetCopyFails, DoneFails, PopNonEmpty
  <2> QED
    BY <2>1, <2>2, <2>3 DEF Next
<1> QED
  BY <1>1, <1>2, NeverPopsEmpty, PTL DEF Spec

-----------------------------------------------------------------------------
(* Which answer a caller takes.                                            *)

\* Division with remainder.
LEMMA Lemma_Division ==
  ASSUME NEW x \in Int
  PROVE  /\ x \div SeqMod \in Int /\ x % SeqMod \in 0 .. SeqMod - 1
         /\ x = SeqMod * (x \div SeqMod) + (x % SeqMod)
BY Bounds

\* A number below the modulus is its own remainder.
LEMMA Lemma_Below ==
  ASSUME NEW x \in 0 .. SeqMod - 1
  PROVE  x % SeqMod = x
BY Bounds

\* Zero is the only multiple of the modulus that is closer to zero than it.
LEMMA Lemma_SmallMultiple ==
  ASSUME NEW k \in Int, SeqMod * k < SeqMod, SeqMod * k > 0 - SeqMod
  PROVE  k = 0
<1>1. CASE k >= 1
  <2>1. SeqMod * k >= SeqMod
    BY <1>1, Bounds
  <2> QED
    BY <2>1, Bounds
<1>2. CASE k <= -1
  <2>1. SeqMod * k <= 0 - SeqMod
    BY <1>2, Bounds
  <2> QED
    BY <2>1, Bounds
<1> QED
  BY <1>1, <1>2

\* A multiple of the modulus does not change the remainder.
LEMMA Lemma_Remainder ==
  ASSUME NEW a \in Int, NEW b \in Int, NEW k \in Int, a = b + SeqMod * k
  PROVE  a % SeqMod = b % SeqMod
<1> DEFINE p == a \div SeqMod
           q == b \div SeqMod
<1>1. p \in Int /\ q \in Int /\ a % SeqMod \in Int /\ b % SeqMod \in Int
  BY Lemma_Division
<1>2. SeqMod * p + (a % SeqMod) = SeqMod * q + (b % SeqMod) + SeqMod * k
  BY Lemma_Division
<1>3. SeqMod * (q + k - p) = (a % SeqMod) - (b % SeqMod)
  BY <1>1, <1>2, Bounds
<1>4. /\ (a % SeqMod) - (b % SeqMod) < SeqMod
      /\ (a % SeqMod) - (b % SeqMod) > 0 - SeqMod
  BY Lemma_Division, Bounds
<1> HIDE DEF p, q
<1>5. q + k - p = 0
  BY <1>1, <1>3, <1>4, Lemma_SmallMultiple
<1>6. SeqMod * (q + k - p) = 0
  BY <1>5, Bounds
<1> QED
  BY <1>1, <1>3, <1>6

\* What lies back from the next number, or one less from this, is the same,
\* also where the counter wraps.
LEMMA Lemma_Wraps ==
  ASSUME sequence \in 0 .. SeqMod - 1, NEW n \in Int
  PROVE  (NextSequence - 1 - n) % SeqMod = (sequence - n) % SeqMod
<1>1. CASE sequence + 1 < SeqMod
  <2>1. NextSequence = sequence + 1
    BY <1>1, Bounds DEF NextSequence
  <2> QED
    BY <2>1
<1>2. CASE sequence + 1 = SeqMod
  <2>1. NextSequence = 0
    BY <1>2, Bounds DEF NextSequence
  <2>2. NextSequence - 1 - n = (sequence - n) + SeqMod * (-1)
    BY <1>2, <2>1, Bounds
  <2> QED
    BY <2>1, <2>2, Lemma_Remainder
<1> QED
  BY <1>1, <1>2, Bounds

\* The number of the last job that was posted: the caller that took a number
\* and has not posted its job has the next one.
Numbered == {c \in Callers : cpc[c] = "numbered"}
Posted == IF Numbered = {} THEN sequence ELSE sequence - 1

\* What is in the channel, from the last job back to the first answer, has the
\* numbers from the last one posted down.
JobsBefore == Len(job_list)
HeldBefore == JobsBefore + Cardinality(Handling)
Consecutive ==
  /\ \A i \in 1 .. Len(job_list) :
       job_list[i].sequence = (Posted - (Len(job_list) - i)) % SeqMod
  /\ \A d \in Handling : held[d].sequence = (Posted - JobsBefore) % SeqMod
  /\ \A i \in 1 .. Len(done_list) :
       done_list[i].sequence = (Posted - (HeldBefore + Len(done_list) - i)) % SeqMod
  /\ \A c \in Callers : cpc[c] \in {"numbered", "wait", "woken", "pop"} =>
       mine[c] = sequence

\* So it is until a job is lost.
LagInv ==
  /\ JobInv /\ JobsConserved /\ PopNonEmpty /\ GetHasJob
  /\ lost = 0 => Consecutive

\* At most one caller is inside, at most one daemon handles a job.
LEMMA Lemma_One ==
  ASSUME OneDaemon, JobInv
  PROVE  /\ \A c, e \in Callers : cpc[c] # "idle" /\ cpc[e] # "idle" => c = e
         /\ \A d \in Handling : Handling = {d} /\ Cardinality(Handling) = 1
         /\ Handling = {} => Cardinality(Handling) = 0
         /\ \A c \in Waiting : Waiting = {c} /\ Cardinality(Waiting) = 1
<1>1. \A c, e \in Callers : cpc[c] # "idle" /\ cpc[e] # "idle" => c = e
  BY DEF JobInv, Exclusive
<1>2. \A d \in Handling : Handling = {d}
  BY DEF OneDaemon, Handling
<1>3. \A c \in Waiting : Waiting = {c}
  BY <1>1 DEF Waiting
<1> QED
  BY <1>1, <1>2, <1>3, FS_Singleton, FS_EmptySet

\* What the steps below need to know of the types.
LEMMA Lemma_Typed ==
  ASSUME JobInv
  PROVE  /\ job_list \in Seq(Jobs) /\ done_list \in Seq(Jobs)
         /\ Len(job_list) \in Nat /\ Len(done_list) \in Nat
         /\ DOMAIN cpc = Callers /\ DOMAIN dpc = Daemons
         /\ DOMAIN mine = Callers /\ DOMAIN held = Daemons
         /\ sequence \in 0 .. SeqMod - 1
         /\ \A c \in Callers : mine[c] \in 0 .. SeqMod - 1
         /\ Cardinality(Handling) \in Nat /\ interrupted \in Nat
BY Lemma_Len, Lemma_Finite DEF JobInv, TypeOK

\* The numbers stay consecutive when a caller takes the next one: the one
\* before it is that of the last job posted.
LEMMA Lemma_NumberLag ==
  ASSUME OneDaemon, LagInv, lost = 0, NEW c \in Callers, Number(c)
  PROVE  Consecutive'
<1> USE DEF Number, Move, daemonVars, mishaps
<1>typed. JobInv
  BY DEF LagInv
<1>1. Numbered = {} /\ Numbered' = {c}
  BY <1>typed, Lemma_One, Lemma_Typed DEF Numbered
<1>2. Posted = sequence /\ Posted' = NextSequence - 1
  BY <1>1 DEF Posted
<1>3. \A n \in Int : (Posted' - n) % SeqMod = (Posted - n) % SeqMod
  BY <1>typed, <1>2, Lemma_Wraps, Lemma_Typed
<1>4. /\ Handling' = Handling /\ held' = held /\ job_list' = job_list
      /\ done_list' = done_list
  BY DEF Handling
<1>5. \A e \in Callers : cpc'[e] # "idle" => e = c
  BY <1>typed, Lemma_One, Lemma_Typed
<1>6. mine'[c] = sequence'
  BY <1>typed, Lemma_Typed
<1>7. JobsBefore \in Int /\ HeldBefore \in Int
  BY <1>typed, Lemma_Typed DEF JobsBefore, HeldBefore
<1>8. /\ \A i \in 1 .. Len(job_list) : Len(job_list) - i \in Int
      /\ \A i \in 1 .. Len(done_list) : HeldBefore + Len(done_list) - i \in Int
  BY <1>typed, <1>7, Lemma_Typed
<1>9. JobsBefore' = JobsBefore /\ HeldBefore' = HeldBefore
  BY <1>4 DEF JobsBefore, HeldBefore
<1> QED
  BY <1>3, <1>4, <1>5, <1>6, <1>7, <1>8, <1>9 DEF LagInv, Consecutive

\* The job that is posted is the last one.
LEMMA Lemma_PostLag ==
  ASSUME OneDaemon, LagInv, lost = 0, NEW c \in Callers, DoUserJob(c)
  PROVE  Consecutive'
<1> USE DEF DoUserJob, Move, daemonVars, mishaps
<1>typed. JobInv
  BY DEF LagInv
<1> DEFINE job == [sequence |-> mine[c], owner |-> c]
           n == Len(job_list)
<1>1. Numbered = {c} /\ Numbered' = {}
  BY <1>typed, Lemma_One, Lemma_Typed DEF Numbered
<1>2. Posted = sequence - 1 /\ Posted' = sequence
  BY <1>1 DEF Posted
<1>3. job \in Jobs /\ mine[c] = sequence
  BY <1>typed, Lemma_Typed DEF Jobs, LagInv, Consecutive
<1>4. /\ Len(job_list') = n + 1
      /\ \A i \in 1 .. n : job_list'[i] = job_list[i]
      /\ job_list'[n + 1] = job
  BY <1>typed, <1>3, Lemma_Typed DEF PutLast
<1>5. Handling' = Handling /\ held' = held /\ done_list' = done_list
  BY DEF Handling
<1>6. JobsBefore' = JobsBefore + 1 /\ HeldBefore' = HeldBefore + 1
  <2>1. Cardinality(Handling') = Cardinality(Handling)
    BY <1>5
  <2>2. Cardinality(Handling) \in Nat
    BY <1>typed, Lemma_Typed
  <2>3. n \in Nat
    BY <1>typed, Lemma_Typed
  <2>4. JobsBefore' = JobsBefore + 1
    BY <1>4 DEF JobsBefore
  <2> QED
    BY <2>1, <2>2, <2>3, <2>4 DEF JobsBefore, HeldBefore
<1>7. \A k \in Int : Posted' - (k + 1) = Posted - k
  BY <1>2, <1>typed, Lemma_Typed
<1>8. \A i \in 1 .. Len(job_list') :
        job_list'[i].sequence = (Posted' - (Len(job_list') - i)) % SeqMod
  <2> SUFFICES ASSUME NEW i \in 1 .. n + 1
      PROVE job_list'[i].sequence = (Posted' - (n + 1 - i)) % SeqMod
    BY <1>4
  <2>1. CASE i \in 1 .. n
    <3>1. job_list'[i].sequence = (Posted - (n - i)) % SeqMod
      BY <2>1, <1>4 DEF LagInv, Consecutive
    <3>2. Posted' - (n + 1 - i) = Posted - (n - i)
      BY <2>1, <1>2, <1>typed, Lemma_Typed
    <3> QED
      BY <3>1, <3>2
  <2>2. CASE i = n + 1
    <3>1. job_list'[i].sequence = sequence
      BY <1>3, <1>4, <2>2
    <3>2. Posted' - (n + 1 - i) = sequence
      BY <1>2, <2>2, <1>typed, Lemma_Typed
    <3>3. sequence % SeqMod = sequence
      BY <1>typed, Lemma_Typed, Lemma_Below
    <3> QED
      BY <3>1, <3>2, <3>3
  <2> QED
    BY <2>1, <2>2, <1>typed, Lemma_Typed
<1>9. \A d \in Handling' : held'[d].sequence = (Posted' - JobsBefore') % SeqMod
  <2> SUFFICES ASSUME NEW d \in Handling
      PROVE held[d].sequence = (Posted' - (JobsBefore + 1)) % SeqMod
    BY <1>5, <1>6
  <2>1. Posted' - (JobsBefore + 1) = Posted - JobsBefore
    BY <1>7, <1>typed, Lemma_Typed DEF JobsBefore
  <2> QED
    BY <2>1 DEF LagInv, Consecutive
<1>10. \A i \in 1 .. Len(done_list') :
         done_list'[i].sequence =
           (Posted' - (HeldBefore' + Len(done_list') - i)) % SeqMod
  <2> SUFFICES ASSUME NEW i \in 1 .. Len(done_list)
      PROVE done_list[i].sequence =
              (Posted' - (HeldBefore + 1 + Len(done_list) - i)) % SeqMod
    BY <1>5, <1>6
  <2>1. Posted' - (HeldBefore + 1 + Len(done_list) - i) =
          Posted - (HeldBefore + Len(done_list) - i)
    BY <1>2, <1>typed, Lemma_Typed DEF HeldBefore, JobsBefore
  <2> QED
    BY <2>1 DEF LagInv, Consecutive
<1>11. \A e \in Callers : cpc'[e] # "idle" => e = c
  BY <1>typed, Lemma_One, Lemma_Typed
<1> QED
  BY <1>3, <1>8, <1>9, <1>10, <1>11 DEF Consecutive

\* A step of a caller that leaves both lists alone keeps the numbers, and so
\* does the removal of the first answer.
LEMMA Lemma_CallerLag ==
  ASSUME OneDaemon, LagInv, lost = 0, NEW c \in Callers,
         Enter(c) \/ PostNothing(c) \/ Post(c) \/ Wait(c) \/ Interrupted(c)
  PROVE  Consecutive'
<1> USE DEF Move, Leave, daemonVars, mishaps
<1>typed. JobInv
  BY DEF LagInv
<1>1. CASE Enter(c) \/ PostNothing(c) \/ Woken(c) \/ RecheckDone(c) \/ Interrupted(c)
  <2> USE <1>1 DEF Enter, PostNothing, Woken, RecheckDone, Interrupted
  <2>1. Numbered' = Numbered
    BY <1>typed, Lemma_Typed DEF Numbered
  <2>2. UNCHANGED <<sequence, mine, job_list, done_list, held, dpc>>
    OBVIOUS
  <2>3. Handling' = Handling /\ Posted' = Posted
    BY <2>1, <2>2 DEF Handling, Posted
  <2>4. \A e \in Callers :
          cpc'[e] \in {"numbered", "wait", "woken", "pop"} =>
          cpc[e] \in {"numbered", "wait", "woken", "pop"}
    BY <1>typed, Lemma_Typed
  <2>5. JobsBefore' = JobsBefore /\ HeldBefore' = HeldBefore
    BY <2>2, <2>3 DEF JobsBefore, HeldBefore
  <2> HIDE <1>1
  <2> QED
    BY <2>2, <2>3, <2>4, <2>5 DEF LagInv, Consecutive
<1>2. CASE PopDone(c)
  <2> USE <1>2 DEF PopDone
  <2>1. Numbered' = Numbered
    BY <1>typed, Lemma_Typed DEF Numbered
  <2>2. UNCHANGED <<sequence, mine, job_list, held, dpc>>
    OBVIOUS
  <2>3. Handling' = Handling /\ Posted' = Posted
    BY <2>1, <2>2 DEF Handling, Posted
  <2>4. \A e \in Callers :
          cpc'[e] \in {"numbered", "wait", "woken", "pop"} =>
          cpc[e] \in {"numbered", "wait", "woken", "pop"}
    BY <1>typed, Lemma_Typed
  <2>5. JobsBefore' = JobsBefore /\ HeldBefore' = HeldBefore
    BY <2>2, <2>3 DEF JobsBefore, HeldBefore
  <2>6. /\ Len(done_list') = Len(done_list) - 1
        /\ \A i \in 1 .. Len(done_list) - 1 : done_list'[i] = done_list[i + 1]
    BY <1>typed, Lemma_Typed DEF Rest
  <2>7. \A i \in 1 .. Len(done_list') :
          done_list'[i].sequence =
            (Posted' - (HeldBefore' + Len(done_list') - i)) % SeqMod
    <3> SUFFICES ASSUME NEW i \in 1 .. Len(done_list) - 1
        PROVE done_list[i + 1].sequence =
                (Posted - (HeldBefore + (Len(done_list) - 1) - i)) % SeqMod
      BY <2>3, <2>5, <2>6
    <3>1. i + 1 \in 1 .. Len(done_list)
      BY <1>typed, Lemma_Typed
    <3>2. HeldBefore + (Len(done_list) - 1) - i =
            HeldBefore + Len(done_list) - (i + 1)
      BY <1>typed, Lemma_Typed DEF HeldBefore, JobsBefore
    <3> QED
      BY <3>1, <3>2 DEF LagInv, Consecutive
  <2> HIDE <1>2
  <2> QED
    BY <2>2, <2>3, <2>4, <2>5, <2>7 DEF LagInv, Consecutive
<1> QED
  BY <1>1, <1>2, Lemma_NumberLag, Lemma_PostLag DEF Post, Wait

\* The daemon takes the first job and makes it the last answer.
LEMMA Lemma_DaemonLag ==
  ASSUME OneDaemon, LagInv, lost = 0, NEW d \in Daemons,
         OpenFd(d) \/ Quit(d) \/ Serve(d)
  PROVE  Consecutive'
<1> USE DEF Turn, callerVars, mishaps
<1>typed. JobInv
  BY DEF LagInv
<1>caller. UNCHANGED <<sequence, mine, cpc>> /\ Posted' = Posted
  BY DEF OpenFd, Quit, Serve, Select, GetCheck, GetFails, PopJob, Done, Posted,
         Numbered
<1>1. CASE OpenFd(d) \/ Quit(d) \/ Select(d) \/ GetCheck(d) \/ GetFails(d)
  <2>1. UNCHANGED <<job_list, done_list, held>> /\ Handling' = Handling
    BY <1>1, <1>typed, Lemma_Typed
       DEF Handling, OpenFd, Quit, Select, GetCheck, GetFails
  <2>2. JobsBefore' = JobsBefore /\ HeldBefore' = HeldBefore
    BY <2>1 DEF JobsBefore, HeldBefore
  <2> QED
    BY <1>caller, <2>1, <2>2 DEF LagInv, Consecutive
<1>2. CASE PopJob(d)
  <2> DEFINE n == Len(job_list)
  <2>1. Handling = {} /\ Handling' = {d}
    BY <1>2, <1>typed, Lemma_Typed DEF Handling, PopJob, OneDaemon
  <2>2. Cardinality(Handling) = 0 /\ Cardinality(Handling') = 1
    BY <2>1, FS_EmptySet, FS_Singleton
  <2>3. /\ n \in Nat \ {0} /\ Len(job_list') = n - 1 /\ held'[d] = job_list[1]
        /\ \A i \in 1 .. n - 1 : job_list'[i] = job_list[i + 1]
        /\ done_list' = done_list
    BY <1>2, <1>typed, Lemma_Typed DEF PopJob, Rest
  <2>4. JobsBefore' = n - 1 /\ HeldBefore' = HeldBefore
    BY <2>2, <2>3, <1>typed, Lemma_Typed DEF JobsBefore, HeldBefore
  <2>5. \A i \in 1 .. Len(job_list') :
          job_list'[i].sequence = (Posted' - (Len(job_list') - i)) % SeqMod
    <3> SUFFICES ASSUME NEW i \in 1 .. n - 1
        PROVE job_list[i + 1].sequence = (Posted - ((n - 1) - i)) % SeqMod
      BY <2>3, <1>caller
    <3>1. i + 1 \in 1 .. n /\ (n - 1) - i = n - (i + 1)
      BY <2>3
    <3> QED
      BY <3>1 DEF LagInv, Consecutive
  <2>6. held'[d].sequence = (Posted' - JobsBefore') % SeqMod
    BY <2>3, <2>4, <1>caller DEF LagInv, Consecutive
  <2> QED
    BY <1>caller, <2>1, <2>3, <2>4, <2>5, <2>6 DEF LagInv, Consecutive
<1>3. CASE Done(d)
  <2> DEFINE n == Len(done_list)
  <2>1. Handling = {d} /\ Handling' = {}
    BY <1>3, <1>typed, Lemma_Typed DEF Handling, Done, OneDaemon
  <2>2. Cardinality(Handling) = 1 /\ Cardinality(Handling') = 0
    BY <2>1, FS_EmptySet, FS_Singleton
  <2>3. held[d] \in Jobs /\ job_list' = job_list
    BY <1>3, <1>typed DEF Done, JobInv, Exclusive
  <2>4. /\ Len(done_list') = n + 1 /\ done_list'[n + 1] = held[d]
        /\ \A i \in 1 .. n : done_list'[i] = done_list[i]
    BY <1>3, <2>3, <1>typed, Lemma_Typed DEF Done, PutLast
  <2>5. JobsBefore' = JobsBefore /\ HeldBefore = JobsBefore + 1 /\ HeldBefore' = JobsBefore
    BY <2>2, <2>3, <1>typed, Lemma_Typed DEF JobsBefore, HeldBefore
  <2>6. \A i \in 1 .. Len(done_list') :
          done_list'[i].sequence =
            (Posted' - (HeldBefore' + Len(done_list') - i)) % SeqMod
    <3> SUFFICES ASSUME NEW i \in 1 .. n + 1
        PROVE done_list'[i].sequence = (Posted - (JobsBefore + (n + 1) - i)) % SeqMod
      BY <2>4, <2>5, <1>caller
    <3>1. JobsBefore \in Nat /\ n \in Nat
      BY <1>typed, Lemma_Typed DEF JobsBefore
    <3>2. CASE i \in 1 .. n
      <4>1. JobsBefore + (n + 1) - i = HeldBefore + n - i
        BY <3>1, <2>5
      <4> QED
        BY <2>4, <3>2, <4>1 DEF LagInv, Consecutive
    <3>3. CASE i = n + 1
      <4>1. JobsBefore + (n + 1) - i = JobsBefore
        BY <3>1, <3>3
      <4> QED
        BY <2>1, <2>4, <3>3, <4>1 DEF LagInv, Consecutive
    <3> QED
      BY <3>1, <3>2, <3>3
  <2> QED
    BY <1>caller, <2>1, <2>3, <2>5, <2>6 DEF LagInv, Consecutive
<1> QED
  BY <1>1, <1>2, <1>3 DEF Serve

\* Nothing gets a lost job back.
LEMMA Lemma_Lost ==
  ASSUME JobInv, [Next]_vars, lost' = 0
  PROVE  lost = 0 /\ \A d \in Daemons : ~GetCopyFails(d) /\ ~DoneFails(d)
<1> USE DEF callerVars, daemonVars, mishaps
<1>1. lost \in Nat
  BY Bounds DEF JobInv, TypeOK
<1>2. lost' = lost \/ \E d \in Daemons : GetCopyFails(d) \/ DoneFails(d)
  <2>1. CASE UNCHANGED vars
    BY <2>1 DEF vars
  <2>2. ASSUME NEW c \in Callers,
               Enter(c) \/ PostNothing(c) \/ Post(c) \/ Wait(c) \/ Interrupted(c)
        PROVE  lost' = lost
    BY <2>2 DEF Enter, PostNothing, Post, Number, DoUserJob, Wait, Woken,
                RecheckDone, PopDone, Interrupted
  <2>3. ASSUME NEW d \in Daemons,
               OpenFd(d) \/ Quit(d) \/ Serve(d) \/ PopMadeUp(d)
        PROVE  lost' = lost
    BY <2>3 DEF OpenFd, Quit, Serve, Select, GetCheck, GetFails, PopJob, Done,
                PopMadeUp
  <2> QED
    BY <2>1, <2>2, <2>3 DEF Next, Fail
<1>3. \A d \in Daemons : GetCopyFails(d) \/ DoneFails(d) => lost' = lost + 1
  BY DEF GetCopyFails, DoneFails
<1> QED
  BY <1>1, <1>2, <1>3

\* A caller that is about to take an answer finds the one that as many jobs
\* before its own were posted as waits were interrupted.
LEMMA Lemma_Lag ==
  ASSUME OneDaemon, LagInv
  PROVE  AnswerLag
<1> SUFFICES ASSUME NEW c \in Callers, cpc[c] = "pop", lost = 0
    PROVE  /\ done_list # << >>
           /\ Head(done_list).sequence = (mine[c] - interrupted) % SeqMod
  BY DEF AnswerLag
<1>typed. JobInv
  BY DEF LagInv
<1>1. done_list # << >>
  BY DEF LagInv, PopNonEmpty
<1>2. Len(done_list) \in Nat \ {0} /\ Head(done_list) = done_list[1]
  BY <1>1, <1>typed, Lemma_Typed
<1>3. c \in Waiting /\ Cardinality(Waiting) = 1
  BY <1>typed, Lemma_One DEF Waiting
<1>4. HeldBefore + Len(done_list) - 1 = interrupted
  <2>1. Len(job_list) + Cardinality(Handling) + Len(done_list) = 1 + interrupted
    BY <1>3, <1>typed, Lemma_Typed DEF LagInv, JobsConserved, GetHasJob
  <2> QED
    BY <2>1, <1>typed, Lemma_Typed DEF HeldBefore, JobsBefore
<1>5. Numbered = {}
  BY <1>typed, Lemma_One DEF Numbered
<1>6. Posted = mine[c]
  BY <1>5 DEF Posted, LagInv, Consecutive
<1>7. done_list[1].sequence = (Posted - (HeldBefore + Len(done_list) - 1)) % SeqMod
  BY <1>2 DEF LagInv, Consecutive
<1> QED
  BY <1>1, <1>2, <1>4, <1>6, <1>7

\* With one daemon, and while no job is lost, a caller takes the answer to the
\* job posted that many jobs before its own as waits were interrupted, for
\* every width of the sequence and also where it wraps.
THEOREM AnswersLag ==
  ASSUME OneDaemon
  PROVE  Spec => []AnswerLag
<1>1. Init => Consecutive
  BY Lemma_One DEF Init, Consecutive, Handling
<1>2. LagInv /\ [Next]_vars => (lost = 0 => Consecutive)'
  <2> SUFFICES ASSUME LagInv, [Next]_vars, lost' = 0 PROVE Consecutive'
    OBVIOUS
  <2>lost. lost = 0 /\ \A d \in Daemons : ~GetCopyFails(d) /\ ~DoneFails(d)
    BY Lemma_Lost DEF LagInv
  <2>made. \A d \in Daemons : ~PopMadeUp(d)
    BY DEF LagInv, PopNonEmpty, PopMadeUp
  <2>1. CASE UNCHANGED vars
    <3>1. /\ UNCHANGED <<sequence, mine, cpc, job_list, done_list, held>>
          /\ Handling' = Handling /\ Posted' = Posted
      BY <2>1
         DEF vars, callerVars, daemonVars, mishaps, Handling, Posted, Numbered
    <3>2. JobsBefore' = JobsBefore /\ HeldBefore' = HeldBefore
      BY <3>1 DEF JobsBefore, HeldBefore
    <3> QED
      BY <2>lost, <3>1, <3>2 DEF LagInv, Consecutive
  <2> QED
    BY <2>1, <2>lost, <2>made, Lemma_CallerLag, Lemma_DaemonLag DEF Next, Fail
<1>3. LagInv => AnswerLag
  BY Lemma_Lag
<1> QED
  BY <1>1, <1>2, <1>3, JobInvariant, Conservation, NeverPopsEmpty,
     GetsHaveJobs, PTL
     DEF Spec, LagInv
=============================================================================
