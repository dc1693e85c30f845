------------------------------ MODULE UserJob -------------------------------
(***************************************************************************)
(* The user-job channel of qvio (user_job.c): a V4L2 ioctl that needs user *)
(* space to do something posts a job and waits for a done entry; a daemon  *)
(* (samples/04_qviod) selects on a file descriptor, GETs the job, handles  *)
(* it and answers with DONE.                                               *)
(*                                                                         *)
(* The only operation the driver calls is qvio_user_job_s_fmt, from        *)
(* VIDIOC_S_FMT, which holds device_mutex (vdev->lock) until it returns.   *)
(* The other operations of user_job.c differ in the id they post.  A       *)
(* daemon needs the same mutex to obtain its descriptor.                   *)
(***************************************************************************)
EXTENDS Integers, Sequences, FiniteSets

CONSTANTS
  Callers,     \* threads that call VIDIOC_S_FMT
  Daemons,     \* daemons, one thread each
  Opened,      \* the daemons that have their descriptor from the start
  MayQuit,     \* may a daemon leave (q on its stdin) and come back?
  SeqMod,      \* 2^16, the sequence is a __u16
  MaxSignals,  \* bound: waits that are interrupted
  MaxFailures, \* bound: GETs and DONEs that fail once they have the job
  None         \* nobody holds device_mutex; a daemon without a job

ASSUME NoneIsNone == None \notin Callers \cup Daemons
ASSUME FinitelyMany == IsFiniteSet(Callers) /\ IsFiniteSet(Daemons)
ASSUME OpenedDaemons == Opened \subseteq Daemons
ASSUME Bounds ==
  SeqMod \in Nat \ {0} /\ MaxSignals \in Nat /\ MaxFailures \in Nat
ASSUME MayQuitBoolean == MayQuit \in BOOLEAN

VARIABLES
  enable,        \* self->enable, set once by the probe
  device_mutex,  \* the caller inside video_ioctl2
  cpc,           \* where each caller is
  mine,          \* the sequence number of the caller's job
  sequence,      \* self->sequence
  job_list,      \* self->job_list
  done_list,     \* self->done_list
  dpc,           \* where each daemon is
  held,          \* the job the daemon got and has not answered
  interrupted,   \* history: how many waits were interrupted
  lost,          \* history: jobs whose GET or DONE failed
  corrupt        \* a GET took an entry off an empty list: nothing is known of
                 \* the kernel any more, and no step is taken

callerVars == <<device_mutex, cpc, mine, sequence, interrupted>>
mishaps == <<lost, corrupt>>
daemonVars == <<dpc, held, mishaps>>
vars == <<enable, callerVars, daemonVars, job_list, done_list>>

Jobs == [sequence : 0 .. SeqMod - 1, owner : Callers]

Init ==
  /\ enable \in BOOLEAN
  /\ device_mutex = None
  /\ cpc = [c \in Callers |-> "idle"]
  /\ mine = [c \in Callers |-> 0]
  /\ sequence = 0
  /\ job_list = << >> /\ done_list = << >>
  /\ dpc = [d \in Daemons |-> IF d \in Opened THEN "select" ELSE "closed"]
  /\ held = [d \in Daemons |-> None]
  /\ interrupted = 0
  /\ lost = 0 /\ corrupt = FALSE

-----------------------------------------------------------------------------
(* The caller.                                                             *)

Move(c, from, to) ==
  ~corrupt /\ cpc[c] = from /\ cpc' = [cpc EXCEPT ![c] = to]

\* The ioctl returns: qvio_video_s_fmt only warns of an error.
Leave(c, from) == Move(c, from, "idle") /\ device_mutex' = None

\* Whether a new ioctl may enter; the mutant lets it in always.
MutexIgnored == TRUE
MutexFree == device_mutex = None

\* video_ioctl2 takes vdev->lock.
Enter(c) ==
  /\ MutexFree
  /\ Move(c, "idle", "entered")
  /\ device_mutex' = c
  /\ UNCHANGED <<enable, mine, sequence, interrupted, daemonVars, job_list,
                 done_list>>

\* The channel is disabled, or no entry could be allocated: no job is posted.
PostNothing(c) ==
  /\ Leave(c, "entered")
  /\ UNCHANGED <<enable, mine, sequence, interrupted, daemonVars, job_list,
                 done_list>>

\* atomic_inc_return(&self->sequence), as a __u16; without the cast (a mutant).
SequenceNotCast == sequence + 1
NextSequence == (sequence + 1) % SeqMod

Number(c) ==
  /\ enable
  /\ Move(c, "entered", "numbered")
  /\ sequence' = NextSequence
  /\ mine' = [mine EXCEPT ![c] = sequence']
  /\ UNCHANGED <<enable, device_mutex, interrupted, daemonVars, job_list,
                 done_list>>

\* __do_user_job: list_add_tail under job_list_lock; the mutant adds in front.
PutFirst(list, job) == <<job>> \o list
PutLast(list, job) == Append(list, job)

DoUserJob(c) ==
  /\ Move(c, "numbered", "wait")
  /\ job_list' = PutLast(job_list, [sequence |-> mine[c], owner |-> c])
  /\ UNCHANGED <<enable, device_mutex, mine, sequence, interrupted, daemonVars,
                 done_list>>

\* wait_event_interruptible finds an answer.
Woken(c) ==
  /\ Move(c, "wait", "woken")
  /\ done_list # << >>
  /\ UNCHANGED <<enable, device_mutex, mine, sequence, interrupted, daemonVars,
                 job_list, done_list>>

\* A signal ends the wait; the condition is looked at before the signal.  The
\* job stays where it is.
Interrupted(c) ==
  /\ Leave(c, "wait")
  /\ done_list = << >>
  /\ interrupted < MaxSignals /\ interrupted' = interrupted + 1
  /\ UNCHANGED <<enable, mine, sequence, daemonVars, job_list, done_list>>

\* The list is looked at again, without its lock.
RecheckDone(c) ==
  /\ Move(c, "woken", "pop")
  /\ done_list # << >>
  /\ UNCHANGED <<enable, device_mutex, mine, sequence, interrupted, daemonVars,
                 job_list, done_list>>

\* list_del of the first entry; the mutant leaves it on the list.
RestKept(list) == list
Rest(list) == Tail(list)

\* Under done_list_lock the first entry is taken, whoever's answer it is.
PopDone(c) ==
  /\ Leave(c, "pop")
  /\ done_list # << >>
  /\ done_list' = Rest(done_list)
  /\ UNCHANGED <<enable, mine, sequence, interrupted, daemonVars, job_list>>

-----------------------------------------------------------------------------
(* The daemon.                                                             *)

Turn(d, from, to) ==
  ~corrupt /\ dpc[d] = from /\ dpc' = [dpc EXCEPT ![d] = to]

\* QVID_IOC_USER_JOB_FD is an ioctl of the video device.
OpenFd(d) ==
  /\ MutexFree
  /\ Turn(d, "closed", "select")
  /\ UNCHANGED <<enable, callerVars, held, mishaps, job_list, done_list>>

\* __file_poll: a job is there; the mutant looks at the other list.
PollDone == done_list # << >>
Readable == job_list # << >>

\* select returns: the descriptor is readable.
Select(d) ==
  /\ Turn(d, "select", "get")
  /\ Readable
  /\ UNCHANGED <<enable, callerVars, held, mishaps, job_list, done_list>>

\* q on stdin ends the daemon between two jobs.
Quit(d) ==
  /\ MayQuit
  /\ Turn(d, "select", "closed")
  /\ UNCHANGED <<enable, callerVars, held, mishaps, job_list, done_list>>

\* __ioctl_user_job_get looks at the list without its lock.
GetCheck(d) ==
  /\ Turn(d, "get", "pop")
  /\ job_list # << >>
  /\ UNCHANGED <<enable, callerVars, held, mishaps, job_list, done_list>>

\* The list is empty: GET fails and the daemon ends.
GetFails(d) ==
  /\ Turn(d, "get", "closed")
  /\ job_list = << >>
  /\ UNCHANGED <<enable, callerVars, held, mishaps, job_list, done_list>>

\* Under job_list_lock the first job is taken and the lock is released;
\* copy_to_user hands it out.
PopJob(d) ==
  /\ Turn(d, "pop", "handle")
  /\ job_list # << >>
  /\ held' = [held EXCEPT ![d] = Head(job_list)]
  /\ job_list' = Rest(job_list)
  /\ UNCHANGED <<enable, callerVars, mishaps, done_list>>

\* The list is not looked at again under its lock: when another GET has emptied
\* it, list_first_entry makes an entry up from the head of the list, and that
\* is deleted and freed.
PopMadeUp(d) ==
  /\ ~corrupt /\ corrupt' = TRUE
  /\ dpc[d] = "pop" /\ job_list = << >>
  /\ UNCHANGED <<enable, callerVars, dpc, held, lost, job_list, done_list>>

\* copy_to_user fails, the job is freed all the same; the daemon ends.
GetCopyFails(d) ==
  /\ Turn(d, "pop", "closed")
  /\ job_list # << >> /\ job_list' = Rest(job_list)
  /\ lost < MaxFailures /\ lost' = lost + 1
  /\ UNCHANGED <<enable, callerVars, held, corrupt, done_list>>

\* QVID_IOC_USER_JOB_DONE: the answer carries the sequence of the job.
Done(d) ==
  /\ Turn(d, "handle", "select")
  /\ done_list' = PutLast(done_list, held[d])
  /\ held' = [held EXCEPT ![d] = None]
  /\ UNCHANGED <<enable, callerVars, mishaps, job_list>>

\* DONE has no memory for the entry, or copy_from_user fails; the daemon ends,
\* as one does that dies with a job, and the job is not answered.
DoneFails(d) ==
  /\ Turn(d, "handle", "closed")
  /\ held' = [held EXCEPT ![d] = None]
  /\ lost < MaxFailures /\ lost' = lost + 1
  /\ UNCHANGED <<enable, callerVars, corrupt, job_list, done_list>>

-----------------------------------------------------------------------------
Post(c) == Number(c) \/ DoUserJob(c)
Wait(c) == Woken(c) \/ RecheckDone(c) \/ PopDone(c)
Serve(d) == Select(d) \/ GetCheck(d) \/ GetFails(d) \/ PopJob(d) \/ Done(d)
Fail(d) == PopMadeUp(d) \/ GetCopyFails(d) \/ DoneFails(d)

Next ==
  \/ \E c \in Callers : Enter(c) \/ PostNothing(c) \/ Post(c) \/ Wait(c)
                          \/ Interrupted(c)
  \/ \E d \in Daemons : OpenFd(d) \/ Quit(d) \/ Serve(d) \/ Fail(d)

Spec == Init /\ [][Next]_vars

\* A caller inside the ioctl goes on, a daemon with a descriptor serves; a
\* kernel mutex is handed to a waiter in the end.
Fairness ==
  /\ \A c \in Callers : /\ WF_vars(PostNothing(c) \/ Post(c) \/ Wait(c))
                        /\ SF_vars(Enter(c))
  /\ \A d \in Daemons : WF_vars(Serve(d))

FairSpec == Spec /\ Fairness

-----------------------------------------------------------------------------
(* Properties.                                                             *)

\* The types of the variables.
TypeOK ==
  /\ enable \in BOOLEAN
  /\ device_mutex \in Callers \cup {None}
  /\ cpc \in [Callers -> {"idle", "entered", "numbered", "wait", "woken",
                          "pop"}]
  /\ mine \in [Callers -> 0 .. SeqMod - 1]
  /\ sequence \in 0 .. SeqMod - 1
  /\ job_list \in Seq(Jobs) /\ done_list \in Seq(Jobs)
  /\ dpc \in [Daemons -> {"closed", "select", "get", "pop", "handle"}]
  /\ held \in [Daemons -> Jobs \cup {None}]
  /\ interrupted \in Nat /\ lost \in 0 .. MaxFailures
  /\ corrupt \in BOOLEAN

Waiting == {c \in Callers : cpc[c] \in {"wait", "woken", "pop"}}
Handling == {d \in Daemons : dpc[d] = "handle"}

\* Jobs and answers are neither made up nor lost, but by the GETs and DONEs
\* that fail: what is under way in the channel, and what those lost, is one
\* entry per waiting caller and one surplus entry per wait that was
\* interrupted, which nothing ever removes.  So a caller whose job was lost
\* waits on, and one that is interrupted leaves its answer to the others.  This
\* is so until two GETs meet at the last job (GetHasJob).
JobsConserved ==
  ~corrupt =>
    Len(job_list) + Cardinality(Handling) + Len(done_list) + lost
      = Cardinality(Waiting) + interrupted

\* No GET takes an entry off an empty list, as its look at the list is meant to
\* see to.
GetHasJob == ~corrupt

\* Neither __wait_for_user_job_done nor __ioctl_user_job_get takes the first
\* entry of an empty list, though both look at the list before they lock it.
PopNonEmpty ==
  /\ \A c \in Callers : cpc[c] \in {"woken", "pop"} => done_list # << >>
  /\ \A d \in Daemons : dpc[d] \in {"get", "pop"} => job_list # << >>

\* The answer a caller takes is the answer to its own job.
OwnAnswer ==
  \A c \in Callers : cpc[c] = "pop" =>
    /\ done_list # << >>
    /\ Head(done_list) = [sequence |-> mine[c], owner |-> c]

\* Every interrupted wait shifts the answers of all later callers by one: a
\* caller takes the answer to the job posted that many jobs before its own, as
\* long as no job was lost.
AnswerLag ==
  \A c \in Callers : cpc[c] = "pop" /\ lost = 0 =>
    /\ done_list # << >>
    /\ Head(done_list).sequence = (mine[c] - interrupted) % SeqMod

\* Every job that is posted is answered and its caller returns, and so every
\* VIDIOC_S_FMT that begins is finished.
EveryCallReturns ==
  \A c \in Callers : cpc[c] # "idle" ~> cpc[c] = "idle"
=============================================================================
