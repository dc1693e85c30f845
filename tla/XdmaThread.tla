----------------------------- MODULE XdmaThread -----------------------------
(***************************************************************************)
(* The completion threads of libxdma's poll mode: threads are created with *)
(* the first device, each engine is assigned to one, who submits a         *)
(* transfer wakes the thread of its engine, and the thread polls the       *)
(* engines it has for what they have completed.  wakeup takes no lock.     *)
(***************************************************************************)
EXTENDS Naturals, Sequences, FiniteSets, SequencesExt

CONSTANTS Engines, ThreadCnt \* the threads: one per processor at most

Threads == 1 .. ThreadCnt
\* Assumed of the constants.
SomeThreads == ThreadCnt \in Nat \ {0}

VARIABLES
  admin,      \* what opening and closing of devices is at
  whom,       \* the engine, or the thread, it is at
  work_list,  \* the engines of each thread
  work_cnt,
  cmplthp,    \* the thread of each engine, 0 is NULL
  schedule,   \* thp->schedule
  stopping,   \* kthread_stop was called for it
  at,         \* what each thread is at; "none" before it is started
  item,       \* where in its list it is at work
  transfers,  \* the engine has a transfer on its list
  submitter   \* of each engine: "idle", "queued", "waiting"

lists == <<work_list, work_cnt, cmplthp>>
traffic == <<transfers, submitter>>
vars == <<admin, whom, lists, schedule, stopping, at, item, traffic>>

Init ==
  /\ admin = "closed" /\ whom = 0
  /\ work_list = [t \in Threads |-> << >>] /\ work_cnt = [t \in Threads |-> 0]
  /\ cmplthp = [e \in Engines |-> 0]
  /\ schedule = [t \in Threads |-> FALSE]
  /\ stopping = [t \in Threads |-> FALSE]
  /\ at = [t \in Threads |-> "none"] /\ item = [t \in Threads |-> 1]
  /\ transfers = [e \in Engines |-> FALSE]
  /\ submitter = [e \in Engines |-> "idle"]

\* The spinlock of a thread: it holds it while it works.
Unlocked(t) == at[t] # "work"
OnList(e) == {t \in Threads : e \in ToSet(work_list[t])}

-----------------------------------------------------------------------------
(* Opening and closing.                                                    *)

xdma_threads_create ==
  /\ admin = "closed" /\ admin' = "adding"
  /\ at' = [t \in Threads |-> "check"]
  /\ UNCHANGED <<whom, lists, schedule, stopping, item, traffic>>

\* The walk over the threads: the first one without work but itself, or the
\* last that has less than the first one.
Idle == {t \in Threads \ {1} : work_cnt[t] = 0}
Chosen ==
  LET less == {t \in Threads \ {1} : work_cnt[t] < work_cnt[1]}
      first == CHOOSE t \in Idle : \A u \in Idle : t <= u
      before == IF Idle = {} THEN less ELSE {} IN
  IF Idle # {} THEN first
  ELSE IF before # {} THEN CHOOSE t \in before : \A u \in before : t >= u
  ELSE 1

xdma_thread_add_work(e) ==
  /\ admin = "adding" /\ OnList(e) = {} /\ Unlocked(Chosen)
  /\ work_list' = [work_list EXCEPT ![Chosen] = Append(@, e)]
  /\ work_cnt' = [work_cnt EXCEPT ![Chosen] = @ + 1]
  /\ cmplthp' = [cmplthp EXCEPT ![e] = Chosen]
  /\ UNCHANGED <<admin, whom, schedule, stopping, at, item, traffic>>

Opened ==
  /\ admin = "adding" /\ \A e \in Engines : OnList(e) # {}
  /\ admin' = "open"
  /\ UNCHANGED <<whom, lists, schedule, stopping, at, item, traffic>>

\* xdma_thread_remove_work, under the lock of the engine and then under that
\* of the thread.
Forget(e) ==
  /\ admin \in {"open", "closing"} /\ OnList(e) # {}
  /\ admin' = "removing" /\ whom' = cmplthp[e]
  /\ cmplthp' = [cmplthp EXCEPT ![e] = 0]
  /\ UNCHANGED <<work_list, work_cnt, schedule, stopping, at, item, traffic>>
Removed ==
  /\ admin = "removing" /\ admin' = "closing" /\ Unlocked(whom)
  /\ \E i \in DOMAIN work_list[whom] :
       /\ cmplthp[work_list[whom][i]] = 0
       /\ work_list' = [work_list EXCEPT ![whom] = RemoveAt(@, i)]
  /\ work_cnt' = [work_cnt EXCEPT ![whom] = @ - 1]
  /\ UNCHANGED <<whom, cmplthp, schedule, stopping, at, item, traffic>>

\* xdma_threads_destroy, one thread after the other: schedule, then the
\* request to stop, then the wait for the end.
Destroy ==
  /\ admin = "closing" /\ \A e \in Engines : OnList(e) = {}
  /\ admin' = "stop" /\ whom' = 1
  /\ schedule' = [schedule EXCEPT ![1] = TRUE]
  /\ UNCHANGED <<lists, stopping, at, item, traffic>>
xdma_kthread_stop ==
  /\ admin = "stop" /\ ~stopping[whom]
  /\ stopping' = [stopping EXCEPT ![whom] = TRUE]
  /\ UNCHANGED <<admin, whom, lists, schedule, at, item, traffic>>
OneMore == whom <= ThreadCnt \* a mutated form: one thread too many
More == whom < ThreadCnt
Stopped ==
  /\ admin = "stop" /\ at[whom] = "none"
  /\ IF More
       THEN /\ whom' = whom + 1 /\ schedule' = [schedule EXCEPT ![whom + 1] = TRUE]
            /\ UNCHANGED <<admin, stopping, transfers, submitter>>
       ELSE /\ admin' = "closed" /\ whom' = 0
            /\ schedule' = [t \in Threads |-> FALSE]
            /\ stopping' = [t \in Threads |-> FALSE]
            /\ transfers' = [e \in Engines |-> FALSE]
            /\ submitter' = [e \in Engines |-> "idle"]
  /\ UNCHANGED <<lists, at, item>>

-----------------------------------------------------------------------------
(* Submission: the transfer is queued, the thread woken, if there is one.  *)

transfer_queue(e) ==
  /\ admin = "open" /\ submitter[e] = "idle"
  /\ submitter' = [submitter EXCEPT ![e] = "queued"]
  /\ transfers' = [transfers EXCEPT ![e] = TRUE]
  /\ UNCHANGED <<admin, whom, lists, schedule, stopping, at, item>>
WokenOnly(e) == schedule \* a mutated form: the macro of the debug build
Signalled(e) == [t \in Threads |-> schedule[t] \/ cmplthp[e] = t]
xdma_kthread_wakeup(e) ==
  /\ submitter[e] = "queued"
  /\ submitter' = [submitter EXCEPT ![e] = "waiting"]
  /\ schedule' = Signalled(e)
  /\ UNCHANGED <<admin, whom, lists, stopping, at, item, transfers>>
\* The wait for the transfer: it ends with it, or after its time it takes the
\* transfer from the list.
Completed(e) ==
  /\ submitter[e] = "waiting"
  /\ submitter' = [submitter EXCEPT ![e] = "idle"]
  /\ transfers' = [transfers EXCEPT ![e] = FALSE]
  /\ UNCHANGED <<admin, whom, lists, schedule, stopping, at, item>>

-----------------------------------------------------------------------------
(* xthread_main.                                                           *)

Goes(t, to) == at' = [at EXCEPT ![t] = to]
Pending(t) == \E e \in ToSet(work_list[t]) : transfers[e]

\* Look for work; sleep if there is none.
xthread_work_pending(t) ==
  /\ at[t] = "check"
  /\ IF stopping[t] THEN Goes(t, "none")
     ELSE Goes(t, IF Pending(t) THEN "ready" ELSE "wait")
  /\ UNCHANGED <<admin, whom, lists, schedule, stopping, item, traffic>>

\* wait_event_interruptible: only schedule ends the wait.
xthread_reschedule(t) ==
  /\ at[t] = "wait" /\ schedule[t] /\ Goes(t, "ready")
  /\ UNCHANGED <<admin, whom, lists, schedule, stopping, item, traffic>>

\* With the lock: the engines one by one.
Work(t) ==
  /\ at[t] = "ready" /\ Goes(t, "work")
  /\ schedule' = [schedule EXCEPT ![t] = FALSE]
  /\ item' = [item EXCEPT ![t] = 1]
  /\ UNCHANGED <<admin, whom, lists, stopping, traffic>>

\* engine_service_poll waits for the descriptors of the first transfer, or
\* gives up.  An engine without transfers is polled all the same, for a count
\* that is not there; nothing comes of it.
engine_service_poll(t) ==
  /\ at[t] = "work" /\ item[t] <= Len(work_list[t])
  /\ \/ UNCHANGED transfers
     \/ transfers' = [transfers EXCEPT ![work_list[t][item[t]]] = FALSE]
  /\ item' = [item EXCEPT ![t] = @ + 1]
  /\ UNCHANGED <<admin, whom, lists, schedule, stopping, at, submitter>>
Worked(t) ==
  /\ at[t] = "work" /\ item[t] > Len(work_list[t]) /\ Goes(t, "check")
  /\ item' = [item EXCEPT ![t] = 1]
  /\ UNCHANGED <<admin, whom, lists, schedule, stopping, traffic>>

Next ==
  \/ xdma_threads_create \/ Opened \/ Removed
  \/ Destroy \/ xdma_kthread_stop \/ Stopped
  \/ \E e \in Engines :
       \/ xdma_thread_add_work(e) \/ Forget(e)
       \/ transfer_queue(e) \/ xdma_kthread_wakeup(e) \/ Completed(e)
  \/ \E t \in Threads :
       \/ xthread_work_pending(t) \/ xthread_reschedule(t) \/ Work(t)
       \/ engine_service_poll(t) \/ Worked(t)

Spec == Init /\ [][Next]_vars

-----------------------------------------------------------------------------
(* Properties.                                                             *)

TypeOK ==
  /\ admin \in {"closed", "adding", "open", "removing", "closing", "stop"}
  /\ whom \in 0 .. ThreadCnt
  /\ cmplthp \in [Engines -> 0 .. ThreadCnt]
  /\ \A t \in Threads : at[t] \in {"none", "check", "wait", "ready", "work"}
  /\ submitter \in [Engines -> {"idle", "queued", "waiting"}]

\* The engines are spread evenly, each on one thread's list; and a thread does
\* not sleep through a transfer whose submitter has woken it.
NobodySleepsOn ==
  /\ \A t \in Threads : work_cnt[t] = Len(work_list[t])
  /\ \A e \in Engines : Cardinality(OnList(e)) <= 1
  /\ admin \in {"adding", "open"} =>
       \A t, u \in Threads : work_cnt[t] <= work_cnt[u] + 1
  /\ \A t \in Threads : at[t] = "wait" /\ ~schedule[t] =>
       \A e \in Engines :
         cmplthp[e] = t /\ transfers[e] => submitter[e] = "queued"
=============================================================================
