----------------------------- MODULE XdmaEngine -----------------------------
(***************************************************************************)
(* One DMA engine of libxdma.c in interrupt mode (poll_mode = 0): the      *)
(* descriptor ring, the transfer list, the blocking submission             *)
(* (xdma_xfer_submit), the asynchronous one (xdma_xfer_submit_nowait with  *)
(* its io_done callback), the interrupt and its bottom half                *)
(* (engine_service_work), and the device going offline and online.         *)
(*                                                                         *)
(* A call is one buffer handed to the engine.  The calls of Sync are made  *)
(* by threads that wait; the calls of Async are made by start_streaming    *)
(* under the vb2 queue lock and end in io_done.  A call is repeated        *)
(* forever.  The hardware (hw, ring as it is read, the status register)    *)
(* is external: it is what the driver expects of it.                       *)
(***************************************************************************)
EXTENDS Integers, Sequences, Functions

CONSTANTS
  Sync,         \* calls of xdma_xfer_submit, one per calling thread
  Async,        \* calls of xdma_xfer_submit_nowait, one per buffer
  RingSize,     \* engine->desc_max: descriptors in the ring
  Sizes,        \* the numbers of descriptors a request has (sw_desc_cnt)
  MaxDesc,      \* bound: the largest of Sizes
  Timeouts,     \* the calls of Sync whose wait may end early (timeout, signal)
  EarlyErrors,  \* may the hardware fail before its first descriptor is done?
  HotPlug,      \* are xdma_device_offline and xdma_device_online called?
  None          \* nobody holds desc_lock; a zeroed descriptor

Calls == Sync \cup Async
Xfers == Calls \X (0 .. MaxDesc - 1)    \* <<r, k>> is req->tfer[k] of call r
Slots == 0 .. RingSize - 1

ASSUME CallsDisjoint == Sync \cap Async = {} /\ None \notin Calls
ASSUME SizesPositive == RingSize \in Nat \ {0} /\ MaxDesc \in Nat \ {0}
ASSUME SizesBounded == Sizes \subseteq 1 .. MaxDesc
ASSUME TimeoutsInSync == Timeouts \subseteq Sync
ASSUME SwitchesBoolean == EarlyErrors \in BOOLEAN /\ HotPlug \in BOOLEAN

\* The results of a call besides a number of descriptors transferred.
EIO == -5
EBUSY == -16
ERESTARTSYS == -512

VARIABLES
  pc,             \* where each call is
  req,            \* xdma_request_cb: sw_desc_cnt, sw_desc_idx, tfer_idx
  ret,            \* what the last call returned (io_done's size for Async)
  xfer,           \* xdma_transfer: state, first descriptor, desc_num, offset
  moved,          \* history: the descriptors of each transfer the hardware
                  \* executed while RUN was set
  list,           \* engine->transfer_list
  running,        \* engine->running
  shutdown,       \* ENGINE_SHUTDOWN_REQUEST in engine->shutdown
  desc_dequeued,  \* engine->desc_dequeued
  desc_idx,       \* engine->desc_idx
  ring,           \* the descriptors in coherent memory
  desc_lock,      \* engine->desc_lock: the call that holds it
  hw,             \* the hardware: busy, RUN bit, slot and descriptor fetched,
                  \* completed_desc_count, status register
  irq_on,         \* the handler is installed
  irq_mask,       \* interrupt_enable_mask of the engine
  work,           \* engine->work is scheduled
  svc,            \* engine_service in progress: it holds engine->lock
  adm             \* progress of xdma_device_offline / xdma_device_online

callVars == <<pc, req, ret>>
listVars == <<list, running, shutdown, desc_dequeued>>
ringVars == <<desc_idx, ring>>
irqVars  == <<irq_on, irq_mask, work>>
vars == <<callVars, xfer, moved, listVars, ringVars, desc_lock, hw, irqVars,
          svc, adm>>

\* desc_count is unsigned: 2^32, cut down to a size far above every count.
Wrap == 4096

NoReq  == [cnt |-> 0, idx |-> 0, tfer |-> 0]
NoXfer == [state |-> "NEW", first |-> 0, num |-> 0, off |-> 0]
NoSvc  == [at |-> "idle", err |-> FALSE, cnt |-> 0]
Online == "online"

Init ==
  /\ pc = [r \in Calls |-> "idle"]
  /\ req = [r \in Calls |-> NoReq]
  /\ ret = [r \in Calls |-> 0]
  /\ xfer = [t \in Xfers |-> NoXfer]
  /\ moved = [t \in Xfers |-> {}]
  /\ list = << >>
  /\ running = FALSE /\ shutdown = FALSE /\ desc_dequeued = 0
  /\ desc_idx = 0
  /\ ring = [s \in Slots |-> None]
  /\ desc_lock = None
  /\ hw = [busy |-> FALSE, run |-> FALSE, pos |-> 0, cur |-> None,
           count |-> 0, stat |-> "clear"]
  /\ irq_on = TRUE /\ irq_mask = TRUE /\ work = FALSE
  /\ svc = NoSvc
  /\ adm = Online

-----------------------------------------------------------------------------
(* The engine registers, as the driver writes them.                        *)

\* engine->lock is held across the steps of engine_service only; every other
\* critical section is one step.
LockFree == svc.at = "idle"

offline == adm # Online

\* RUN is written with the first descriptor of t, which the hardware fetches;
\* its count restarts at 0.
Started(h, x, t) ==
  [h EXCEPT !.busy = TRUE, !.run = TRUE, !.pos = x[t].first,
            !.cur = ring[x[t].first], !.count = 0]

\* RUN is cleared: a busy engine may still finish its current descriptor.
Stopped(h) == [h EXCEPT !.run = FALSE]

\* Mutant: the engine is started on the newest transfer.
engine_start_last(q, x, h) ==
  /\ running' = TRUE /\ shutdown' = FALSE /\ desc_dequeued' = 0
  /\ hw' = Started(h, x, q[Len(q)])

engine_start(q, x, h) ==
  /\ running' = TRUE /\ shutdown' = FALSE /\ desc_dequeued' = 0
  /\ hw' = Started(h, x, Head(q))

\* The slots of a transfer, which transfer_destroy zeroes (xdma_desc_done);
\* one too many is a mutant.
SlotsAndOneMore(x) == x.first .. x.first + x.num
SlotsOf(x) == x.first .. x.first + x.num - 1
Wiped(xs) == [s \in Slots |-> IF \E x \in xs : s \in SlotsOf(x)
                              THEN None ELSE ring[s]]

\* The request of r is freed, and its transfers with it.
FreeReq(r, x) ==
  /\ req' = [req EXCEPT ![r] = NoReq]
  /\ xfer' = [t \in Xfers |-> IF t[1] = r THEN NoXfer ELSE x[t]]
  /\ moved' = [t \in Xfers |-> IF t[1] = r THEN {} ELSE moved[t]]

Return(r, value) ==
  /\ pc' = [pc EXCEPT ![r] = "idle"]
  /\ ret' = [ret EXCEPT ![r] = value]

Goto(r, to) == pc' = [pc EXCEPT ![r] = to] /\ UNCHANGED ret

\* "as long as some data is processed, return the count"
DoneOr(done, error) == IF done > 0 THEN done ELSE error

-----------------------------------------------------------------------------
(* Submission.                                                             *)

\* The callers of nowait hold the vb2 queue lock until it returns.
SubmitterFree == \A a \in Async : pc[a] \notin {"init", "queue", "enqueue"}

\* xdma_xfer_submit and _nowait up to the request: refused while offline.
Submit(r) ==
  /\ pc[r] = "idle"
  /\ r \in Async => SubmitterFree
  /\ IF offline
     THEN Return(r, EBUSY) /\ UNCHANGED req
     ELSE /\ \E n \in Sizes : req' = [req EXCEPT ![r].cnt = n]
          /\ Goto(r, IF r \in Sync THEN "lock" ELSE "init")
  /\ UNCHANGED <<xfer, moved, listVars, ringVars, desc_lock, hw, irqVars, svc,
                 adm>>

\* mutex_lock(&engine->desc_lock)
LockDesc(r) ==
  /\ pc[r] = "lock" /\ desc_lock = None
  /\ desc_lock' = r
  /\ Goto(r, "init")
  /\ UNCHANGED <<req, xfer, moved, listVars, ringVars, hw, irqVars, svc, adm>>

\* The transfer a call builds: the blocking path reuses tfer[0].
Current(r) == <<r, IF r \in Sync THEN 0 ELSE req[r].tfer>>

\* How many descriptors transfer_init takes: what is left of the request, at
\* most the ring, and no further than the end of the ring.
InitCount(left) ==
  LET n == IF left < RingSize THEN left ELSE RingSize
  IN IF desc_idx + n >= RingSize THEN RingSize - desc_idx ELSE n

\* The next index after n descriptors, and without the modulus (for a mutant).
DescIdxNoWrap(n) == desc_idx + n
DescIdxAfter(n) == (desc_idx + n) % RingSize

\* transfer_init: take the next slots of the ring, whoever used them last, and
\* write the chain into them; the last one stops the engine.
TransferInit(r) ==
  LET t == Current(r)
      n == InitCount(req[r].cnt - req[r].idx)
  IN /\ pc[r] = "init" /\ LockFree
     /\ xfer' = [xfer EXCEPT ![t] = [state |-> "NEW", first |-> desc_idx,
                                     num |-> n, off |-> req[r].idx]]
     /\ moved' = [moved EXCEPT ![t] = {}]
     /\ ring' = [s \in Slots |->
                   IF s \in desc_idx .. desc_idx + n - 1
                   THEN [t |-> t, i |-> s - desc_idx,
                         stop |-> s = desc_idx + n - 1]
                   ELSE ring[s]]
     /\ desc_idx' = DescIdxAfter(n)
     /\ req' = [req EXCEPT ![r].idx = @ + n]
     /\ Goto(r, "queue")
     /\ UNCHANGED <<listVars, desc_lock, hw, irqVars, svc, adm>>

\* transfer_queue refuses.  The request is freed at once; a part of it queued
\* before stays on the list.
Refuse(r) ==
  LET sofar == xfer[Current(r)].off
  IN /\ Return(r, IF r \in Sync THEN DoneOr(sofar, EBUSY) ELSE EBUSY)
     /\ FreeReq(r, xfer)
     /\ desc_lock' = IF r \in Sync THEN None ELSE desc_lock

\* transfer_queue looks at the flag before it takes engine->lock.
CheckOffline(r) ==
  /\ pc[r] = "queue"
  /\ IF offline
     THEN Refuse(r)
     ELSE Goto(r, "enqueue") /\ UNCHANGED <<req, xfer, moved, desc_lock>>
  /\ UNCHANGED <<listVars, ringVars, hw, irqVars, svc, adm>>

\* Under the lock a shutdown request closes the queue; a mutant forgets it.
NeverClosed == FALSE
Closed == shutdown

QueueRefused(r) ==
  /\ pc[r] = "enqueue" /\ LockFree
  /\ Closed
  /\ Refuse(r)
  /\ UNCHANGED <<listVars, ringVars, hw, irqVars, svc, adm>>

\* list_add_tail, and list_add in its place (for a mutant).
AddHead(t) == <<t>> \o list
AddTail(t) == Append(list, t)

\* transfer_queue: append, and start the engine when it is idle.  A nowait
\* call goes on with the rest of the request, or returns -EIOCBQUEUED.
TransferQueue(r) ==
  LET t == Current(r)
      more == req[r].idx < req[r].cnt
  IN /\ pc[r] = "enqueue" /\ LockFree
     /\ ~ Closed
     /\ xfer' = [xfer EXCEPT ![t].state = "SUBMITTED"]
     /\ list' = AddTail(t)
     /\ IF running
        THEN UNCHANGED <<running, shutdown, desc_dequeued, hw>>
        ELSE engine_start(list', xfer, hw)
     /\ Goto(r, IF r \in Sync THEN "wait"
                ELSE IF more THEN "init" ELSE "flight")
     /\ req' = IF r \in Async /\ more THEN [req EXCEPT ![r].tfer = @ + 1]
               ELSE req
     /\ UNCHANGED <<moved, ringVars, desc_lock, irqVars, svc, adm>>

\* Results of a blocking call whose last transfer is x; the mutant counts a
\* failed transfer as done.
SyncResultUnchecked(x) == x.off + x.num
SyncResult(x) == IF x.state = "COMPLETED" THEN x.off + x.num
                 ELSE DoneOr(x.off, EIO)

\* The blocking call after its wait: the switch on the state of the transfer.
\* COMPLETED goes on with the rest of the request; FAILED gives up.
SyncDone(r) ==
  LET x == xfer[<<r, 0>>]
  IN /\ pc[r] = "wait" /\ LockFree
     /\ x.state \in {"COMPLETED", "FAILED"}
     /\ ring' = Wiped({x})
     /\ IF x.state = "COMPLETED" /\ req[r].idx < req[r].cnt
        THEN /\ Goto(r, "init")
             /\ UNCHANGED <<req, xfer, moved, desc_lock>>
        ELSE /\ Return(r, SyncResult(x))
             /\ FreeReq(r, xfer)
             /\ desc_lock' = None
     /\ UNCHANGED <<listVars, desc_idx, hw, irqVars, svc, adm>>

\* The list after transfer_abort, which takes the head off if it is t; the
\* mutant leaves it there.
ListKept(t) == list
ListWithout(t) ==
  IF list # << >> /\ Head(list) = t THEN Tail(list) ELSE list

\* The wait ended early and the transfer is still queued: transfer_abort takes
\* it off the list if it is the head, xdma_engine_stop stops the engine.
SyncAbort(r) ==
  LET t == <<r, 0>>
  IN /\ pc[r] = "wait" /\ r \in Timeouts /\ LockFree
     /\ xfer[t].state = "SUBMITTED"
     /\ list' = ListWithout(t)
     /\ running' = FALSE /\ hw' = Stopped(hw)
     /\ ring' = Wiped({xfer[t]})
     /\ Return(r, DoneOr(xfer[t].off, ERESTARTSYS))
     /\ FreeReq(r, xfer)
     /\ desc_lock' = None
     /\ UNCHANGED <<shutdown, desc_dequeued, desc_idx, irqVars, svc, adm>>

-----------------------------------------------------------------------------
(* The hardware.                                                           *)

\* An error in the status register hides nothing: it stays until it is read.
Raise(s) == IF hw.stat = "error" THEN "error" ELSE s

\* The hardware goes idle, in a state that leaves its count to be read.
Halted(h) == [h EXCEPT !.busy = FALSE, !.pos = 0, !.cur = None]

\* One descriptor is executed and the next one fetched.  The one that says
\* STOPPED ends the run and raises the completion status; so does, silently,
\* RUN having been cleared.
HwStep ==
  /\ hw.busy /\ hw.cur # None
  /\ LET d == hw.cur
         h == [hw EXCEPT !.count = @ + 1,
                         !.stat = IF d.stop THEN Raise("stopped") ELSE @]
     IN /\ moved' = IF hw.run THEN [moved EXCEPT ![d.t] = @ \cup {d.i}]
                   ELSE moved
        /\ hw' = IF d.stop \/ ~ hw.run
                 THEN Halted(h)
                 ELSE [h EXCEPT !.pos = @ + 1, !.cur = ring[hw.pos + 1]]
  /\ UNCHANGED <<callVars, xfer, listVars, ringVars, desc_lock, irqVars, svc,
                 adm>>

\* A descriptor fails (bus error, bad magic of a zeroed descriptor).
HwFault ==
  /\ hw.busy
  /\ EarlyErrors \/ hw.count > 0 \/ hw.cur = None
  /\ hw' = Halted([hw EXCEPT !.stat = "error"])
  /\ UNCHANGED <<callVars, xfer, moved, listVars, ringVars, desc_lock, irqVars,
                 svc, adm>>

\* The engine notices that RUN was cleared.
HwHalt ==
  /\ hw.busy /\ ~ hw.run
  /\ hw' = Halted(hw)
  /\ UNCHANGED <<callVars, xfer, moved, listVars, ringVars, desc_lock, irqVars,
                 svc, adm>>

-----------------------------------------------------------------------------
(* The interrupt and the bottom half.                                      *)

\* xdma_channel_irq: disable the interrupt of the engine, schedule the work.
ChannelIrq ==
  /\ irq_on /\ irq_mask /\ hw.stat # "clear"
  /\ irq_mask' = FALSE /\ work' = TRUE
  /\ UNCHANGED <<callVars, xfer, moved, listVars, ringVars, desc_lock, hw,
                 irq_on, svc, adm>>

\* Mutant: the interrupt is not enabled again.
ServiceEndsMasked == svc' = NoSvc /\ UNCHANGED irq_mask

\* engine_service returns and engine_service_work re-enables the interrupt.
ServiceEnds == svc' = NoSvc /\ irq_mask' = TRUE

\* engine_service, first part: nothing is serviced when the engine does not
\* run; otherwise the status is read and cleared, and an engine that is no
\* longer busy is shut down.
ServiceStatus ==
  /\ work /\ LockFree
  /\ work' = FALSE
  /\ IF running
     THEN /\ svc' = [NoSvc EXCEPT !.at = "count", !.err = hw.stat = "error"]
          /\ running' = hw.busy
          /\ hw' = [hw EXCEPT !.stat = "clear", !.run = @ /\ hw.busy]
          /\ UNCHANGED irq_mask
     ELSE /\ hw' = [hw EXCEPT !.stat = "clear"]
          /\ ServiceEnds
          /\ UNCHANGED running
  /\ UNCHANGED <<callVars, xfer, moved, list, shutdown, desc_dequeued, ringVars,
                 desc_lock, irq_on, adm>>

\* engine_service, second part: the completed descriptor count is read, later
\* than the status.  With none there is nothing more to do.
ServiceCount ==
  /\ svc.at = "count"
  /\ IF hw.count = 0
     THEN ServiceEnds
     ELSE /\ svc' = [svc EXCEPT !.at = "list", !.cnt = (hw.count - desc_dequeued) % Wrap]
          /\ UNCHANGED irq_mask
  /\ UNCHANGED <<callVars, xfer, moved, listVars, ringVars, desc_lock, hw,
                 irq_on, work, adm>>

\* Mutant: the parts are not looked at.
IoDoneAssumed(r, x) ==
  /\ Return(r, req[r].cnt)
  /\ ring' = Wiped({x[<<r, k>>] : k \in 0 .. req[r].tfer})
  /\ FreeReq(r, x)

\* __io_done of queue.c with xdma_xfer_completion: count what the parts of the
\* request moved up to the first that failed, destroy the parts seen, free the
\* request.  The result is that count, never an error.
IoDone(r, x) ==
  LET Ok(k) == x[<<r, k>>].state = "COMPLETED"
      Destroy(last) == ring' = Wiped({x[<<r, k>>] : k \in 0 .. last})
  IN /\ \/ /\ \A k \in 0 .. req[r].tfer : Ok(k)
           /\ Destroy(req[r].tfer) /\ Return(r, req[r].cnt)
        \/ \E bad \in 0 .. req[r].tfer :
             /\ ~ Ok(bad) /\ \A k \in 0 .. bad - 1 : Ok(k)
             /\ Destroy(bad) /\ Return(r, x[<<r, bad>>].off)
     /\ FreeReq(r, x)

\* Mutant: every part of a request is taken for the last one.
AnyInRequest(t) == t[1] \in Async

\* xfer->last_in_request of a transfer with a callback
LastInRequest(t) ==
  t[1] \in Async /\ xfer[t].off + xfer[t].num = req[t[1]].cnt

\* The head of the list leaves it in this state (engine_transfer_completion).
Finish(t, state) ==
  LET x == [xfer EXCEPT ![t].state = state]
  IN IF LastInRequest(t)
     THEN IoDone(t[1], x)
     ELSE xfer' = x /\ UNCHANGED <<callVars, moved, ring>>

\* engine_service_transfer_list: the count covers more than the head.
ServiceTransferList ==
  /\ svc.at = "list" /\ list # << >>
  /\ svc.cnt > xfer[Head(list)].num
  /\ list' = Tail(list)
  /\ svc' = [svc EXCEPT !.cnt = @ - xfer[Head(list)].num]
  /\ desc_dequeued' = desc_dequeued + xfer[Head(list)].num
  /\ Finish(Head(list), "COMPLETED")
  /\ UNCHANGED <<running, shutdown, desc_idx, desc_lock, hw, irqVars, adm>>

\* engine_service_resume: a stopped engine with transfers queued is started
\* again, a running one without any is shut down.
Resume(q, x, isRunning, h, dequeued) ==
  IF ~ isRunning /\ q # << >>
  THEN engine_start(q, x, h)
  ELSE /\ running' = (isRunning /\ q # << >>)
       /\ hw' = IF q = << >> THEN Stopped(h) ELSE h
       /\ desc_dequeued' = dequeued
       /\ UNCHANGED shutdown

\* The count covers the transfer; with > for >= it never does (mutant).
WholeStrict(t) == svc.cnt > xfer[t].num
Whole(t) == svc.cnt >= xfer[t].num

\* engine_service_final_transfer: the head failed if the status says so (the
\* engine is stopped then) or if it has descriptors left; it is complete
\* otherwise.  The engine is resumed after it.
ServiceFinal ==
  /\ svc.at = "list" /\ list # << >>
  /\ LET t == Head(list)
     IN /\ svc.cnt <= xfer[t].num
        /\ list' = Tail(list)
        /\ Finish(t, IF Whole(t) /\ ~ svc.err THEN "COMPLETED" ELSE "FAILED")
        /\ Resume(Tail(list), xfer, running /\ ~ svc.err,
                  IF svc.err THEN Stopped(hw) ELSE hw,
                  IF svc.err THEN desc_dequeued
                  ELSE desc_dequeued + xfer[t].num)
  /\ ServiceEnds
  /\ UNCHANGED <<desc_idx, desc_lock, irq_on, work, adm>>

\* The list ran empty under a count that covers more than what was on it.
ServiceNothing ==
  /\ svc.at = "list" /\ list = << >>
  /\ Resume(list, xfer, running, hw, desc_dequeued)
  /\ ServiceEnds
  /\ UNCHANGED <<callVars, xfer, moved, list, ringVars, desc_lock, irq_on, work,
                 adm>>

Service == ServiceStatus \/ ServiceCount \/ ServiceTransferList
             \/ ServiceFinal \/ ServiceNothing

-----------------------------------------------------------------------------
(* xdma_device_offline and xdma_device_online, step by step.               *)

AdmStep(from, to) == HotPlug /\ adm = from /\ adm' = to

\* XDEV_FLAG_OFFLINE is set.
OfflineFlag ==
  /\ AdmStep(Online, "flagged")
  /\ UNCHANGED <<callVars, xfer, moved, listVars, ringVars, desc_lock, hw,
                 irqVars, svc>>

\* Under engine->lock: shutdown is requested and the engine stopped.
OfflineEngine ==
  /\ AdmStep("flagged", "stopped") /\ LockFree
  /\ shutdown' = TRUE /\ running' = FALSE /\ hw' = Stopped(hw)
  /\ UNCHANGED <<callVars, xfer, moved, list, desc_dequeued, ringVars,
                 desc_lock, irqVars, svc>>

\* The interrupts are disabled and their handlers removed.
OfflineIrq ==
  /\ AdmStep("stopped", "offline")
  /\ irq_on' = FALSE
  /\ UNCHANGED <<callVars, xfer, moved, listVars, ringVars, desc_lock, hw,
                 irq_mask, work, svc>>

\* The engine registers are written again, the shutdown request is dropped.
OnlineEngine ==
  /\ AdmStep("offline", "resumed") /\ LockFree
  /\ shutdown' = FALSE /\ irq_mask' = TRUE
  /\ UNCHANGED <<callVars, xfer, moved, list, running, desc_dequeued, ringVars,
                 desc_lock, hw, irq_on, work, svc>>

\* The interrupts are set up again and enabled.
OnlineIrq ==
  /\ AdmStep("resumed", "irqs")
  /\ irq_on' = TRUE /\ irq_mask' = TRUE
  /\ UNCHANGED <<callVars, xfer, moved, listVars, ringVars, desc_lock, hw, work,
                 svc>>

\* XDEV_FLAG_OFFLINE is cleared.
OnlineFlag ==
  /\ AdmStep("irqs", Online)
  /\ UNCHANGED <<callVars, xfer, moved, listVars, ringVars, desc_lock, hw,
                 irqVars, svc>>

Hotplug == OfflineFlag \/ OfflineEngine \/ OfflineIrq
             \/ OnlineEngine \/ OnlineIrq \/ OnlineFlag

-----------------------------------------------------------------------------
Queue(r) == CheckOffline(r) \/ QueueRefused(r) \/ TransferQueue(r)
Step(r) == Submit(r) \/ TransferInit(r) \/ Queue(r)
SyncStep(r) == LockDesc(r) \/ SyncDone(r) \/ SyncAbort(r)
Hardware == HwStep \/ HwFault \/ HwHalt

Next ==
  \/ \E r \in Calls : Step(r)
  \/ \E r \in Sync : SyncStep(r)
  \/ Hardware \/ ChannelIrq \/ Service \/ Hotplug

Spec == Init /\ [][Next]_vars

\* A call that began goes on; the hardware executes or fails; the interrupt is
\* delivered and the work run.  desc_lock is a kernel mutex, which hands itself
\* to a waiter it has made wait: it is only free from time to time, hence SF.
Fairness ==
  /\ \A r \in Calls : WF_vars(TransferInit(r) \/ Queue(r))
  /\ \A r \in Sync : SF_vars(LockDesc(r)) /\ WF_vars(SyncDone(r))
  /\ WF_vars(Hardware) /\ WF_vars(ChannelIrq) /\ WF_vars(Service)

FairSpec == Spec /\ Fairness

-----------------------------------------------------------------------------
(* Properties.                                                             *)

Places == {"idle", "lock", "init", "queue", "enqueue", "wait", "flight"}
Requests == [cnt : 0 .. MaxDesc, idx : 0 .. MaxDesc, tfer : 0 .. MaxDesc - 1]
Transfers == [state : {"NEW", "SUBMITTED", "COMPLETED", "FAILED"},
              first : Slots, num : 0 .. RingSize, off : 0 .. MaxDesc]
Descriptors == [t : Xfers, i : 0 .. MaxDesc - 1, stop : BOOLEAN]
\* A zeroed descriptor has no magic, so it is none that was written.
ASSUME ZeroedHasNoMagic == None \notin Descriptors
EngineStates == [busy : BOOLEAN, run : BOOLEAN, pos : Slots,
                 cur : Descriptors \cup {None}, count : Nat,
                 stat : {"clear", "stopped", "error"}]
Services == [at : {"idle", "count", "list"}, err : BOOLEAN, cnt : Nat]

\* The types of the variables.
TypeOK ==
  /\ pc \in [Calls -> Places]
  /\ req \in [Calls -> Requests]
  /\ ret \in [Calls -> Int]
  /\ xfer \in [Xfers -> Transfers]
  /\ moved \in [Xfers -> SUBSET (0 .. MaxDesc - 1)]
  /\ list \in Seq(Xfers)
  /\ running \in BOOLEAN /\ shutdown \in BOOLEAN /\ desc_dequeued \in Nat
  /\ desc_idx \in Slots
  /\ ring \in [Slots -> Descriptors \cup {None}]
  /\ desc_lock \in Sync \cup {None}
  /\ hw \in EngineStates
  /\ irq_on \in BOOLEAN /\ irq_mask \in BOOLEAN /\ work \in BOOLEAN
  /\ svc \in Services
  /\ adm \in {Online, "flagged", "stopped", "offline", "resumed", "irqs"}

Queued(t) == xfer[t].state = "SUBMITTED"
AllMoved(t) == moved[t] = 0 .. xfer[t].num - 1

\* The transfer list holds each transfer in state SUBMITTED, once, and nothing
\* else: no waiter can miss its transfer, and engine_service never follows the
\* list into a request that has been freed.
QueueWellFormed ==
  /\ IsInjective(list)
  /\ Range(list) = {t \in Xfers : Queued(t)}

\* The hardware, while it is told to run, works on the head of the list: what
\* engine_service takes for the head's completed descriptors are the head's.
RunsHead ==
  (hw.busy /\ hw.run /\ LockFree) =>
    /\ running /\ list # << >>
    /\ hw.pos = xfer[Head(list)].first + hw.count

\* No lost wakeup: while transfers are queued the engine is running, and either
\* the hardware is at work or a status waits for an interrupt that is enabled
\* or whose work is scheduled.
NoLostWakeup ==
  (list # << >> /\ LockFree) =>
    /\ running
    /\ work \/ (irq_on /\ irq_mask /\ (hw.busy \/ hw.stat # "clear"))

\* The descriptors of a transfer the engine has yet to complete are still its
\* own: no later transfer_init took their slots.
ChainIntact ==
  \A t \in Xfers : Queued(t) =>
    \A s \in SlotsOf(xfer[t]) : ring[s] # None /\ ring[s].t = t

\* The hardware moves data for queued transfers only: never into a buffer that
\* was given back to its caller.
NoStrayDma ==
  (hw.busy /\ hw.cur # None) => Queued(hw.cur.t)

\* Once xdma_device_offline has stopped the engine, no call that passed the
\* test of the flag before, no late interrupt and no work sets RUN again before
\* xdma_device_online drops the shutdown request.
ShutdownStopsEngine ==
  adm \in {"stopped", "offline"} => shutdown /\ ~ running /\ ~ hw.run

Returns(r) == pc[r] # "idle" /\ pc'[r] = "idle"

\* A call returns no more than what the hardware moved for it.
ReturnsWhatMoved ==
  [][\A r \in Calls : Returns(r) => \A t \in Xfers :
       (/\ t[1] = r /\ xfer[t].num > 0
        /\ xfer[t].off + xfer[t].num <= ret'[r]) => AllMoved(t)]_vars

\* The step takes t off the list as failed: it is marked so, or its request
\* ends with a result that does not reach its data.
FailsNow(t) ==
  /\ Queued(t)
  /\ \/ xfer'[t].state = "FAILED"
     \/ /\ t[1] \in Async /\ svc.at = "list" /\ Returns(t[1])
        /\ ret'[t[1]] = xfer[t].off

\* A transfer is failed only after the hardware began it and stopped before its
\* end: never on a count that is another transfer's, or one read too early.
FailsOnlyIfStopped ==
  [][\A t \in Xfers : FailsNow(t) =>
       ~ hw.busy /\ moved[t] # {} /\ ~ AllMoved(t)]_vars

\* io_done learns of a failure: an asynchronous request ends with the number of
\* descriptors that were transferred or with an error.
FailureReported ==
  [][\A r \in Async : (Returns(r) /\ svc.at = "list") => ret'[r] # 0]_vars

\* Every call that begins returns.
EveryCallReturns == \A r \in Calls : pc[r] # "idle" ~> pc[r] = "idle"

\* The transfer list is the queue of the abstract service.
Fifo == INSTANCE TransferFifo WITH queue <- list

\* Transfers leave the list in the order they were queued, one by one, and none
\* is queued that is on it still.
FifoOrder == Fifo!Init /\ [][Fifo!Next]_list

\* The engine implements the service: transfers are finished in the order they
\* were queued, one by one, and none is left behind.
FifoService == Fifo!Spec
=============================================================================
