# A TLA+ development for v4l2-tuto

This directory holds TLA+ models of the drivers in this repository, TLC
configurations that check them on small instances, and TLAPS proofs of the
properties that matter for every instance. Paths below are relative to `src/`.

## 1. The system

Three kernel modules and a set of user programs.

| Component | Sources | State it keeps | Operations |
|---|---|---|---|
| DMA engine | `modules/qvio/libxdma.c` | per engine: descriptor ring and index, transfer list, running/shutdown flags, descriptors dequeued in this run; the registers; the work item | `xdma_xfer_submit`, `xdma_xfer_submit_nowait`, `xdma_xfer_completion`, `xdma_channel_irq`, `engine_service_work`, `xdma_device_offline/online` |
| Completion threads | `modules/qvio/xdma_thread.c` | threads with lists of engines (poll mode only) | `xdma_kthread_start/stop`, `xdma_thread_add_work/remove_work`, `xthread_main` |
| Capture queue | `modules/qvio/queue.c` | list of buffers vb2 handed over, sequence, current format | the vb2 operations, `__io_done`, `__read_one_frame` |
| Video device | `modules/qvio/video.c`, `ioctl.c` | format, `device_mutex` | the V4L2 ioctls, `QVID_IOC_USER_JOB_FD`, `QVID_IOC_BUF_DONE` |
| User-job channel | `modules/qvio/user_job.c`, `samples/04_qviod` | list of jobs, list of answers, two locks, a 16-bit sequence | post and wait, poll, GET, DONE; the daemon's loop |
| Life cycle | `modules/qvio/pci_device.c`, `platform_device.c`, `device.c`, `cdev.c` | references, minors, the engine's resources | probe, remove, error recovery |
| qvcam | `modules/qvcam/` | virtual cameras: buffers, a clock thread per device, ring buffer, lists, settings | vb2 operations, `clock_run_once`, containers |
| qdmabuf | `modules/qdmabuf/` | exported buffers with reference counts, cached mappings | alloc, attach, map, unmap, release |
| Deferred tasks | `samples/common/ZzDeferredTasks.cpp` | queue of tasks, eventfd, a worker thread | `Start`, `AddTask`, `Stop`, `Main` |
| Samples | `samples/0*` | none that matters here | callers of V4L2 |

How they interact. `STREAMON` calls `__start_streaming`, which hands every
buffer to `xdma_xfer_submit_nowait`; the engine's bottom half calls back
`__io_done` under the engine's spinlock, which gives the buffer back to vb2.
`QVID_IOC_BUF_DONE` and the cdev's read take the blocking path on the same
engine. `VIDIOC_S_FMT` posts a job and sleeps under `device_mutex` until some
daemon has answered. PCI error recovery takes the engines offline and online
while all that goes on.

What is hard to test. Completion against submission, abort and the interrupt;
a status read earlier than the count it is combined with; work that is stale by
the time it runs; a ring that comes around; failures after none, some or all
descriptors; an interrupted wait whose answer arrives later; two readers that
check a list before locking it. `PROJECT.json` lists the main hazards, each at
its line with the properties about it; those without one say why.

What makes each component correct:

- engine: the transfer list is exactly the submitted transfers; the hardware
  works on its head; a queued transfer keeps its descriptors; no wakeup is
  lost; results are what was moved; transfers finish in order; a stopped
  device stays stopped;
- capture queue: every buffer is with user space, vb2, the list or the engine,
  and in exactly one place; it comes back once, with the right state;
- user-job channel: no job or answer is lost, each caller gets its own answer,
  every caller returns, nobody takes from an empty list;
- life cycle: what was acquired is released once, in reverse, on every path;
- completion threads: none sleeps through a transfer it was woken for;
- qvcam: a stop is clean and returns, a frame is never older than the one
  before, a buffer on a list is served; reading a file gives the file; devices
  are connected both ways;
- qdmabuf: a buffer lives as long as a descriptor, mapping or attachment of it;
- daemon: deferred tasks run once and in order, and each finds what the one
  before it must leave.

## 2. Modules

| Module | Models |
|---|---|
| `XdmaEngine` | one engine in interrupt mode, its callers, its bottom half, offline/online |
| `TransferFifo` | the abstract service of an engine: a fair FIFO queue |
| `MCXdmaEngine` | symmetry for TLC |
| `XdmaEngineProofs` | theorems about `XdmaEngine`: types, shutdown, the list, the ring, the engine's phases, results |
| `UserJob` | the user-job channel with its callers and daemons |
| `MCUserJob` | symmetry for TLC |
| `UserJobProofs` | theorems about `UserJob` |
| `Scripts`, `Unwind` | the shape of set-up and tear-down code, and what it does |
| `QvioScripts`, `QvioLifecycle` | the functions of qvio and libxdma that acquire and release; loading, probing, recovery, removal |
| `QdmabufScripts`, `QdmabufLifecycle` | the same for qdmabuf, with the life of a buffer and its users |
| `QvioQueue` | formats, buffer sizes and the life of a capture buffer |
| `CamStream` | qvcam's queues and clock threads, an output and its captures |
| `CamFile`, `CamConnect` | qvcam's file reader over its ring; loading, connecting, registering |
| `XdmaThread` | the completion threads of poll mode |
| `QvioDaemon` | the three threads of the daemon in `03_qvio-ctl` |
| `MCDrivers` | the life cycles, the queue, the reader and the connections, for TLC |
| `MCStreams` | the streams, the completion threads and the daemon, for TLC |
| `ListFacts` | lemmas: lists without repetition and what appending, taking and removing do to them; functions defined by recursion over numbers; division, and places in a ring; stacks |
| `QvioQueueProofs`, `CamStreamProofs` | the inductive invariants of these components, proved |
| `MCDriversProofs` | theorems about `MCDrivers`: the queue and its sizes, the file reader, the connections, the life of qvio |
| `QdmabufProofs` | the theorem about the life of a dma-buf in `MCDrivers` |
| `MCStreamsProofs` | theorems about `MCStreams`; the invariants of `XdmaThread` and `QvioDaemon` |

`MCDrivers` and `MCStreams` hold several parts side by side: `part` says which
one a behaviour is about, and the state of the others rests. The parts of one
module share no state; what they have in common is the question asked of them
(nothing is released twice, a buffer is in one place, a stop returns).

### XdmaEngine

Variables are named for the fields they stand for. A *call* is one buffer: the
calls in `Sync` are threads in `xdma_xfer_submit`, those in `Async` buffers
given to `xdma_xfer_submit_nowait` by the one thread inside
`__start_streaming`. `pc[r]` says where a call is:

    idle -> lock -> init -> queue -> enqueue -> wait   (blocking)
    idle ->         init -> queue -> enqueue -> flight (asynchronous)

`init` to `enqueue` repeats for each part of an asynchronous request, `init` to
`wait` for each part of a blocking one, which holds `desc_lock` all along.

| Action | Code |
|---|---|
| `Submit`, `LockDesc` | the calls up to their loop |
| `TransferInit` | `transfer_init` with `transfer_build` |
| `CheckOffline`, `QueueRefused`, `TransferQueue` | `transfer_queue`: the flag before the lock, the shutdown request under it, the append and the start |
| `SyncDone`, `SyncAbort` | after the wait: the `switch` on the transfer's state, `transfer_abort` with `xdma_engine_stop` |
| `ChannelIrq` | `xdma_channel_irq` |
| `ServiceStatus`, `ServiceCount`, `ServiceTransferList`, `ServiceFinal`, `ServiceNothing` | `engine_service` between its register reads and per finished transfer, under `engine->lock` |
| `OfflineFlag` ... `OnlineFlag` | `xdma_device_offline` and `xdma_device_online`, one step per thing others can see |
| `HwStep`, `HwFault`, `HwHalt` | the hardware (external) |

Granularity. Critical sections of `engine->lock` are single steps, except
`engine_service`: the hardware moves on between its two register reads, so that
one is several steps, with `svc.at # "idle"` for the lock being held
(`LockFree`). `__io_done` runs inside it and is part of the step that finishes
the last transfer of a request.

Data. A descriptor is the transfer it belongs to, its place in it and its STOP
bit; a request is a number of descriptors and lengths are counts of them. The
history variable `moved` records which descriptors of a transfer the hardware
executed while it was told to run; it is only read by properties. The unsigned
32-bit subtraction `desc_count -= engine->desc_dequeued` is taken modulo
`Wrap`.

Assumptions about the hardware (from how the driver uses it): writing RUN
fetches the first descriptor and restarts the completed count; a descriptor is
fetched when the one before it is finished; STOP ends the run and raises a
status; clearing RUN lets a descriptor in progress finish, or not; an error
stops the engine and stays in the status until it is read; a zeroed descriptor
fails. The status is cleared by reading it. The interrupt is a level: it is
raised while the status is not clear and the mask is on.

Outside the model: what happens after a write past the two transfers of a
request (the model gives a request as many as it needs), and after an entry of
the list was left in a freed request. The runs are chosen so that neither
happens. `XdmaOverrunSafe` does overrun the ring, whose content is data to the
driver.

### UserJob

`cpc` is the place of a caller in `qvio_user_job_s_fmt`, `dpc` that of a daemon
in its loop. The two readers of the lists are split at their unlocked checks.
`device_mutex` is taken by every ioctl of the device; a caller holds it while it
sleeps, a daemon needs it to obtain its descriptor. An entry is its sequence
and, for the properties only, its owner. `enable` is free in `Init`: the PCI
probe clears it, the platform probe sets it.

`__ioctl_user_job_get` looks at the list before it locks it and not again. With
a second daemon past the look, `list_first_entry` makes an entry up from the
head of the list, which is then deleted, copied out and freed. `PopMadeUp` is
that step: it sets `corrupt`, and no step follows, since nothing is known of the
kernel's memory any more. So `GetHasJob` holds with one daemon, for which it is
proved, and not with two; `UserJobTwoDaemons` takes the step. The message of the
look, "unexpected value, self->job_list is empty" (`user_job.c:78`), names the
case that it does not exclude. A GET frees its job also where `copy_to_user` fails
(`GetCopyFails`), and a DONE without memory or data leaves its job without an
answer (`DoneFails`); the history variable `lost` counts both. A daemon that
dies with a job in hand is the second case. The other list needs no such step:
its readers hold `device_mutex`, and `PopNonEmpty` says that this is enough.

### Unwind, the life cycles

A function is a script: the steps of its body, each with the label it goes to
when it is refused, and the releases below its labels. `Place` finds the label
in that list and execution falls through from there, as C does. A step is one
acquisition, release, call or return, so that the driver core (`admin`) and an
ioctl (`user`), or the users of a dma-buf, interleave between any two of them.
`held` counts what is acquired; `known` and `refused` are the driver's own
records (`got_regions`, `regions_in_use`, `msix_irq_line`, `dma_dir` ...), which
decide what a release does; `over` collects what was released without being
held. The parameters of `Unwind` say of each resource how it behaves:
recorded or not, a test that holds nothing, a reference whose release only goes
on when it was the last.

The error paths the code gets wrong are part of the scripts: `Forgetful` is a
step after whose failure the function returns 0. `Noted` gives such refusals a
name, and a property that does not survive one excepts it by that name, so that
it still covers all the others.

`QvioLifecycle` starts on any machine: interrupts by MSI-X, MSI or a line, an
engine that streams or not, a PCI or a platform device. (`module.c` has the
platform driver behind `#if 0`; both builds are covered.) `careful` separates
two administrators: one who takes a device offline once, brings it back and
removes it online, and one who does what he likes, from two threads. For the
second one only `HarmContained` is claimed.

`QdmabufLifecycle` has one buffer at a time, of one of three kinds, with a
descriptor, maps (`mmap`, copied by `fork`), one importer and the ioctls.
`dma_buf_put` is the kernel's; `ops->release` is called by its last one.

### QvioQueue

`where` is vb2's view of a buffer, `buffers`, `submitted` and `hand` the
driver's: on the list, with the engine, taken by `BUF_DONE`. The calls of vb2
hold `queue_mutex`; `BUF_DONE` and the engine's callback run beside them, and
`buffers_mutex` is only contended where one of them is at the list. `lost` and
`torn` are where the two views disagree: buffers a signal or a failed transfer
left nowhere, and buffers vb2 took back while the driver had them. The model
ends (`Free`) where such a buffer is freed or queued again: the code has no
meaning from there on. What the engine does with a submitted buffer is
`XdmaEngine`; here it completes or fails.

The sizes are functions of a format, for both kinds of plane layout, translated
from the three places that compute them: what `S_FMT` tells, what `queue_setup`
asks for, what `buf_prepare` wants. Which formats are asked for is a constant
(`Formats`), and so are the files of `CamFile` and the settings of `CamConnect`:
the proofs are about any of them, `Drivers.cfg` names those of the run.

### CamStream, CamFile, CamConnect

A clock thread is in one place of `clock_run_once`: it sleeps, looks at the
frame it was handed, takes a buffer, copies, hands the copy over. A program
uses each device one call at a time, under the lock of vb2. The steps of a stop
are those of `akvcam_buffers_stop_streaming`: the thread, the frame, the list.
A frame is the number the program gave it. Signals only end a wait for a mutex
that another holds, and only in a program.

`CamFile` reads a file of at most five bytes in blocks of two into its ring,
with every mix of opens, seeks, reads and lines, and failing reads. History
variables keep what the last call gave and where in the file it began. The
model ends at an error of `kernel_read` in a line, whose result is not looked
at, and for a reader past the end of the file.

`CamConnect` takes what the settings say from all pairs of small node lists; a
load connects and registers in two passes, an unload releases, and the next
load may have other settings. It ends where a list is read through an iterator
left in another list.

### XdmaThread, QvioDaemon

`XdmaThread` splits where the code does not hold a lock: the wakeup between the
queueing and the wait, the two locks of a removal, the two steps of a stop. It
contains the behaviour in which a stop never returns: the flag it sets is
cleared by a poll before the request to stop is there.

`QvioDaemon` has the main thread that answers jobs, the thread of deferred
tasks with its counting event, and the source thread. The application's calls
are those that post a job in `user_job.c`. The driver at this commit posts that
of `S_FMT` only; the operations that post the others have no caller yet, the
daemon is written for all of them, and the model posts them in the order of the
V4L2 operations they are named for. The source thread's own
`QVID_IOC_BUF_DONE` posts nothing: it is a DMA the driver waits for, and may fail.

What may fail does: a deferred map (no buffer to query, no memory to map) leaves
its buffer `"failed"`, and nobody is told; the source thread ends at any of its
steps; a GET or a DONE that fails ends the main loop, which then runs `Stop` as
`q` does; a signal ends a wait while the job stays where it is. A second thread
over a joinable one, or a join without a thread, is `std::terminate`
(`Terminated`): the process is gone, the state stays as it was. The source
thread's buffers go with its last step, but for the `return` after a failed
`mmap` (`main.cpp:710`), which releases nothing.

`TasksFit` is about what the order of jobs and tasks does ensure. Two things are
left to chance by the code, and no property claims them: a frame announced when
no job takes it stays on `oSrcBufferQ`, after which every copy is from the buffer
before (and may run after the source thread released it); and a stream stopped
before its deferred start has run clears the flag that the stop had set, so that
the source thread is never told to end and the join waits as long as frames come.

## 3. Runs

Calls, callers and daemons are model values. Bounds are the constants of each
`.cfg`; those that cut behaviour down are `MaxDesc` and the counts of what may
happen: signals, interruptions, failures, and calls of the application.

| Run | Instance | Shows |
|---|---|---|
| `XdmaSync` | 2 blocking calls of 1-4 descriptors, ring of 3, fair | honest results and return of every call, with wrap-around and split requests |
| `XdmaAsync` | 3 asynchronous calls of 1-2, ring of 6, fair | list, hardware, descriptors and wakeups agree while the ring holds what is in flight; the engine implements `TransferFifo` |
| `XdmaAborted` | 2 blocking calls of 1-2, ring of 2, both may end early, early errors, offline and online repeated | an abort never leaves its request on the list, results stay honest, nothing starts a stopped engine |
| `XdmaOverrunSafe` | 1 blocking and 1 asynchronous call, ring of 3 | an overrun ring costs data, not the list, which is served in order |
| `UserJobServed` | 3 callers, 1 daemon, sequence mod 4, 2 interruptions, fair | every caller returns, nobody takes from an empty list, answers lag by the number of interruptions |
| `UserJobTwoDaemons` | 2 callers, 2 daemons that come and go, 2 interruptions, a GET or a DONE that fails | until two GETs meet at the last job, what is under way and what was lost is one per waiting caller and one per abandoned wait |
| `Drivers` | life cycles with one refusal per operation, 2 careless switches, 2 maps; queue of 3 buffers, 2 formats, a failure and a signal; files of up to 5 bytes; 4 devices, 2 of them outputs, 2 connections of up to 3 nodes | set-up and tear-down balance on every path, buffers are in one place, sizes agree, reads give the file, connections and references match |
| `Streams` | an output with 2 buffers and a capture with 1, 2 frames, 1 signal, fair; 2 engines on 2 threads; 5 jobs of an application, 1 interruption, 2 announced frames | stops are clean and return, frames keep their order, buffers are served, no thread sleeps through a transfer, tasks run once, in order, and find what they need |

Why the bounds are enough. Everything the driver decides depends on whether a
count is below, at or above a transfer's size, whether the list has none, one
or more entries, and whether the ring wraps within a transfer: two or three
calls of up to two (four, for splitting twice) descriptors reach each
combination. One interruption is enough to shift an answer; two with a sequence
modulo 4 also cover the wrap. One failing GET or DONE is one lost job; a second
daemon is enough to empty the list under the first. Five jobs of the daemon are
one life of a buffer (set up, map, start, stop, unmap), whose tasks may all be
waiting at once; one interruption is enough for a task to be repeated or skipped.

In `Drivers` one refusal between two times at which nothing runs reaches every
label of every function; two careless switches give each pair of offline and
online. Three buffers with a minimum of two let a stream start with one buffer
still to come. Of the two formats one has a width that is aligned twice and an
even height, the other an odd one. Two blocks and a ring that wraps need a file
longer than two blocks. In `Streams` two frames are enough to be out of order;
two engines on two threads leave each thread one engine or, after a removal,
none.

`CHECK_DEADLOCK FALSE` is set where the system really may stop:
`XdmaOverrunSafe` (an overwritten chain can fail before its first descriptor,
after which nothing restarts the engine), `UserJobTwoDaemons` (a caller waits
for a daemon that cannot open its descriptor, or for a job that was lost, and the
model's signals are used up; after `PopMadeUp` nothing is known) and `Streams` (a
stop of a completion thread whose flag was lost waits for ever; the daemon ends
with `q`, with a failed GET or DONE or in `std::terminate`, and its jobs are used
up).

Runs that show a disagreement between the code and what it says of itself, one
per property; the quotes are in `PROJECT.json` under `findings`.

| Run | Instance | Violated |
|---|---|---|
| `XdmaEarlyError` | 1 blocking call, an error before the first descriptor | `NoLostWakeup`: the transfer stays on the list of a stopped engine |
| `XdmaStaleWork` | 2 blocking calls, one of which may end early | `FailsOnlyIfStopped`: work for the aborted transfer fails the next one |
| `XdmaFailReported` | 1 asynchronous call | `FailureReported`: a failed request ends with 0 |
| `UserJobStale` | 2 callers, 1 interruption | `OwnAnswer`: the next caller takes the answer of the abandoned job |

Conditions under which the properties hold: `NoLostWakeup` and the liveness
properties need errors to come after the first descriptor (`EarlyErrors =
FALSE`); `FailsOnlyIfStopped` needs no abort; `ChainIntact`, `RunsHead` and
`NoStrayDma` need a ring with room for every call at once; `QueueWellFormed`
under aborts needs blocking calls alone, whose transfer is always the head;
`PopNonEmpty` needs one daemon (two readers of one job both pass the unlocked
look at the list), and `JobsConserved` says of more only what holds until they do;
`AnswerLag` is about channels that lost no job, and `EveryCallReturns` is checked
with GETs and DONEs that do not fail (a lost job leaves its caller waiting under
`device_mutex`); `TasksFit` holds until a wait is interrupted, after which the
application may start or stop twice, and the daemon's `std::thread` ends it.

Fairness. `FairSpec` of `XdmaEngine` asks that a thread in the kernel goes on
(weak fairness of its next step), that the hardware executes or fails, that an
enabled interrupt is delivered and scheduled work is run: what the scheduler,
the work queue and the device give. `desc_lock` is a kernel mutex, which hands
itself over to a waiter that has waited too long; as it is free only from time
to time that is strong fairness of `LockDesc`. Nothing is asked of the callers
to start, of timeouts or of hot plug. `FairSpec` of `UserJob` is of the same
kind: callers inside the ioctl, the daemon with a descriptor, and strong
fairness for the mutex; no daemon need open or quit, no signal need come.
`Streams` asks of qvcam that a clock thread and a call that has begun go on
(strong fairness, since both wait for mutexes that are free from time to time,
and the kernel hands a mutex to who has waited); that is what `BuffersServed`
and `StopReturns` need. Nothing is asked of the program, which need not call
anything. The other parts of that run have safety properties only.

Mutants. Next to some definitions stands a mutated form of them (for example
`ListKept` for `ListWithout`), which no specification uses. It is what a
plausible bug of that code would make of it; with it in place the property
listed with it in `PROJECT.json` is violated under the run's own configuration.

## 4. Proofs

From the named assumptions of the modules only (positive sizes, disjoint calls,
finite sets of callers and daemons), for all values of the constants:

- `XdmaEngineProofs!TypeCorrect`: `Spec => []TypeOK`. `TypeOK` alone is not
  inductive: `off + num` of a transfer and `idx` of a request must stay in
  their ranges, and the hardware's position in the ring. `TypeInv` adds
  `RequestShape` (a request that is being built has room left; the parts of a
  request lie within it) and `ChainsEndInRing` (a descriptor that does not stop
  the hardware has a successor slot). One lemma per action, per group of
  variables it can disturb.
- `XdmaEngineProofs!ShutdownSafe`: `Spec => []ShutdownStopsEngine`. `engine_start`
  drops the shutdown request, so the argument is about the lock:
  `xdma_device_offline` stops the engine with the lock free, hence with no
  service in progress; `ShutdownInv` adds that none is in progress while the
  engine stays stopped, because `engine_service` returns at once when the
  engine does not run; the queue is closed by the request, so neither path to
  `engine_start` is left.
- `XdmaEngineProofs!ListSound` and `ServedInOrder`: the list is the submitted
  transfers, each once, and every step of the engine is a step of `TransferFifo`
  or leaves the list alone (the safety part of the refinement). They assume
  `Undisturbed`: all calls wait for their transfers, or no wait ends early and
  the device stays online. It is needed: a refusal or an abort frees the whole
  request, and an asynchronous one may have parts on the list, which a run shows.
  `Sound` adds that a blocking call on the list holds `desc_lock`, and that the
  parts of a request are queued in their order (`Parted`, `InOrder`): its last
  part is on the list alone when `io_done` frees the request.
- `XdmaEngineProofs!ChainKept`: `Spec => []ChainIntact`, assuming `Undisturbed` and
  `Roomy`: all calls block, or the ring has room for the largest request of every
  buffer at once. `transfer_init` never looks at who used the slots, so the
  argument is arithmetic in the ring (`Window`): the descriptors of a request are
  one stretch, counted back from `desc_idx` (`Laid`); the stretches follow one
  another without meeting (`Apart`) and leave in the order they came (`Aged`);
  the oldest lies no farther back than as many largest requests as there are
  before it (`Filled`). What `transfer_init` takes is then farther back than
  anything held.
- `XdmaEngineProofs!HeadIsRun`, `DmaStaysQueued`, `WakeupsKept`, `ReturnsMoved`,
  `FailsStopped`: `RunsHead`, `NoStrayDma`, `NoLostWakeup`, `ReturnsWhatMoved` and
  `FailsOnlyIfStopped`, assuming `Roomy` and `Calm` (no wait ends early, the device
  stays online, no request reaches the width of the 32-bit counters);
  `WakeupsKept` also that no error comes before the first descriptor. `Engine`
  says which phase the engine is in: `Resting`, `AtWork` on the head's chain,
  `Ended` with a status nobody has read, `Serviced` between the two register
  reads, or `Stuck` after an error before the first descriptor, which
  `engine_service` overlooks. It needs `ChainKept`'s invariant: only a chain that
  is still the head's leads the hardware to the head's last descriptor. `Moves`
  then ties the registers to the data (the head has moved what the count says,
  what waits has moved nothing, what is complete everything), and `Rows` lays the
  parts of a request end to end, so that the prefix `io_done` adds up is what was
  moved.
- `UserJobProofs!TypeCorrect`: `Spec => []TypeOK`, with `Exclusive`: at most the
  holder of `device_mutex` is inside the ioctl.
- `UserJobProofs!Conservation`: `Spec => []JobsConserved`. Each action moves one
  entry from one place to the next, or from a place to `lost`; the proof is the
  arithmetic of the counts (`Lemma_Sums`), with the lemmas on sets that gain
  or lose one element. It holds for any number of daemons, interruptions and
  failures, as long as the list is intact (`~corrupt`): two daemons at the last
  job break it, and `GetHasJob` with it.
- `UserJobProofs!GetsHaveJobs`, `NeverPopsEmpty` and `AnswersLag`, for one daemon
  (`OneDaemon`, which the theorems name as an assumption): the look at the list
  without its lock is safe when nobody else takes from it, so that `PopMadeUp`
  never happens, and what is posted, taken and answered is one run of consecutive
  sequence numbers modulo the counter's width while no job is lost. `LagInv` needs
  both at once: a pop from an empty list would break the run.
- `MCDriversProofs!BuffersAccounted`, from `QvioQueueProofs!QueueInvariant`, for
  any set of buffers, failures and signals. `Accounted` says that the list, the
  engine, `BUF_DONE`'s hand and the lost ones are disjoint and together vb2's
  active buffers and the torn ones. It is not inductive: `QueueInv` adds what
  vb2's own list has (`Queueing`) and at which operation the stream is started,
  torn buffers may be listed, and a buffer is handed over (`Phases`).
- `MCDriversProofs!SizesKept`, from `QvioQueueProofs!SizesMatch`: `SizesAgree`, for
  any formats with a positive width and height, any alignment and page size.
  `SizesInv`: the format in force is one that has been tried, and the pieces are
  those of the plane's size. The pieces are a recursive function of what is left
  of the plane (`LeftAfter`): that it is defined comes from the recursion lemmas
  of `ListFacts`, and that the pieces add up to the plane from counting pieces and
  what is left. That what is told, asked for and accepted agree is division by
  the alignment, done twice only where the property says so.
- `MCDriversProofs!ReadsTheFile`: `ReadsFile`, for any files, block and read sizes.
  `RingInv` says that the ring holds, from where the reader is, the bytes of the
  file from there up to where the next block is fetched, around its end or not.
  `FileInv` adds that a call that is under way has given nothing yet, so that what
  it takes begins where the call does. The lemmas on places modulo the ring's
  size carry it (`WrappedOnce`, `Ahead`).
- `MCDriversProofs!ConnectsWell`: `WellConnected`, for any number of devices, any
  outputs and settings. `Wired` are the links that go both ways, between an output
  and captures, each once, with one output to a capture; linking keeps that, and
  so does a whole node list, by counting its nodes (`LinkedUpTo`). `LoadInv` adds
  the references that go with the links, and that the second pass of the
  registration leaves out none of the devices before `turn`.
- `MCDriversProofs!BoundOrClean`: `AllOrNothing`, for any bounds, for a careful and
  a careless administrator and every machine. A probe is a tree of functions, so
  the argument has two halves. About the scripts alone: `Sound` says of each of
  the twelve functions that touch one of the seven parts of a device, that what a
  body has acquired at any step (`Got`) is what the label of that step gives back
  (`Left`), and that the function returns with all of its parts or none; `Plain`
  says of the others that they touch none. About the machine: `PartsInv`, that the
  stack is well formed (`Stacked`: a frame is of a function of the driver and calls
  the one above it) and that the device's parts are what the frames account for,
  whether the outermost function is alone (`OnTop`), inside a function that has
  parts (`Inside`) or one that has none (`Beside`), or something else runs
  (`Elsewhere`). What is excepted is what the property excepts, a refusal that the
  code reports as success.
- `QdmabufProofs!UsedBufferStays`: `BufferWhileUsed`, for the three kinds of buffer
  and any number of maps and refusals. Again there are two halves. About the
  scripts: `Keeps` says of each function that what it was lent when it was called,
  what its body has got and what it has yet to put balance at every step, on every
  way out; `Sheds` says that what runs for the last reference puts neither a
  descriptor nor an attachment, and `Fills` that an allocation has acquired every
  part of a buffer before the reference that it returns with. About the machine:
  each call of a stack lends part of what it accounts for to the call above it
  (`Ledger`, `Account`), and the counts are at least the descriptors, the maps, the
  attachment and what the tasks account for (`Balance`). `BufferInv` says that
  there is nobody who uses the buffer, and then at most one task that makes it or
  gives up making it (`Nobody`, `Making`, `Made`), or that the users' references
  are all counted and every part of the buffer is there (`Users`). So the release
  that brings a count to zero is made by the last who had a reference. All of it
  is needed at once: that step frees what the two other tasks must be known not to
  have any more.
- `MCStreamsProofs!BuffersAccounted`, `StopsQuiet`, `FramesForward`, from
  `CamStreamProofs!CamInvariant`, for any finite set of captures, any buffers,
  frames and signals. `CamInv` says for each device what its clock thread may
  hold at each of its places, which buffers the program's call still has to
  give, and (`Follows`) in which order the frames are that a capture showed,
  holds, was handed, and that the output holds: none is older than the one
  before it, which is what makes the action property `FramesInOrder` hold at
  every step.
- `MCStreamsProofs!ThreadsWake`, for any engines and threads. `ThreadInv` is typing,
  that an engine is on the list of the thread it is assigned to and on no other,
  but for the one that is being removed (`Assigned`), that counts differ by one at
  most while devices open (`Even`), and `Awake`.
- `MCStreamsProofs!TasksRun` and `TasksMeet`, for any number of calls, frames and
  interruptions. `DaemonInv` numbers the tasks, also of a process that was
  terminated (`Numbered`), and counts the tokens, one per task and one for `Stop`
  (`Tokens`). Until a wait is interrupted it also says that the tasks follow one
  another (`Chained`), and, while the main thread is in its loop, that the one
  call under way has one job or answer (`Owed`) which follows the tasks up to
  where the application will be (`Led`). So a task that runs finds what the one
  before it left; that its map failed or its thread has ended counts as done.
- `MCStreamsProofs!TypesKept`: type correctness of all three parts.

The composed modules `INSTANCE` a component or its proof module, so that a theorem
is stated of the definition that the run checks; a step of the composition is a
step of the part it names or leaves that part alone (`Lemma_Parts`). The assumptions are
those on constants in the modules: `DevicesDiffer` (an output is no capture, the
captures are finitely many), `BoundsFit`, `BuffersEnough`, `SomeThreads`, and, in
`MCDrivers`, `ConstantsFit` (formats and alignments are positive, a file holds
bytes, the settings are pairs of node lists and the outputs devices), which TLC
evaluates in `Drivers` and `Streams`, and `ZeroedHasNoMagic` of `XdmaEngine` (no
descriptor that was written is taken for a zeroed one), which it evaluates in
the runs of the engine.

Only model-checked, and why:

- liveness (`EveryCallReturns`, `BuffersServed`, `StopReturns`) and with it the
  whole of `FifoService`: what follows from fairness is out of the prover's
  reach, and `ServedInOrder` is its safety part;
- what the engine keeps where a wait ends early or the device goes: that the list
  is sound is proved for blocking calls, that results are honest
  (`ReturnsWhatMoved` in `XdmaAborted`) is only model-checked. An abort leaves a
  descriptor in progress, so the phases above do not hold;
- in `Drivers`, `TypeOK`, for the sake of its ranges: how often a thing is held
  at most follows from an account of all of them;
- in `Drivers`, `ReleasedOnce`, `NothingOutlives` and `NothingLeft`: they are about
  every resource of every script. `BoundOrClean` gives that account for the seven
  parts of a device; interrupts, regions and engines are acquired in loops and by
  nested functions, and what is released there depends on the driver's records.

## 5. Not modelled, and the plan

Not modelled on purpose: pixel arithmetic (`frame.c`, `frame_filter.c`), parsing
of settings, qvcam's enumerations of formats and controls, logging, the
interactive samples. In qvcam: a clock thread that cannot be created
(`device.c:553-560` tests the error pointer of `kthread_run` for NULL; the
thread is always created in the model). In poll mode: the wakeup reads the
thread of an engine once, where `libxdma.c:3589-3590` reads it for the test and
again for the use, between which a removal could clear it. In the engine: cyclic
and aperture transfers, the credit and end-of-packet modes (off by default), and
the failure of allocations before a transfer exists. In the life cycles: a file
that is open while its device goes, the teardown of the user-job lists
(`qvio_user_job_stop`), an allocation whose failure is not looked at. In
qdmabuf: a second importer at the same time. Where the code frees memory that is
still used, the models end, since nothing after that is determined; the modules'
comments name each such place.

What is left, in this order:

1. The accounts of interrupts, regions and engines in the scripts of qvio, in the
   manner of `Sound`, towards `ReleasedOnce` and `NothingLeft`.
2. The engine under aborts: a phase for a run that was stopped with a descriptor
   in progress, towards `ReturnsWhatMoved` for blocking calls that may end early.
