----------------------------- MODULE CamStream -----------------------------
(***************************************************************************)
(* Streaming through qvcam: what a program writes into the buffers of the  *)
(* output device comes out of the buffers of the capture devices connected *)
(* to it.  Each streaming device has a clock thread that takes one buffer  *)
(* per period: the output's thread reads a frame and hands a copy to each  *)
(* capture, a capture's thread writes the last frame it was handed, or the *)
(* default one.  A program uses each device under the lock of its queue.   *)
(***************************************************************************)
EXTENDS Naturals, Sequences, FiniteSets, SequencesExt

CONSTANTS
  Output, Captures, \* the devices
  Buffers,          \* device -> the buffers a program asked for
  MinBuffers,       \* device -> queue.min_buffers_needed
  MaxFrames,        \* bound: frames the program writes
  MaxSignals        \* bound: signals that interrupt a wait for a lock

\* Assumed of the constants.
DevicesDiffer == Output \notin Captures /\ IsFiniteSet(Captures)
BoundsFit == MaxFrames \in Nat /\ MaxSignals \in Nat

Devices == {Output} \cup Captures
BuffersEnough ==
  \A d \in Devices : IsFiniteSet(Buffers[d]) /\ MinBuffers[d] \in Nat

VARIABLES
  where,     \* each buffer: "user", "queued" in vb2, "driver", "done"
  streaming, \* STREAMON was called
  op,        \* what the program's call is at, under the lock of the queue
  todo,      \* the buffers vb2 has still to give to the driver
  list,      \* self->buffers
  thread,    \* what the clock thread is at; "none" is self->thread == NULL
  hand,      \* the buffers the thread took from the list
  lost,      \* history: the buffers a signal kept off the list
  frame,     \* the frame the thread carries, 0 is the default one
  togo,      \* the captures the output's thread has still to serve
  current,   \* current_frame, 0 is NULL
  content,   \* the frame in each buffer of the output, 0 once it was read
  shown,     \* history: the last frame that came out of each capture
  frames,    \* frames written, numbered by the program
  signals    \* counted for the bound

vars == <<where, streaming, op, todo, list, thread, hand, lost, frame, togo,
          current, content, shown, frames, signals>>

In(d, state) == {b \in Buffers[d] : where[d][b] = state}
Moved(d, B, state) ==
  [where EXCEPT ![d] = [b \in Buffers[d] |-> IF b \in B THEN state ELSE @[b]]]
Started(d) == thread[d] # "none"

Init ==
  /\ where = [d \in Devices |-> [b \in Buffers[d] |-> "user"]]
  /\ streaming = [d \in Devices |-> FALSE]
  /\ op = [d \in Devices |-> "idle"]
  /\ todo = [d \in Devices |-> << >>]
  /\ list = [d \in Devices |-> << >>]
  /\ thread = [d \in Devices |-> "none"]
  /\ hand = [d \in Devices |-> {}]
  /\ lost = [d \in Devices |-> {}]
  /\ frame = [d \in Devices |-> 0]
  /\ togo = << >>
  /\ current = [c \in Captures |-> 0]
  /\ content = [b \in Buffers[Output] |-> 0]
  /\ shown = [c \in Captures |-> 0]
  /\ frames = 0 /\ signals = 0

-----------------------------------------------------------------------------
(* The locks.                                                              *)

\* frames_mutex guards the list; the thread holds it to take a buffer.
FramesFree(d) == thread[d] # "take"
\* frame_mutex guards the current frame of a capture; its own thread holds it
\* to copy the frame, the output's to replace it.
FrameFree(c) ==
  thread[c] # "look" /\ ~(thread[Output] = "replace" /\ c = Head(togo))
\* mutex_lock_interruptible fails in a program that has a signal, if it would
\* wait; a kernel thread has none.
Interrupted(free) ==
  /\ ~free /\ signals < MaxSignals
  /\ signals' = signals + 1

-----------------------------------------------------------------------------
(* The program's calls; vb2 runs them one at a time for each device.       *)

\* vb2 gives the driver no buffer before it has the minimum.
Enqueue(d, waiting, on) ==
  /\ todo' = [todo EXCEPT ![d] = waiting]
  /\ op' = IF on /\ (Started(d) \/ Len(waiting) >= MinBuffers[d])
             THEN [op EXCEPT ![d] = "queue"] ELSE op

QBuf(d, b) ==
  /\ op[d] = "idle" /\ where[d][b] = "user"
  /\ d = Output => frames < MaxFrames
  /\ frames' = IF d = Output THEN frames + 1 ELSE frames
  /\ content' = IF d = Output THEN [content EXCEPT ![b] = frames'] ELSE content
  /\ where' = Moved(d, {b}, "queued")
  /\ Enqueue(d, Append(todo[d], b), streaming[d])
  /\ UNCHANGED <<streaming, list, thread, hand, lost, frame, togo, current,
                 shown, signals>>

StreamOn(d) ==
  /\ op[d] = "idle" /\ ~streaming[d]
  /\ streaming' = [streaming EXCEPT ![d] = TRUE]
  /\ Enqueue(d, todo[d], TRUE)
  /\ UNCHANGED <<where, list, thread, hand, lost, frame, togo, current,
                 content, shown, frames, signals>>

PutFirst(s, b) == <<b>> \o s \* a mutated form
PutLast(s, b) == Append(s, b)

\* A buffer that a signal keeps off the list is on none.
akvcam_buffers_buffer_queue(d) ==
  /\ op[d] = "queue" /\ todo[d] # << >>
  /\ LET b == Head(todo[d]) IN
     /\ where' = Moved(d, {b}, "driver")
     /\ \/ /\ FramesFree(d)
           /\ list' = [list EXCEPT ![d] = PutLast(@, b)]
           /\ UNCHANGED <<lost, signals>>
        \/ /\ Interrupted(FramesFree(d))
           /\ lost' = [lost EXCEPT ![d] = @ \cup {b}]
           /\ UNCHANGED list
  /\ todo' = [todo EXCEPT ![d] = Tail(@)]
  /\ UNCHANGED <<streaming, op, thread, hand, frame, togo, current, content,
                 shown, frames>>

\* With the buffers queued the stream starts, unless it runs already: that is
\* akvcam_device_clock_start, whose clock_stop finds no thread.
akvcam_buffers_start_streaming(d) ==
  /\ op[d] = "queue" /\ todo[d] = << >>
  /\ op' = [op EXCEPT ![d] = "idle"]
  /\ thread' = IF Started(d) THEN thread ELSE [thread EXCEPT ![d] = "sleep"]
  /\ UNCHANGED <<where, streaming, todo, list, hand, lost, frame, togo,
                 current, content, shown, frames, signals>>

DQBuf(d, b) ==
  /\ op[d] = "idle" /\ where[d][b] = "done"
  /\ where' = Moved(d, {b}, "user")
  /\ UNCHANGED <<streaming, op, todo, list, thread, hand, lost, frame, togo,
                 current, content, shown, frames, signals>>

\* STREAMOFF, or the last close: akvcam_buffers_stop_streaming, if the stream
\* had started, in three steps.
StreamOff(d) ==
  /\ op[d] = "idle" /\ streaming[d]
  /\ op' = [op EXCEPT ![d] = IF Started(d) THEN "stop" ELSE "cancel"]
  /\ UNCHANGED <<where, streaming, todo, list, thread, hand, lost, frame,
                 togo, current, content, shown, frames, signals>>

\* kthread_stop waits for the thread, which looks between two periods only.
EndsAtOnce(d) == TRUE \* a mutated form: kthread_stop does not wait
EndsDrained(d) == thread[d] = "sleep" /\ list[d] = << >> \* a mutated form
Ends(d) == thread[d] = "sleep"
akvcam_device_clock_stop(d) ==
  /\ op[d] = "stop" /\ Ends(d)
  /\ thread' = [thread EXCEPT ![d] = "none"]
  /\ op' = [op EXCEPT ![d] = IF d = Output THEN "flush" ELSE "forget"]
  /\ UNCHANGED <<where, streaming, todo, list, hand, lost, frame, togo,
                 current, content, shown, frames, signals>>

\* The rest of akvcam_device_stop_streaming.  Only a capture has a current
\* frame, and keeps it if a signal comes while the output's thread has it.
Forget(c) ==
  /\ op[c] = "forget"
  /\ \/ FrameFree(c) /\ current' = [current EXCEPT ![c] = 0] /\ UNCHANGED signals
     \/ Interrupted(FrameFree(c)) /\ UNCHANGED current
  /\ op' = [op EXCEPT ![c] = "flush"]
  /\ UNCHANGED <<where, streaming, todo, list, thread, hand, lost, frame,
                 togo, content, shown, frames>>

\* The buffers still on the list go back.
Flush(d) ==
  /\ op[d] = "flush"
  /\ where' = Moved(d, {list[d][i] : i \in DOMAIN list[d]}, "done")
  /\ list' = [list EXCEPT ![d] = << >>]
  /\ op' = [op EXCEPT ![d] = "cancel"]
  /\ UNCHANGED <<streaming, todo, thread, hand, lost, frame, togo, current,
                 content, shown, frames, signals>>

\* vb2 takes back whatever is left.
Cancel(d) ==
  /\ op[d] = "cancel"
  /\ where' = Moved(d, Buffers[d], "user")
  /\ streaming' = [streaming EXCEPT ![d] = FALSE]
  /\ todo' = [todo EXCEPT ![d] = << >>]
  /\ lost' = [lost EXCEPT ![d] = {}]
  /\ op' = [op EXCEPT ![d] = "idle"]
  /\ content' = IF d = Output THEN [b \in Buffers[Output] |-> 0] ELSE content
  /\ UNCHANGED <<list, thread, hand, frame, togo, current, shown, frames,
                 signals>>

-----------------------------------------------------------------------------
(* The clock threads: one run of akvcam_device_clock_run_once per period.  *)

At(d, from, to) ==
  /\ thread[d] = from
  /\ thread' = [thread EXCEPT ![d] = to]

\* kthread_should_stop is looked at between two periods.
Wake(d) ==
  /\ op[d] # "stop"
  /\ IF d = Output THEN At(d, "sleep", "take")
     ELSE FrameFree(d) /\ At(d, "sleep", "look")
  /\ UNCHANGED <<where, streaming, op, todo, list, hand, lost, frame, togo,
                 current, content, shown, frames, signals>>

\* A capture shows what it was handed while its output streams.
Look(c) ==
  /\ At(c, "look", "take")
  /\ frame' = [frame EXCEPT ![c] = IF Started(Output) THEN current[c] ELSE 0]
  /\ UNCHANGED <<where, streaming, op, todo, list, hand, lost, togo, current,
                 content, shown, frames, signals>>

\* akvcam_buffers_read_frame and write_frame take the first buffer, or give up.
RestKept(s) == s \* a mutated form: list_del is left out
Rest(s) == Tail(s)
TooFew(d) == Len(list[d]) < MinBuffers[d] \* a mutated form
NoBuffer(d) == list[d] = << >>
Take(d) ==
  /\ IF NoBuffer(d)
       THEN At(d, "take", "sleep") /\ UNCHANGED <<hand, list>>
       ELSE /\ At(d, "take", "copy")
            /\ hand' = [hand EXCEPT ![d] = {Head(list[d])}]
            /\ list' = [list EXCEPT ![d] = Rest(@)]
  /\ UNCHANGED <<where, streaming, op, todo, lost, frame, togo, current,
                 content, shown, frames, signals>>

\* The copy, and vb2_buffer_done.
akvcam_buffers_read_frame ==
  /\ At(Output, "copy", "hand over")
  /\ frame' = [frame EXCEPT ![Output] =
                 content[CHOOSE b \in Buffers[Output] : b \in hand[Output]]]
  /\ where' = Moved(Output, hand[Output], "done")
  /\ hand' = [hand EXCEPT ![Output] = {}]
  /\ togo' = SetToSeq(Captures)
  /\ content' = [b \in Buffers[Output] |-> IF b \in hand[Output] THEN 0 ELSE content[b]]
  /\ UNCHANGED <<streaming, op, todo, list, lost, current, shown, frames,
                 signals>>

akvcam_buffers_write_frame(c) ==
  /\ At(c, "copy", "sleep")
  /\ where' = Moved(c, hand[c], "done")
  /\ hand' = [hand EXCEPT ![c] = {}]
  /\ shown' = IF frame[c] = 0 THEN shown ELSE [shown EXCEPT ![c] = frame[c]]
  /\ frame' = [frame EXCEPT ![c] = 0]
  /\ UNCHANGED <<streaming, op, todo, list, lost, togo, current, content,
                 frames, signals>>

\* Each connected capture in turn gets a copy of the frame.
HandOver ==
  /\ IF togo = << >>
       THEN /\ At(Output, "hand over", "sleep")
            /\ frame' = [frame EXCEPT ![Output] = 0]
       ELSE /\ FrameFree(Head(togo)) /\ At(Output, "hand over", "replace")
            /\ UNCHANGED frame
  /\ UNCHANGED <<where, streaming, op, todo, list, hand, lost, togo, current,
                 content, shown, frames, signals>>

Replace ==
  /\ At(Output, "replace", "hand over")
  /\ current' = [current EXCEPT ![Head(togo)] = frame[Output]]
  /\ togo' = Tail(togo)
  /\ UNCHANGED <<where, streaming, op, todo, list, hand, lost, frame, content,
                 shown, frames, signals>>

-----------------------------------------------------------------------------
Thread(d) ==
  \/ Wake(d) \/ Take(d)
  \/ d # Output /\ (Look(d) \/ akvcam_buffers_write_frame(d))
  \/ d = Output /\ (akvcam_buffers_read_frame \/ HandOver \/ Replace)
\* What a call does once it has been made.
Proceed(d) ==
  \/ akvcam_buffers_buffer_queue(d) \/ akvcam_buffers_start_streaming(d)
  \/ akvcam_device_clock_stop(d)
  \/ d # Output /\ Forget(d)
  \/ Flush(d) \/ Cancel(d)
Program(d) ==
  \/ StreamOn(d) \/ StreamOff(d)
  \/ \E b \in Buffers[d] : QBuf(d, b) \/ DQBuf(d, b)

Next == \E d \in Devices : Thread(d) \/ Proceed(d) \/ Program(d)

Spec == Init /\ [][Next]_vars
\* The kernel schedules its threads and the calls that have begun, and its
\* mutexes are handed to who has waited.
Fairness == \A d \in Devices : SF_vars(Thread(d)) /\ SF_vars(Proceed(d))
FairSpec == Spec /\ Fairness

-----------------------------------------------------------------------------
(* Properties.                                                             *)

TypeOK ==
  /\ streaming \in [Devices -> BOOLEAN]
  /\ op \in [Devices -> {"idle", "queue", "stop", "forget", "flush", "cancel"}]
  /\ thread \in [Devices -> {"none", "sleep", "look", "take",
                             "copy", "hand over", "replace"}]
  /\ \A d \in Devices :
       /\ {todo[d][i] : i \in DOMAIN todo[d]} = In(d, "queued")
       /\ where[d] \in [Buffers[d] -> {"user", "queued", "driver", "done"}]
       /\ {list[d][i] : i \in DOMAIN list[d]} \subseteq Buffers[d]
       /\ hand[d] \subseteq Buffers[d] /\ lost[d] \subseteq Buffers[d]
  /\ current \in [Captures -> 0 .. MaxFrames]
  /\ shown \in [Captures -> 0 .. MaxFrames]
  /\ frames \in 0 .. MaxFrames /\ signals \in 0 .. MaxSignals

\* Every buffer the driver has is on the list once, in the hand of the thread
\* or was kept off the list by a signal, and it has no others.
Accounted ==
  \A d \in Devices :
    LET listed == {list[d][i] : i \in DOMAIN list[d]} IN
    /\ Len(list[d]) = Cardinality(listed)
    /\ listed \cap hand[d] = {} /\ (listed \cup hand[d]) \cap lost[d] = {}
    /\ listed \cup hand[d] \cup lost[d] = In(d, "driver")

\* When stop_streaming returns the thread is gone and every buffer is back but
\* those a signal lost, so that vb2 takes nothing from under the driver; and a
\* device that does not stream has neither.
QuietAfterStop ==
  \A d \in Devices :
    op[d] = "cancel" \/ (op[d] = "idle" /\ ~streaming[d]) =>
      thread[d] = "none" /\ In(d, "driver") \subseteq lost[d]

\* Whatever starts and stops in between, no capture ever goes back to an older
\* frame of the output.
FramesInOrder ==
  [][\A c \in Captures : shown'[c] >= shown[c]]_vars

\* A buffer on the list of a device is filled or given back.
BuffersServed ==
  \A d \in Devices : \A b \in Buffers[d] :
    (where[d][b] = "driver" /\ b \notin lost[d]) ~> where[d][b] # "driver"

\* STREAMOFF returns, whatever the other devices do.
StopReturns == \A d \in Devices : (op[d] = "stop") ~> (op[d] = "idle")
=============================================================================
