----------------------------- MODULE QvioQueue -----------------------------
(***************************************************************************)
(* The capture queue of a qvio video device: the format and the buffers    *)
(* vb2 allocates for it, the list of buffers that wait, those submitted to *)
(* the DMA engine when the stream starts, and the one that a BUF_DONE call *)
(* fills.  vb2's calls hold queue_mutex; S_FMT and BUF_DONE hold the       *)
(* device_mutex, so that they run beside them; so does __io_done.          *)
(* XdmaEngine says what the engine does with a submitted buffer.           *)
(***************************************************************************)
EXTENDS Integers, Sequences, FiniteSets, SequencesExt

CONSTANTS
  Buffers,      \* what a program asks for
  MinBuffers,   \* min_buffers_needed
  Formats,      \* [pix, width, height]
  HAlign, VAlign, PageSize,
  MaxFailures,  \* bound: transfers the engine refuses or fails
  MaxSignals    \* bound: signals that interrupt a wait for buffers_mutex

\* Assumed of the constants.
SizesPositive ==
  /\ HAlign \in Nat \ {0} /\ VAlign \in Nat \ {0} /\ PageSize \in Nat \ {0}
  /\ Formats \subseteq [pix : STRING, width : Nat \ {0}, height : Nat \ {0}]

VARIABLES
  board,     \* which register layout: "F715" or "F757"
  format,    \* queue.current_format, empty before the first S_FMT
  sizes,     \* the planes vb2 allocated, empty without buffers
  pages,     \* the pieces of a buffer the engine is given
  where,     \* each buffer: "user", "queued" in vb2, "driver", "done"
  queued,    \* vb2's list of the buffers that were not dequeued
  streaming, started, \* of vb2
  op,        \* what the call under queue_mutex is at
  reader,    \* what BUF_DONE is at
  buffers,   \* self->buffers
  submitted, \* given to the engine, which serves them in turn
  hand,      \* what BUF_DONE took
  lost,      \* history: neither listed nor submitted any more
  torn,      \* history: vb2 took them back while the driver had them
  reg,       \* bits of the stream register
  failures, signals \* counted for the bounds

memory == <<format, sizes, pages>>
counts == <<failures, signals>>
vars == <<board, memory, where, queued, streaming, started, op, reader,
          buffers, submitted, hand, lost, torn, reg, counts>>

-----------------------------------------------------------------------------
(* Formats and their sizes; the device is not multi-planar, the code could *)
(* drive one that is.                                                      *)

qvio_video_enum_fmt == <<"YUYV", "NV12", "M420">>
qvio_video_try_fmt(f) == f.pix \in Range(qvio_video_enum_fmt)
qvio_video_enum_framesizes == {n \in 64 .. 4096 : n % 8 = 0}

Align(n, a) == ((n + a - 1) \div a) * a

\* What qvio_video_s_fmt tells the program, in bytes per plane.
qvio_video_s_fmt(f, mplane) ==
  LET line(w) == Align(w, HAlign)
      lines(h) == Align(h, VAlign) IN
  CASE f.pix = "YUYV" -> <<line(f.width * 2) * lines(f.height)>>
    [] f.pix = "NV12" /\ ~mplane ->
         <<(line(f.width) * lines(f.height) * 3) \div 2>>
    [] f.pix = "NV12" /\ mplane ->
         <<line(f.width) * lines(f.height),
           (line(f.width) * lines(f.height)) \div 2>>
    [] f.pix = "M420" -> <<line(f.width) * lines((f.height * 3) \div 2)>>

area(w, h) == Align(w, HAlign) * Align(h, VAlign)
HalfMoreUp(h) == (h * 3 + 1) \div 2 \* a mutated form: rounds up
HalfMore(h) == (h * 3) \div 2

\* What __queue_setup asks vb2 for.
queue_setup(f, mplane) ==
  CASE f.pix = "YUYV" -> <<area(f.width * 2, f.height)>>
    [] f.pix = "NV12" /\ ~mplane -> <<(area(f.width, f.height) * 3) \div 2>>
    [] f.pix = "NV12" /\ mplane ->
         <<area(f.width, f.height), area(f.width, f.height) \div 2>>
    [] f.pix = "M420" -> <<area(f.width, HalfMore(f.height))>>

\* What __buf_prepare wants a buffer to have at least.
buf_prepare(f, mplane) ==
  CASE f.pix = "YUYV" /\ ~mplane -> <<area(f.width, f.height) * 2>>
    [] f.pix = "YUYV" /\ mplane -> <<area(f.width * 2, f.height)>>
    [] f.pix = "NV12" /\ ~mplane -> <<(area(f.width, f.height) * 3) \div 2>>
    [] f.pix = "NV12" /\ mplane ->
         <<area(f.width, f.height), area(f.width, f.height) \div 2>>
    [] f.pix = "M420" -> <<area(f.width, HalfMore(f.height))>>

Accepts(f, mplane, planes) ==
  \A i \in DOMAIN buf_prepare(f, mplane) : planes[i] >= buf_prepare(f, mplane)[i]

\* The pieces vmalloc_dma_map_sg makes of a plane.
Least(a, b) == IF a < b THEN a ELSE b
Pieces(size) == Align(size, PageSize) \div PageSize
LeftAfter(size) ==
  LET left[i \in 0 .. Pieces(size)] ==
        IF i = 0 THEN size ELSE left[i - 1] - Least(left[i - 1], PageSize) IN
  left
vmalloc_dma_map_sg(size) ==
  [i \in 1 .. Pieces(size) |-> Least(LeftAfter(size)[i - 1], PageSize)]

-----------------------------------------------------------------------------
Listed == ToSet(buffers)
Flying == ToSet(submitted) \cup hand
In(state) == {b \in Buffers : where[b] = state}
Moved(B, state) == [b \in Buffers |-> IF b \in B THEN state ELSE where[b]]
\* vb2_buffer_done minds only a buffer the driver has.
vb2_buffer_done(b) == Moved({b} \cap In("driver"), "done")
\* The model ends where a buffer is freed, or put on the list again, that the
\* driver still has.
Free(B) == B \cap (Listed \cup Flying) = {}

Init ==
  /\ board \in {"F715", "F757"}
  /\ format = << >> /\ sizes = << >> /\ pages = << >>
  /\ where = [b \in Buffers |-> "user"]
  /\ queued = << >> /\ streaming = FALSE /\ started = FALSE
  /\ op = "idle" /\ reader = "idle"
  /\ buffers = << >> /\ submitted = << >>
  /\ hand = {} /\ lost = {} /\ torn = {}
  /\ reg = {} /\ failures = 0 /\ signals = 0

\* mutex_lock_interruptible fails in a call that has a signal, if it has to
\* wait for another that is at the list.
Interrupted(other) ==
  /\ other /\ signals < MaxSignals
  /\ signals' = signals + 1 /\ UNCHANGED failures
EngineFails ==
  /\ failures < MaxFailures
  /\ failures' = failures + 1 /\ UNCHANGED signals
ReaderAtList == reader = "take"
CallAtList == op \in {"queue", "start", "flush"}

-----------------------------------------------------------------------------
(* Calls.                                                                  *)

\* VIDIOC_S_FMT: vb2 is not asked whether it has buffers.
SFmt(f) ==
  /\ reader = "idle" /\ qvio_video_try_fmt(f)
  /\ format' = <<f>>
  /\ UNCHANGED <<board, sizes, pages, where, queued, streaming, started, op,
                 reader, buffers, submitted, hand, lost, torn, reg, counts>>

\* VIDIOC_REQBUFS with a count, or 0: the buffers there were go first.
ReqBufs(new) ==
  /\ op = "idle" /\ ~streaming /\ Free(Buffers)
  /\ \A b \in Buffers : where[b] = "user"
  /\ new => format # << >>
  /\ sizes' = IF new THEN queue_setup(format[1], FALSE) ELSE << >>
  /\ pages' = IF new THEN vmalloc_dma_map_sg(sizes'[1]) ELSE << >>
  /\ UNCHANGED <<board, format, where, queued, streaming, started, op,
                 reader, buffers, submitted, hand, lost, torn, reg, counts>>

\* vb2 gives the driver no buffer before it has the minimum.
Begin(count) ==
  op' = IF started \/ count >= MinBuffers THEN "queue" ELSE op

QBuf(b) ==
  /\ op = "idle" /\ sizes # << >> /\ where[b] = "user"
  /\ Free({b} \cup In("queued"))
  /\ Accepts(format[1], FALSE, sizes)
  /\ where' = Moved({b}, "queued")
  /\ queued' = Append(queued, b)
  /\ IF streaming THEN Begin(Len(queued')) ELSE UNCHANGED op
  /\ UNCHANGED <<board, memory, streaming, started, reader, buffers,
                 submitted, hand, lost, torn, reg, counts>>

StreamOn ==
  /\ op = "idle" /\ sizes # << >> /\ ~streaming
  /\ Free(In("queued"))
  /\ streaming' = (Len(queued) < MinBuffers)
  /\ Begin(Len(queued))
  /\ UNCHANGED <<board, memory, where, queued, started, reader, buffers,
                 submitted, hand, lost, torn, reg, counts>>

\* __buf_queue of the next one; a signal keeps it off the list.
Waits(i) == where[queued[i]] = "queued"
buf_queue ==
  /\ op = "queue"
  /\ \E i \in DOMAIN queued : LET b == queued[i] IN
     /\ Waits(i) /\ \A j \in 1 .. i - 1 : ~Waits(j)
     /\ where' = Moved({b}, "driver")
     /\ \/ buffers' = Append(buffers, b) /\ UNCHANGED <<lost, counts>>
        \/ Interrupted(ReaderAtList) /\ lost' = lost \cup {b} /\ UNCHANGED buffers
  /\ UNCHANGED <<board, memory, queued, streaming, started, op, reader,
                 submitted, hand, torn, reg>>

StreamOffBit(r) == r \ {"on"}

\* start_streaming begins: F715 never writes the word with the format's bits,
\* the other board adds them to those of earlier streams.  The bit of a packed
\* format is its stream bit.
FormatBits == IF format[1].pix = "YUYV" THEN {"on"} ELSE {"planar"}
Configure ==
  /\ op = "queue" /\ In("queued") = {}
  /\ op' = IF started THEN "idle" ELSE "start"
  /\ reg' = IF started \/ board = "F715" THEN reg
            ELSE StreamOffBit(reg \cup FormatBits)
  /\ UNCHANGED <<board, memory, where, queued, streaming, started, reader,
                 buffers, submitted, hand, lost, torn, counts>>

\* Each listed buffer is submitted.
RestKept(s) == s \* a mutated form: list_del is left out
Rest(s) == Tail(s)
Submit ==
  /\ op = "start" /\ buffers # << >>
  /\ \/ /\ buffers' = Rest(buffers)
        /\ \/ /\ submitted' = Append(submitted, Head(buffers))
              /\ UNCHANGED <<lost, torn, op, counts>>
           \/ /\ EngineFails /\ op' = "failed"
              /\ lost' = lost \cup ({Head(buffers)} \cap In("driver"))
              /\ torn' = torn \ {Head(buffers)}
              /\ UNCHANGED submitted
     \/ /\ Interrupted(ReaderAtList) /\ op' = "failed"
        /\ UNCHANGED <<buffers, submitted, lost, torn>>
  /\ UNCHANGED <<board, memory, where, queued, streaming, started, reader,
                 hand, reg>>

Started ==
  /\ op = "start" /\ buffers = << >>
  /\ started' = TRUE /\ streaming' = TRUE /\ op' = "idle"
  /\ reg' = reg \cup {"on"}
  /\ UNCHANGED <<board, memory, where, queued, reader, buffers, submitted,
                 hand, lost, torn, counts>>

\* vb2 takes back what a start that failed has left in the driver.
Failed ==
  /\ op = "failed"
  /\ where' = Moved(In("driver"), "queued")
  /\ torn' = torn \cup (In("driver") \ lost)
  /\ lost' = {} /\ op' = "idle"
  /\ UNCHANGED <<board, memory, queued, streaming, started, reader, buffers,
                 submitted, hand, reg, counts>>

DQBuf(b) ==
  /\ op = "idle" /\ where[b] = "done"
  /\ where' = Moved({b}, "user")
  /\ \E i \in DOMAIN queued : queued[i] = b /\ queued' = RemoveAt(queued, i)
  /\ UNCHANGED <<board, memory, streaming, started, op, reader, buffers,
                 submitted, hand, lost, torn, reg, counts>>

\* STREAMOFF: stop_streaming turns the stream off and gives the list back,
\* then vb2 takes whatever is left.
StreamOff ==
  /\ op = "idle" /\ (streaming \/ queued # << >>)
  /\ op' = IF started THEN "flush" ELSE "cancel"
  /\ reg' = IF started THEN StreamOffBit(reg) ELSE reg
  /\ UNCHANGED <<board, memory, where, queued, streaming, started, reader,
                 buffers, submitted, hand, lost, torn, counts>>

Flush ==
  /\ op = "flush"
  /\ \/ /\ where' = Moved(Listed \cap In("driver"), "done")
        /\ buffers' = << >> /\ UNCHANGED counts
     \/ Interrupted(ReaderAtList) /\ UNCHANGED <<where, buffers>>
  /\ op' = "cancel"
  /\ UNCHANGED <<board, memory, queued, streaming, started, reader, submitted,
                 hand, lost, torn, reg>>

Cancel ==
  /\ op = "cancel"
  /\ torn' = torn \cup (In("driver") \ lost)
  /\ where' = Moved(Buffers, "user")
  /\ queued' = << >> /\ lost' = {}
  /\ streaming' = FALSE /\ started' = FALSE /\ op' = "idle"
  /\ UNCHANGED <<board, memory, reader, buffers, submitted, hand, reg, counts>>

-----------------------------------------------------------------------------
(* QVID_IOC_BUF_DONE: __read_one_frame takes the next buffer and waits     *)
(* until the engine has filled it, or has not; and the engine's callback.  *)

BufDone ==
  /\ reader = "idle" /\ reader' = "take"
  /\ UNCHANGED <<board, memory, where, queued, streaming, started, op, buffers,
                 submitted, hand, lost, torn, reg, counts>>

Take ==
  /\ reader = "take"
  /\ \/ buffers = << >> /\ reader' = "idle" /\ UNCHANGED <<hand, buffers, counts>>
     \/ /\ Interrupted(CallAtList) /\ reader' = "idle"
        /\ UNCHANGED <<hand, buffers>>
     \/ /\ buffers # << >> /\ reader' = "dma"
        /\ hand' = {Head(buffers)} /\ buffers' = Rest(buffers)
        /\ UNCHANGED counts
  /\ UNCHANGED <<board, memory, where, queued, streaming, started, op,
                 submitted, lost, torn, reg>>

Filled ==
  /\ reader = "dma" /\ reader' = "idle"
  /\ \E b \in hand : where' = vb2_buffer_done(b)
  /\ torn' = torn \ hand
  /\ hand' = {}
  /\ UNCHANGED <<board, memory, queued, streaming, started, op, buffers,
                 submitted, lost, reg, counts>>

\* A transfer that failed leaves the buffer where it is.
io_done ==
  /\ submitted # << >>
  /\ LET b == Head(submitted) IN
     /\ torn' = torn \ {b}
     /\ \/ where' = vb2_buffer_done(b) /\ UNCHANGED <<lost, counts>>
        \/ /\ EngineFails /\ UNCHANGED where
           /\ lost' = lost \cup ({b} \cap In("driver"))
  /\ submitted' = Tail(submitted)
  /\ UNCHANGED <<board, memory, queued, streaming, started, op, reader,
                 buffers, hand, reg>>

Next ==
  \/ \E f \in Formats : SFmt(f)
  \/ \E new \in BOOLEAN : ReqBufs(new)
  \/ \E b \in Buffers : QBuf(b) \/ DQBuf(b)
  \/ StreamOn \/ buf_queue \/ Configure \/ Submit \/ Started \/ Failed
  \/ StreamOff \/ Flush \/ Cancel
  \/ BufDone \/ Take \/ Filled \/ io_done

Spec == Init /\ [][Next]_vars

-----------------------------------------------------------------------------
(* Properties.                                                             *)

TypeOK ==
  /\ where \in [Buffers -> {"user", "queued", "driver", "done"}]
  /\ op \in {"idle", "queue", "start", "failed", "flush", "cancel"}
  /\ reader \in {"idle", "take", "dma"} /\ (reader = "dma") = (hand # {})
  /\ Listed \cup Flying \cup lost \cup torn \subseteq Buffers
  /\ ToSet(queued) = {b \in Buffers : where[b] # "user"}
  /\ started => streaming
  /\ reg \subseteq {"on", "planar"}
  /\ failures \in 0 .. MaxFailures /\ signals \in 0 .. MaxSignals

\* The driver has a buffer in one place: on the list, with the engine, with
\* BUF_DONE, or nowhere because of a signal or a failed transfer; and those it
\* has are vb2's active ones and those vb2 took back by force.
Accounted ==
  /\ Len(buffers) + Len(submitted) + Cardinality(hand) =
       Cardinality(Listed \cup Flying)
  /\ lost \cap (Listed \cup Flying) = {}
  /\ Listed \cup Flying \cup lost = In("driver") \cup torn

\* A buffer is as large as the program was told, is accepted as long as the
\* format is the one it was allocated for, and all of it is given to the
\* engine; where the width of a packed format is one that is aligned twice, it
\* is not accepted.
AlignedTwice(f) ==
  /\ f.pix = "YUYV"
  /\ Align(f.width * 2, HAlign) < Align(f.width, HAlign) * 2
Known == [pix : Range(qvio_video_enum_fmt),
          width : {f.width : f \in Formats}, height : {f.height : f \in Formats}]
Total(s) ==
  LET upTo[i \in 0 .. Len(s)] == IF i = 0 THEN 0 ELSE upTo[i - 1] + s[i] IN
  upTo[Len(s)]
SizesAgree ==
  /\ sizes = << >> => \A f \in Known, mplane \in BOOLEAN :
       /\ qvio_video_s_fmt(f, mplane) = queue_setup(f, mplane)
       /\ ~Accepts(f, mplane, queue_setup(f, mplane)) <=> AlignedTwice(f) /\ ~mplane
  /\ sizes # << >> =>
       /\ Total(pages) = sizes[1]
       /\ \A i \in DOMAIN pages : pages[i] \in 1 .. PageSize

\* The board sends frames while and only while vb2 has the stream started, and
\* whatever a start that fails has already done.
StreamBit ==
  "on" \in reg <=> started /\ op \notin {"flush", "cancel"}
=============================================================================
