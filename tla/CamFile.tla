------------------------------ MODULE CamFile ------------------------------
(***************************************************************************)
(* The file reader of qvcam, through which it reads its settings and its   *)
(* default frame: a file is fetched in blocks into a ring that has room    *)
(* for all of it, and a read or a line is taken out of the ring.  What is  *)
(* promised is what reading the file itself would give.                    *)
(***************************************************************************)
EXTENDS Naturals, Sequences, SequencesExt

CONSTANTS
  Files, \* the files: sequences of bytes
  NewLine,
  Block, \* AKVCAM_READ_BLOCK
  Sizes  \* what callers ask for

\* Assumed of the constants: files hold bytes, sizes are unsigned.
Bytes == {NewLine} \cup UNION {ToSet(f) : f \in Files}
FilesHoldBytes ==
  Block \in Nat \ {0} /\ Sizes \subseteq Nat /\ Files \subseteq Seq(Bytes)

VARIABLES
  content,       \* of the file
  isOpen,
  ring,          \* buffer->data, empty when there is none
  read, write,   \* where the ring is read and written
  dataSize,      \* bytes in the ring
  bytesRead,     \* what the reader counts as taken
  fileBytesRead, \* what it counts as fetched
  call,          \* the call in progress, or "none"
  wanted,        \* the size it asked for
  got,           \* history: the bytes the last call gave
  from, pos,     \* history: where in the file it began, and where it ends
  short         \* history: a read has given less than the file has

place == <<isOpen, ring, read, write, dataSize, bytesRead, fileBytesRead>>
vars == <<content, place, call, wanted, got, from, pos,
          short>>

Size == Len(ring) \* also self->size: the ring is as large as the file
Least(a, b) == IF a < b THEN a ELSE b

\* akvcam_rbuffer_queue_bytes: the oldest bytes give way to the new ones.
Between(low, x, high) == low <= x /\ x <= high
akvcam_rbuffer_queue_bytes(bytes) ==
  LET n == Least(Len(bytes), Size)
      full == Between(write, read, write + n - 1) /\ dataSize > 0 IN
  IF Size = 0 THEN UNCHANGED <<ring, read, write, dataSize>>
  ELSE
    /\ ring' = [i \in DOMAIN ring |->
         LET k == (i - 1 + Size - write) % Size IN
           IF k < n THEN bytes[k + 1] ELSE ring[i]]
    /\ write' = (write + n) % Size
    /\ dataSize' = Least(dataSize + n, Size)
    /\ read' = IF full THEN write' ELSE read

\* akvcam_rbuffer_dequeue_bytes: at most what is there; the caller's size is
\* only cut to it if anything is there.
Dequeued(size) == Least(size, dataSize)
Oldest(n) == [k \in 1 .. n |-> ring[((read + k - 1) % Size) + 1]]
SizeAfter(size) == IF dataSize < 1 THEN size ELSE Dequeued(size)
akvcam_rbuffer_dequeue_bytes(size) ==
  LET n == Dequeued(size) IN
  /\ got' = Oldest(n)
  /\ from' = pos /\ pos' = pos + n
  /\ read' = IF dataSize < 1 THEN read ELSE (read + n) % Size
  /\ dataSize' = dataSize - n
  /\ bytesRead' = bytesRead + SizeAfter(size)
  /\ UNCHANGED <<ring, write>>

Cleared == dataSize' = 0 /\ read' = 0 /\ write' = 0

-----------------------------------------------------------------------------
Init ==
  /\ content \in Files
  /\ isOpen = FALSE /\ ring = << >> /\ read = 0 /\ write = 0 /\ dataSize = 0
  /\ bytesRead = 0 /\ fileBytesRead = 0
  /\ call = "none" /\ wanted = 0 /\ got = << >> /\ from = 0 /\ pos = 0
  /\ short = FALSE

\* Open closes what was open; the new ring holds nothing.
akvcam_file_open ==
  /\ call = "none" /\ isOpen' = TRUE
  /\ ring' = [i \in DOMAIN content |-> NewLine] /\ Cleared
  /\ bytesRead' = 0 /\ fileBytesRead' = 0
  /\ got' = << >> /\ from' = 0 /\ pos' = 0 /\ short' = FALSE
  /\ UNCHANGED <<content, call, wanted>>

akvcam_file_close ==
  /\ call = "none" /\ isOpen /\ isOpen' = FALSE
  /\ ring' = << >> /\ Cleared
  /\ bytesRead' = 0 /\ fileBytesRead' = 0
  /\ got' = << >> /\ from' = 0 /\ pos' = 0 /\ short' = FALSE
  /\ UNCHANGED <<content, call, wanted>>

\* From the beginning, the place the reader is at, or the end; within the file.
Bound(n) == Least(n, Size)
SeekKept == fileBytesRead \* a mutated form: the next fetch goes on
SeekTo == bytesRead'
akvcam_file_seek ==
  /\ call = "none" /\ isOpen
  /\ \E n \in Sizes \cup {0} :
       bytesRead' \in {Bound(n), Bound(bytesRead + n),
                       IF n > bytesRead THEN 0 ELSE Bound(bytesRead - n),
                       IF n > Size THEN 0 ELSE Size - n}
  /\ fileBytesRead' = SeekTo
  /\ Cleared
  /\ got' = << >> /\ from' = bytesRead' /\ pos' = bytesRead' /\ short' = FALSE
  /\ UNCHANGED <<content, isOpen, ring, call, wanted>>

\* The count of a reader that is past the end is not followed further.
Begin(what, size) ==
  /\ call = "none" /\ isOpen /\ bytesRead <= Size
  /\ call' = what /\ wanted' = size
  /\ got' = << >> /\ from' = pos
  /\ UNCHANGED <<content, place, pos, short>>
BeginRead == \E n \in Sizes : Begin("read", n)
BeginLine == Begin("line", 0)

\* akvcam_rbuffer_find, from the oldest byte on; 0 if there is none.
FirstNewLine ==
  LET at == {k \in 1 .. dataSize : Oldest(dataSize)[k] = NewLine} IN
  IF at = {} THEN 0 ELSE CHOOSE k \in at : \A j \in at : k <= j

\* Both loops fetch a block at a time as long as the file has more.
Lacking ==
  /\ fileBytesRead < Size
  /\ call = "read" => dataSize < wanted
  /\ call = "line" => FirstNewLine = 0
Fetch ==
  /\ call # "none" /\ Lacking
  /\ LET bytes == SubSeq(content, fileBytesRead + 1,
                         Least(fileBytesRead + Block, Size)) IN
       /\ akvcam_rbuffer_queue_bytes(bytes)
       /\ fileBytesRead' = fileBytesRead + Len(bytes)
  /\ UNCHANGED <<content, isOpen, bytesRead, call, wanted, got, from, pos,
                 short>>

\* kernel_read fails: a read makes do with what it has.  (A line would queue a
\* block of the size of the error; the model ends there.)
akvcam_file_read ==
  /\ call = "read"
  /\ short' = (short \/ Lacking)
  /\ LET n == Least(Size, wanted) IN
       IF n < 1 THEN UNCHANGED <<place, from, pos>> /\ got' = << >>
       ELSE /\ akvcam_rbuffer_dequeue_bytes(n)
            /\ UNCHANGED <<isOpen, fileBytesRead>>
  /\ call' = "none" /\ UNCHANGED <<content, wanted>>

\* A line ends after its new line, or with the data.
LineEnd == IF FirstNewLine > 0 THEN FirstNewLine ELSE dataSize
akvcam_file_read_line ==
  /\ call = "line" /\ ~Lacking
  /\ IF FirstNewLine > 0 \/ bytesRead < Size
       THEN /\ akvcam_rbuffer_dequeue_bytes(LineEnd)
            /\ UNCHANGED <<isOpen, fileBytesRead>>
       ELSE UNCHANGED <<place, from, pos>> /\ got' = << >>
  /\ call' = "none" /\ UNCHANGED <<content, wanted, short>>

Next ==
  \/ akvcam_file_open \/ akvcam_file_close \/ akvcam_file_seek
  \/ BeginRead \/ BeginLine
  \/ Fetch \/ akvcam_file_read \/ akvcam_file_read_line

Spec == Init /\ [][Next]_vars

-----------------------------------------------------------------------------
(* Properties.                                                             *)

TypeOK ==
  /\ isOpen \in BOOLEAN
  /\ isOpen => Size = Len(content)
  /\ read \in 0 .. Size /\ write \in 0 .. Size /\ dataSize \in 0 .. Size
  /\ call \in {"none", "read", "line"} /\ wanted \in Sizes \cup {0}

\* Whatever was fetched, seeked and read before, a call gives the bytes of the
\* file from where the reader is: a line to its end, a read all it asked for or
\* what there is.  The reader is past the end only after a read at the end,
\* which counts what it does not give; and after a read that could not fetch
\* its count is not right.
ReadsFile ==
  /\ got = SubSeq(content, from + 1, from + Len(got)) /\ pos = from + Len(got)
  /\ isOpen /\ ~short =>
       /\ bytesRead = pos \/ (bytesRead > pos /\ pos = Size)
       /\ bytesRead <= Size => bytesRead + dataSize = fileBytesRead
       /\ call = "none" /\ got # << >> =>
            /\ pos < Size => IF wanted = 0 THEN Last(got) = NewLine
                                          ELSE Len(got) = wanted
            /\ wanted = 0 => NewLine \notin ToSet(Front(got))
=============================================================================
