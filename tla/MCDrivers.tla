----------------------------- MODULE MCDrivers ------------------------------
(***************************************************************************)
(* The parts of the drivers whose properties are safety properties, for    *)
(* TLC: a behaviour is that of one part, the state of the others rests.    *)
(* The life cycles of qvio and qdmabuf are scripts of module Unwind and    *)
(* share its variables.                                                    *)
(***************************************************************************)
EXTENDS Naturals, Sequences

CONSTANTS
  MaxRefusals, MaxSwitches, MaxHeld, MaxVmas,    \* of the life cycles
  Buffers, MinBuffers, Formats, HAlign, VAlign, PageSize, MaxFailures,
  MaxSignals,                                    \* of the capture queue
  Files, NewLine, Block, Sizes,                  \* of the file reader
  N, Outputs, Numbered, Settings, MaxRejected    \* of qvcam's settings

VARIABLES
  part, \* which one it is
  stack, held, known, refused, absent, refusals, failed, over, loaded, bound,
  state, switches, file, careful, \* of qvio's life cycle
  kind, vmas,                     \* of qdmabuf's
  board, format, sizes, pages, where, queued, streaming, started, op, reader,
  buffers, submitted, hand, lost, torn, reg, failures, signals,
  content, isOpen, ring, read, write, dataSize, bytesRead, fileBytesRead, call,
  wanted, got, from, pos, short,
  phase, connections, stale, links, refs, turn, registered, rejected

\* A packed format that is aligned once and one with an odd number of lines.
SmallFormats == {[pix |-> "YUYV", width |-> 96, height |-> 64],
                 [pix |-> "M420", width |-> 104, height |-> 67]}

\* Files with and without a new line at the end, an empty one, one that is
\* several blocks long.
SmallFiles ==
  {<<1, 2, NewLine, 3, 4>>, <<1, 2, 3, NewLine>>, <<NewLine, 1>>, << >>}

\* Node lists in and out of range, with repetitions, outputs first or not.
Nodes == UNION {[1 .. k -> 0 .. N + 1] : k \in 1 .. 3}

Good(n) ==
  \/ Len(n) < 2
  \/ /\ n[1] \in Outputs
     /\ \A j \in 2 .. Len(n) : n[j] \in (1 .. N) \ Outputs
SmallSettings == {<<a, b>> : a \in {n \in Nodes : Len(n) # 2 /\ Good(n)},
                             b \in {n \in Nodes : Len(n) = 3 => n[3] \in 1 .. N}}

Queue == INSTANCE QvioQueueProofs \* QvioQueue with its theorems
Reader == INSTANCE CamFile
Load == INSTANCE CamConnect
Qvio == INSTANCE QvioLifecycle
Qdmabuf == INSTANCE QdmabufLifecycle

ASSUME ConstantsFit ==
  Queue!SizesPositive /\ Reader!FilesHoldBytes /\ Load!OutputsAreDevices

ofUnwind == <<stack, held, known, refused, absent, refusals, failed, over,
              loaded, bound>>
ofQvio == <<state, switches, file, careful>>
ofQdmabuf == <<kind, vmas>>
ofQueue == <<board, format, sizes, pages, where, queued, streaming, started, op,
             reader, buffers, submitted, hand, lost, torn, reg, failures, signals>>
ofReader == <<content, isOpen, ring, read, write, dataSize, bytesRead,
              fileBytesRead, call, wanted, got, from, pos, short>>
ofLoad == <<phase, connections, stale, links, refs, turn, registered, rejected>>
vars == <<part, ofUnwind, ofQvio, ofQdmabuf, ofQueue, ofReader, ofLoad>>

\* What a part that rests is at.
QvioRests == state = "online" /\ switches = 0 /\ file = FALSE /\ careful = TRUE
QdmabufRests == kind = "vmalloc" /\ vmas = 0
CyclesRest == Qvio!Init /\ careful /\ Qvio!IsPci /\ QdmabufRests
QueueRests == Queue!Init /\ board = "F757"
ReaderRests == Reader!Init /\ content = << >>
LoadRests == Load!Init /\ connections = <<<<1>>, <<1>>>>

Init ==
  \/ /\ part = "qvio" /\ Qvio!Init
     /\ QdmabufRests /\ QueueRests /\ ReaderRests /\ LoadRests
  \/ /\ part = "qdmabuf" /\ Qdmabuf!Init
     /\ QvioRests /\ QueueRests /\ ReaderRests /\ LoadRests
  \/ /\ part = "queue" /\ Queue!Init
     /\ CyclesRest /\ ReaderRests /\ LoadRests
  \/ /\ part = "reader" /\ Reader!Init
     /\ CyclesRest /\ QueueRests /\ LoadRests
  \/ /\ part = "load" /\ Load!Init
     /\ CyclesRest /\ QueueRests /\ ReaderRests

Next ==
  /\ UNCHANGED part
  /\ \/ /\ part = "qvio" /\ Qvio!Next
        /\ UNCHANGED <<ofQdmabuf, ofQueue, ofReader, ofLoad>>
     \/ /\ part = "qdmabuf" /\ Qdmabuf!Next
        /\ UNCHANGED <<ofQvio, ofQueue, ofReader, ofLoad>>
     \/ /\ part = "queue" /\ Queue!Next
        /\ UNCHANGED <<ofUnwind, ofQvio, ofQdmabuf, ofReader, ofLoad>>
     \/ /\ part = "reader" /\ Reader!Next
        /\ UNCHANGED <<ofUnwind, ofQvio, ofQdmabuf, ofQueue, ofLoad>>
     \/ /\ part = "load" /\ Load!Next
        /\ UNCHANGED <<ofUnwind, ofQvio, ofQdmabuf, ofQueue, ofReader>>

Spec == Init /\ [][Next]_vars

-----------------------------------------------------------------------------
(* Properties, each stated where the part is modelled.                     *)

\* Every variable of every part keeps its type: every frame is of a function of
\* the driver, no count leaves its range.
TypeOK ==
  /\ part = "qvio" => Qvio!TypeOK
  /\ part = "qdmabuf" => Qdmabuf!TypeOK
  /\ part = "queue" => Queue!TypeOK
  /\ part = "reader" => Reader!TypeOK
  /\ part = "load" => Load!TypeOK

\* Set-up and tear-down release what was held, once: with a careful
\* administrator and none of the refusals the code mishandles, over every path
\* through the labels and every sequence of binding, recovery and unbinding;
\* with a careless one the harm stays with interrupts and the enable count; and
\* however ioctls, importer and maps of a dma-buf are interleaved.
ReleasedOnce ==
  /\ part = "qvio" => Qvio!ReleasedOnce /\ Qvio!HarmContained
  /\ part = "qdmabuf" => Qdmabuf!ReleasedOnce

\* Nothing outlives what it uses: no interrupt handler without its engine and
\* registers, no node without its device, no mapping without its attachment.
NothingOutlives ==
  /\ part = "qvio" => Qvio!NothingOutlives
  /\ part = "qdmabuf" => Qdmabuf!OneMapping

\* A probe of qvio that returns leaves a complete device bound, or nothing.
AllOrNothing == part = "qvio" => Qvio!AllOrNothing

\* When a module, or the last user of a buffer, is gone, so is what it acquired.
NothingLeft ==
  /\ part = "qvio" => Qvio!NothingLeft
  /\ part = "qdmabuf" => Qdmabuf!NothingLeft

\* A dma-buf and its memory stay while a map, an importer or a descriptor uses
\* them.
BufferWhileUsed == part = "qdmabuf" => Qdmabuf!BufferWhileUsed

\* The capture queue has each buffer in one place, and the board sends frames
\* while and only while the stream is started.
Accounted == part = "queue" => Queue!Accounted /\ Queue!StreamBit

\* Formats, allocations, the check of a buffer and its DMA pieces agree.
SizesAgree == part = "queue" => Queue!SizesAgree

\* Reads and lines of a file are the bytes of the file from where it is at.
ReadsFile == part = "reader" => Reader!ReadsFile

\* Devices of qvcam are connected both ways, registered all or none, and only
\* the connected ones are left behind.
WellConnected == part = "load" => Load!WellConnected
=============================================================================
