--------------------------- MODULE QvioQueueProofs ---------------------------
(***************************************************************************)
(* Theorems about QvioQueue, for every set of buffers, every minimum, any  *)
(* number of failed transfers and of signals, on either board.             *)
(***************************************************************************)
EXTENDS QvioQueue, ListFacts

Submitted == ToSet(submitted)
Active == Listed \cup Flying

\* The types of the variables that say where a buffer is.
Typed ==
  /\ where \in [Buffers -> {"user", "queued", "driver", "done"}]
  /\ op \in {"idle", "queue", "start", "failed", "flush", "cancel"}
  /\ reader \in {"idle", "take", "dma"}
  /\ streaming \in BOOLEAN /\ started \in BOOLEAN
  /\ buffers \in Seq(Buffers) /\ submitted \in Seq(Buffers)
  /\ queued \in Seq(Buffers)
  /\ lost \subseteq Buffers /\ torn \subseteq Buffers
  /\ IF reader = "dma" THEN \E b \in Buffers : hand = {b} ELSE hand = {}
  /\ reg \subseteq {"on", "planar"}
  /\ failures \in Nat /\ signals \in Nat

\* No buffer is on a list twice, or in two places of the driver.
Apart ==
  /\ IsInjective(buffers) /\ IsInjective(submitted)
  /\ Listed \cap Submitted = {}
  /\ hand \cap (Listed \cup Submitted) = {}

\* vb2's list has the buffers that were not dequeued, each once.
Queueing ==
  /\ IsInjective(queued)
  /\ ToSet(queued) = {b \in Buffers : where[b] # "user"}

\* The driver has the buffers that are active for vb2, or lost, and those that
\* vb2 took back.
Held ==
  /\ lost \cap Active = {} /\ torn \cap lost = {} /\ torn \cap In("driver") = {}
  /\ Active \cup lost = In("driver") \cup torn

\* A stream begins with a list that has nothing on it that vb2 took back, and
\* vb2 does not hand over a buffer that the driver still has.
Phases ==
  /\ started => streaming
  /\ op \in {"start", "failed"} => ~started
  /\ op = "flush" => started
  /\ started => torn \cap Listed = {}
  /\ op = "queue" => In("queued") \cap Active = {}

QueueInv == Typed /\ Apart /\ Queueing /\ Held /\ Phases /\ StreamBit

-----------------------------------------------------------------------------
(* What the steps have in common.                                          *)

\* Buffers that are moved are in their new state, the others stay.
LEMMA Lemma_Moved ==
  ASSUME Typed, NEW B \in SUBSET Buffers,
         NEW state \in {"user", "queued", "driver", "done"},
         where' = Moved(B, state)
  PROVE  /\ where' \in [Buffers -> {"user", "queued", "driver", "done"}]
         /\ \A b \in Buffers : where'[b] = IF b \in B THEN state ELSE where[b]
         /\ In(state)' = In(state) \cup B
         /\ \A s \in {"user", "queued", "driver", "done"} \ {state} :
              In(s)' = In(s) \ B
BY DEF Typed, Moved, In

\* The queue is empty and the stream is off at first.
LEMMA Lemma_Init == Init => QueueInv
<1> SUFFICES ASSUME Init PROVE QueueInv
  OBVIOUS
<1>1. /\ where = [b \in Buffers |-> "user"]
      /\ queued = << >> /\ buffers = << >> /\ submitted = << >>
      /\ hand = {} /\ lost = {} /\ torn = {} /\ reg = {}
      /\ failures = 0 /\ signals = 0
      /\ streaming = FALSE /\ started = FALSE /\ op = "idle" /\ reader = "idle"
  BY DEF Init
<1>2. Listed = {} /\ Submitted = {} /\ ToSet(queued) = {} /\ Active = {}
  BY <1>1, ListEmpty DEF Listed, Submitted, Active, Flying
<1>3. In("driver") = {} /\ {b \in Buffers : where[b] # "user"} = {}
  BY <1>1 DEF In
<1>4. Typed
  BY <1>1, ListEmpty DEF Typed
<1> QED
  BY <1>1, <1>2, <1>3, <1>4, ListEmpty
     DEF QueueInv, Apart, Queueing, Held, Phases, StreamBit

\* Calls that do not touch a buffer.
LEMMA Lemma_Aside ==
  ASSUME QueueInv,
         \/ \E f \in Formats : SFmt(f)
         \/ \E new \in BOOLEAN : ReqBufs(new)
         \/ BufDone \/ Configure \/ UNCHANGED vars
  PROVE  QueueInv'
<1> USE DEF QueueInv, Typed, Apart, Queueing, Held, Phases, StreamBit, Active,
            Submitted, Listed, Flying, In, counts, memory
<1>1. CASE \E f \in Formats : SFmt(f)
  BY <1>1 DEF SFmt
<1>2. CASE \E new \in BOOLEAN : ReqBufs(new)
  BY <1>2 DEF ReqBufs
<1>3. CASE BufDone
  BY <1>3 DEF BufDone
<1>4. CASE Configure
  BY <1>4 DEF Configure, StreamOffBit, FormatBits
<1>5. CASE UNCHANGED vars
  BY <1>5 DEF vars
<1> QED
  BY <1>1, <1>2, <1>3, <1>4, <1>5

\* Calls that change what vb2 is at.
LEMMA Lemma_Phase ==
  ASSUME QueueInv, StreamOn \/ Started \/ StreamOff
  PROVE  QueueInv'
<1> USE DEF QueueInv, Typed, Apart, Queueing, Held, Phases, StreamBit, Active,
            Submitted, Listed, Flying, In, counts, memory
<1>1. CASE StreamOn
  BY <1>1 DEF StreamOn, Begin, Free
<1>2. CASE Started
  <2>1. Listed = {}
    BY <1>2, ListEmpty DEF Started
  <2> QED
    BY <1>2, <2>1 DEF Started
<1>3. CASE StreamOff
  BY <1>3 DEF StreamOff, StreamOffBit
<1> QED
  BY <1>1, <1>2, <1>3

\* A buffer is given to vb2, at the end of its list.
LEMMA Lemma_QBuf ==
  ASSUME QueueInv, NEW b \in Buffers, QBuf(b)
  PROVE  QueueInv'
<1>1. /\ where' \in [Buffers -> {"user", "queued", "driver", "done"}]
      /\ \A c \in Buffers : where'[c] = IF c = b THEN "queued" ELSE where[c]
      /\ In("queued")' = In("queued") \cup {b} /\ In("driver")' = In("driver") \ {b}
  <2>1. {b} \in SUBSET Buffers /\ where' = Moved({b}, "queued")
    BY DEF QBuf
  <2> QED
    BY <2>1, Lemma_Moved DEF QueueInv
<1>2. /\ where[b] = "user" /\ b \notin ToSet(queued) /\ b \notin In("driver")
      /\ ({b} \cup In("queued")) \cap Active = {}
  BY DEF QBuf, QueueInv, Queueing, In, Free, Active
<1>3. /\ queued' \in Seq(Buffers) /\ ToSet(queued') = ToSet(queued) \cup {b}
      /\ IsInjective(queued')
  BY <1>2, ListAppend DEF QBuf, QueueInv, Typed, Queueing
<1>4. UNCHANGED <<streaming, started, reader, buffers, submitted, hand, lost,
                  torn, reg, failures, signals>>
  BY DEF QBuf, counts
<1>5. UNCHANGED op \/ (op = "idle" /\ op' = "queue")
  BY DEF QBuf, Begin
<1>6. Active' = Active /\ Listed' = Listed /\ Submitted' = Submitted
  BY <1>4 DEF Active, Listed, Flying, Submitted
<1>7. Typed'
  BY <1>1, <1>3, <1>4, <1>5 DEF QueueInv, Typed
<1>8. Queueing'
  BY <1>1, <1>2, <1>3 DEF QueueInv, Queueing
<1>9. Held' /\ Apart'
  BY <1>1, <1>2, <1>4, <1>6 DEF QueueInv, Held, Apart
<1>10. Phases' /\ StreamBit'
  BY <1>1, <1>2, <1>4, <1>5, <1>6 DEF QueueInv, Phases, StreamBit
<1> QED
  BY <1>7, <1>8, <1>9, <1>10 DEF QueueInv

\* vb2 hands a buffer to the driver, which lists it or loses it.
LEMMA Lemma_buf_queue ==
  ASSUME QueueInv, buf_queue
  PROVE  QueueInv'
<1>1. PICK i \in DOMAIN queued :
        /\ Waits(i) /\ where' = Moved({queued[i]}, "driver")
        /\ \/ buffers' = Append(buffers, queued[i]) /\ UNCHANGED <<lost, counts>>
           \/ /\ Interrupted(ReaderAtList) /\ lost' = lost \cup {queued[i]}
              /\ UNCHANGED buffers
  BY DEF buf_queue
<1> DEFINE b == queued[i]
<1>2. b \in Buffers /\ where[b] = "queued" /\ b \in In("queued")
  BY <1>1 DEF QueueInv, Typed, Waits, In
<1>3. /\ where' \in [Buffers -> {"user", "queued", "driver", "done"}]
      /\ \A c \in Buffers : where'[c] = IF c = b THEN "driver" ELSE where[c]
      /\ In("queued")' = In("queued") \ {b} /\ In("driver")' = In("driver") \cup {b}
  <2>1. {b} \in SUBSET Buffers /\ where' = Moved({b}, "driver")
    BY <1>1, <1>2
  <2> HIDE DEF b
  <2> QED
    BY <2>1, Lemma_Moved DEF QueueInv
<1>4. /\ op = "queue"
      /\ UNCHANGED <<queued, streaming, started, op, reader, submitted, hand, torn,
                     reg>>
  BY DEF buf_queue
<1>5. b \notin Active /\ b \notin In("driver") /\ b \notin lost /\ b \notin torn
  BY <1>2, <1>4 DEF QueueInv, Phases, Held, In
<1> HIDE DEF b
<1>6. CASE buffers' = Append(buffers, b) /\ UNCHANGED <<lost, failures, signals>>
  <2>1. /\ buffers' \in Seq(Buffers) /\ Listed' = Listed \cup {b}
        /\ IsInjective(buffers')
    BY <1>2, <1>5, <1>6, ListAppend DEF QueueInv, Typed, Apart, Listed, Active
  <2>2. Active' = Active \cup {b} /\ Submitted' = Submitted
    BY <1>4, <2>1 DEF Active, Flying, Submitted
  <2>3. Typed'
    BY <1>3, <1>4, <1>6, <2>1 DEF QueueInv, Typed
  <2>4. Apart'
    BY <1>4, <1>5, <2>1, <2>2 DEF QueueInv, Apart, Active, Flying, Submitted
  <2>5. Queueing' /\ Held'
    BY <1>2, <1>3, <1>4, <1>5, <1>6, <2>2 DEF QueueInv, Queueing, Held
  <2>6. Phases' /\ StreamBit'
    BY <1>3, <1>4, <1>5, <2>1, <2>2 DEF QueueInv, Phases, StreamBit
  <2> QED
    BY <2>3, <2>4, <2>5, <2>6 DEF QueueInv
<1>7. CASE /\ lost' = lost \cup {b} /\ UNCHANGED <<buffers, failures>>
           /\ signals' = signals + 1
  <2>1. Active' = Active /\ Listed' = Listed /\ Submitted' = Submitted
    BY <1>4, <1>7 DEF Active, Listed, Flying, Submitted
  <2>2. Typed'
    BY <1>2, <1>3, <1>4, <1>7 DEF QueueInv, Typed
  <2>3. Apart' /\ Queueing' /\ Held'
    BY <1>2, <1>3, <1>4, <1>5, <1>7, <2>1 DEF QueueInv, Apart, Queueing, Held
  <2>4. Phases' /\ StreamBit'
    BY <1>3, <1>4, <2>1 DEF QueueInv, Phases, StreamBit
  <2> QED
    BY <2>2, <2>3, <2>4 DEF QueueInv
<1> QED
  BY <1>1, <1>6, <1>7 DEF b, Interrupted, counts

\* A listed buffer is submitted; or it is not, and leaves the list, or stays.
LEMMA Lemma_Submit ==
  ASSUME QueueInv, Submit
  PROVE  QueueInv'
<1> DEFINE b == Head(buffers)
<1>1. /\ op = "start" /\ buffers # << >>
      /\ UNCHANGED <<where, queued, streaming, started, reader, hand, reg>>
  BY DEF Submit
<1>2. /\ b \in Buffers /\ b \in Listed /\ Tail(buffers) \in Seq(Buffers)
      /\ IsInjective(Tail(buffers)) /\ ToSet(Tail(buffers)) = Listed \ {b}
  BY <1>1, ListTail DEF QueueInv, Typed, Apart, Listed
<1>3. b \notin Submitted /\ b \notin hand /\ b \notin lost /\ b \in Active
  BY <1>2 DEF QueueInv, Apart, Held, Active
<1>4. In("driver")' = In("driver") /\ In("queued")' = In("queued")
  BY <1>1 DEF In
<1> HIDE DEF b
<1>5. CASE /\ buffers' = Tail(buffers) /\ submitted' = Append(submitted, b)
           /\ UNCHANGED <<lost, torn, op, failures, signals>>
  <2>1. /\ submitted' \in Seq(Buffers) /\ Submitted' = Submitted \cup {b}
        /\ IsInjective(submitted')
    BY <1>2, <1>3, <1>5, ListAppend DEF QueueInv, Typed, Apart, Submitted
  <2>2. Listed' = Listed \ {b} /\ Active' = Active
    BY <1>1, <1>2, <1>5, <2>1 DEF Active, Listed, Flying, Submitted
  <2>3. Typed'
    BY <1>1, <1>2, <1>5, <2>1 DEF QueueInv, Typed
  <2>4. Apart'
    BY <1>1, <1>2, <1>3, <1>5, <2>1, <2>2 DEF QueueInv, Apart
  <2>5. Queueing' /\ Held' /\ Phases' /\ StreamBit'
    BY <1>1, <1>4, <1>5, <2>2 DEF QueueInv, Queueing, Held, Phases, StreamBit
  <2> QED
    BY <2>3, <2>4, <2>5 DEF QueueInv
<1>6. CASE /\ buffers' = Tail(buffers) /\ failures' = failures + 1
           /\ op' = "failed" /\ lost' = lost \cup ({b} \cap In("driver"))
           /\ torn' = torn \ {b} /\ UNCHANGED <<submitted, signals>>
  <2>1. /\ Listed' = Listed \ {b} /\ Active' = Active \ {b}
        /\ Submitted' = Submitted
    BY <1>1, <1>2, <1>3, <1>6 DEF Active, Listed, Flying, Submitted
  <2>2. Typed'
    BY <1>1, <1>2, <1>6 DEF QueueInv, Typed
  <2>3. Apart' /\ Queueing'
    BY <1>1, <1>2, <1>6, <2>1 DEF QueueInv, Apart, Queueing
  <2>4. Held'
    BY <1>3, <1>4, <1>6, <2>1 DEF QueueInv, Held
  <2>5. Phases' /\ StreamBit'
    BY <1>1, <1>4, <1>6, <2>1 DEF QueueInv, Phases, StreamBit
  <2> QED
    BY <2>2, <2>3, <2>4, <2>5 DEF QueueInv
<1>7. CASE /\ op' = "failed" /\ signals' = signals + 1
           /\ UNCHANGED <<buffers, submitted, lost, torn, failures>>
  <2>1. Listed' = Listed /\ Active' = Active /\ Submitted' = Submitted
    BY <1>1, <1>7 DEF Active, Listed, Flying, Submitted
  <2> QED
    BY <1>1, <1>4, <1>7, <2>1
       DEF QueueInv, Typed, Apart, Queueing, Held, Phases, StreamBit
<1> QED
  BY <1>5, <1>6, <1>7 DEF Submit, EngineFails, Interrupted, counts, Rest, b

\* vb2 takes back the buffers of a start that failed.
LEMMA Lemma_Failed ==
  ASSUME QueueInv, Failed
  PROVE  QueueInv'
<1>1. /\ op = "failed" /\ op' = "idle" /\ lost' = {}
      /\ torn' = torn \cup (In("driver") \ lost)
      /\ UNCHANGED <<queued, streaming, started, reader, buffers, submitted, hand,
                     reg, failures, signals>>
  BY DEF Failed, counts
<1>2. /\ where' \in [Buffers -> {"user", "queued", "driver", "done"}]
      /\ \A c \in Buffers : where'[c] = IF c \in In("driver") THEN "queued" ELSE where[c]
      /\ In("driver")' = {}
  <2>1. In("driver") \in SUBSET Buffers /\ where' = Moved(In("driver"), "queued")
    BY DEF In, Failed
  <2> QED
    BY <2>1, Lemma_Moved DEF QueueInv
<1>3. Listed' = Listed /\ Active' = Active /\ Submitted' = Submitted
  BY <1>1 DEF Active, Listed, Flying, Submitted
<1>4. Typed'
  BY <1>1, <1>2 DEF QueueInv, Typed, In
<1>5. Apart' /\ Held'
  BY <1>1, <1>2, <1>3 DEF QueueInv, Apart, Held
<1>6. Queueing'
  BY <1>1, <1>2 DEF QueueInv, Queueing, In
<1>7. Phases' /\ StreamBit'
  BY <1>1, <1>3 DEF QueueInv, Phases, StreamBit
<1> QED
  BY <1>4, <1>5, <1>6, <1>7 DEF QueueInv

\* A buffer that is done goes back to the program.
LEMMA Lemma_DQBuf ==
  ASSUME QueueInv, NEW b \in Buffers, DQBuf(b)
  PROVE  QueueInv'
<1>1. /\ where' \in [Buffers -> {"user", "queued", "driver", "done"}]
      /\ \A c \in Buffers : where'[c] = IF c = b THEN "user" ELSE where[c]
      /\ In("queued")' = In("queued") \ {b} /\ In("driver")' = In("driver") \ {b}
  <2>1. {b} \in SUBSET Buffers /\ where' = Moved({b}, "user")
    BY DEF DQBuf
  <2> QED
    BY <2>1, Lemma_Moved DEF QueueInv
<1>2. where[b] = "done" /\ b \notin In("driver")
  BY DEF DQBuf, In
<1>3. /\ queued' \in Seq(Buffers) /\ ToSet(queued') = ToSet(queued) \ {b}
      /\ IsInjective(queued')
  <2>1. PICK i \in DOMAIN queued : queued[i] = b /\ queued' = RemoveAt(queued, i)
    BY DEF DQBuf
  <2> QED
    BY <2>1, ListRemove DEF QueueInv, Typed, Queueing
<1>4. UNCHANGED <<streaming, started, op, reader, buffers, submitted, hand, lost,
                  torn, reg, failures, signals>>
  BY DEF DQBuf, counts
<1>5. Active' = Active /\ Listed' = Listed /\ Submitted' = Submitted
  BY <1>4 DEF Active, Listed, Flying, Submitted
<1>6. Typed'
  BY <1>1, <1>3, <1>4 DEF QueueInv, Typed
<1>7. Queueing'
  BY <1>1, <1>3 DEF QueueInv, Queueing
<1>8. Held' /\ Apart' /\ Phases' /\ StreamBit'
  BY <1>1, <1>2, <1>4, <1>5 DEF QueueInv, Held, Apart, Phases, StreamBit
<1> QED
  BY <1>6, <1>7, <1>8 DEF QueueInv

\* stop_streaming gives back what is on the list, or nothing.
LEMMA Lemma_Flush ==
  ASSUME QueueInv, Flush
  PROVE  QueueInv'
<1>1. /\ op = "flush" /\ op' = "cancel" /\ started
      /\ UNCHANGED <<queued, streaming, started, reader, submitted, hand, lost, torn,
                     reg, failures>>
  BY DEF Flush, QueueInv, Phases, counts, Interrupted
<1>2. CASE /\ where' = Moved(Listed \cap In("driver"), "done") /\ buffers' = << >>
           /\ UNCHANGED signals
  <2>1. Listed \cap In("driver") \in SUBSET Buffers
    BY DEF In
  <2>2. /\ where' \in [Buffers -> {"user", "queued", "driver", "done"}]
        /\ \A c \in Buffers : where'[c] =
             IF c \in Listed \cap In("driver") THEN "done" ELSE where[c]
        /\ In("driver")' = In("driver") \ Listed
    <3>1. In("driver") \ (Listed \cap In("driver")) = In("driver") \ Listed
      OBVIOUS
    <3> QED
      BY <1>2, <2>1, <3>1, Lemma_Moved DEF QueueInv
  <2>3. Listed' = {} /\ Active' = Active \ Listed /\ Submitted' = Submitted
    BY <1>1, <1>2, ListEmpty DEF QueueInv, Apart, Active, Listed, Flying, Submitted
  <2>4. Typed'
    BY <1>1, <1>2, <2>2, ListEmpty DEF QueueInv, Typed
  <2>5. Apart'
    BY <1>1, <1>2, <2>3, ListEmpty DEF QueueInv, Apart
  <2>6. Queueing'
    BY <1>1, <2>2 DEF QueueInv, Queueing, In
  <2>7. Held'
    BY <1>1, <2>2, <2>3 DEF QueueInv, Held, Phases, Active
  <2>8. Phases' /\ StreamBit'
    BY <1>1, <2>3 DEF QueueInv, Phases, StreamBit
  <2> QED
    BY <2>4, <2>5, <2>6, <2>7, <2>8 DEF QueueInv
<1>3. CASE UNCHANGED <<where, buffers>> /\ signals' = signals + 1
  BY <1>1, <1>3 DEF QueueInv, Typed, Apart, Queueing, Held, Phases, StreamBit,
                    Active, Listed, Flying, Submitted, In
<1> QED
  BY <1>2, <1>3 DEF Flush, Interrupted, counts

\* vb2 takes everything back.
LEMMA Lemma_Cancel ==
  ASSUME QueueInv, Cancel
  PROVE  QueueInv'
<1>1. /\ op = "cancel" /\ op' = "idle" /\ lost' = {} /\ queued' = << >>
      /\ torn' = torn \cup (In("driver") \ lost)
      /\ streaming' = FALSE /\ started' = FALSE
      /\ UNCHANGED <<reader, buffers, submitted, hand, reg, failures, signals>>
  BY DEF Cancel, counts
<1>2. /\ where' \in [Buffers -> {"user", "queued", "driver", "done"}]
      /\ \A c \in Buffers : where'[c] = "user"
      /\ In("driver")' = {} /\ {c \in Buffers : where'[c] # "user"} = {}
  <2>1. Buffers \in SUBSET Buffers /\ where' = Moved(Buffers, "user")
    BY DEF Cancel
  <2> QED
    BY <2>1, Lemma_Moved DEF QueueInv, In
<1>3. Listed' = Listed /\ Active' = Active /\ Submitted' = Submitted
  BY <1>1 DEF Active, Listed, Flying, Submitted
<1>4. Typed'
  BY <1>1, <1>2, ListEmpty DEF QueueInv, Typed, In
<1>5. Apart' /\ Held'
  BY <1>1, <1>2, <1>3 DEF QueueInv, Apart, Held
<1>6. Queueing'
  BY <1>1, <1>2, ListEmpty DEF QueueInv, Queueing
<1>7. Phases' /\ StreamBit'
  BY <1>1 DEF QueueInv, Phases, StreamBit
<1> QED
  BY <1>4, <1>5, <1>6, <1>7 DEF QueueInv

\* BUF_DONE takes the first buffer off the list, or does not.
LEMMA Lemma_Take ==
  ASSUME QueueInv, Take
  PROVE  QueueInv'
<1> DEFINE b == Head(buffers)
<1>1. /\ reader = "take" /\ hand = {}
      /\ UNCHANGED <<where, queued, streaming, started, op, submitted, lost, torn,
                     reg, failures>>
  BY DEF Take, QueueInv, Typed, Interrupted, counts
<1>2. In("driver")' = In("driver") /\ In("queued")' = In("queued")
  BY <1>1 DEF In
<1>3. CASE reader' = "idle" /\ UNCHANGED <<hand, buffers>> /\ signals' \in Nat
  <2>1. Listed' = Listed /\ Active' = Active /\ Submitted' = Submitted
    BY <1>1, <1>3 DEF Active, Listed, Flying, Submitted
  <2> QED
    BY <1>1, <1>2, <1>3, <2>1
       DEF QueueInv, Typed, Apart, Queueing, Held, Phases, StreamBit
<1>4. CASE /\ buffers # << >> /\ reader' = "dma" /\ hand' = {b}
           /\ buffers' = Tail(buffers) /\ signals' = signals
  <2>1. /\ b \in Buffers /\ b \in Listed /\ Tail(buffers) \in Seq(Buffers)
        /\ IsInjective(Tail(buffers)) /\ ToSet(Tail(buffers)) = Listed \ {b}
    BY <1>4, ListTail DEF QueueInv, Typed, Apart, Listed
  <2> HIDE DEF b
  <2>2. Listed' = Listed \ {b} /\ Active' = Active /\ Submitted' = Submitted
    BY <1>1, <1>4, <2>1 DEF Active, Listed, Flying, Submitted
  <2>3. Typed'
    BY <1>1, <1>4, <2>1 DEF QueueInv, Typed
  <2>4. Apart'
    BY <1>1, <1>4, <2>1, <2>2 DEF QueueInv, Apart
  <2>5. Queueing' /\ Held' /\ Phases' /\ StreamBit'
    BY <1>1, <1>2, <2>2 DEF QueueInv, Queueing, Held, Phases, StreamBit
  <2> QED
    BY <2>3, <2>4, <2>5 DEF QueueInv
<1> QED
  BY <1>3, <1>4 DEF Take, Interrupted, counts, Rest, QueueInv, Typed

\* The buffer BUF_DONE has is done, if vb2 did not take it back.
LEMMA Lemma_Filled ==
  ASSUME QueueInv, Filled
  PROVE  QueueInv'
<1>1. /\ reader = "dma" /\ reader' = "idle" /\ hand' = {} /\ torn' = torn \ hand
      /\ UNCHANGED <<queued, streaming, started, op, buffers, submitted, lost, reg,
                     failures, signals>>
  BY DEF Filled, counts
<1>2. PICK b \in Buffers : hand = {b}
  BY <1>1 DEF QueueInv, Typed
<1>3. /\ where' \in [Buffers -> {"user", "queued", "driver", "done"}]
      /\ \A c \in Buffers : where'[c] =
           IF c \in {b} \cap In("driver") THEN "done" ELSE where[c]
      /\ In("driver")' = In("driver") \ {b} /\ In("queued")' = In("queued")
  <2>1. {b} \cap In("driver") \in SUBSET Buffers
        /\ where' = Moved({b} \cap In("driver"), "done")
    BY <1>2 DEF Filled, vb2_buffer_done
  <2>2. In("queued") \cap In("driver") = {}
    BY DEF In
  <2> QED
    BY <2>1, <2>2, Lemma_Moved DEF QueueInv
<1>4. b \notin Listed /\ b \notin Submitted /\ b \notin lost
  BY <1>2 DEF QueueInv, Apart, Held, Active, Flying
<1>5. Listed' = Listed /\ Active' = Active \ {b} /\ Submitted' = Submitted
  BY <1>1, <1>2, <1>4 DEF Active, Listed, Flying, Submitted
<1>6. Typed'
  BY <1>1, <1>3 DEF QueueInv, Typed
<1>7. Apart'
  BY <1>1, <1>5 DEF QueueInv, Apart
<1>8. Queueing'
  BY <1>1, <1>3 DEF QueueInv, Queueing, In
<1>9. Held'
  BY <1>1, <1>2, <1>3, <1>4, <1>5 DEF QueueInv, Held
<1>10. Phases' /\ StreamBit'
  BY <1>1, <1>3, <1>5 DEF QueueInv, Phases, StreamBit
<1> QED
  BY <1>6, <1>7, <1>8, <1>9, <1>10 DEF QueueInv

\* A submitted buffer is done, or its transfer failed.
LEMMA Lemma_io_done ==
  ASSUME QueueInv, io_done
  PROVE  QueueInv'
<1> DEFINE b == Head(submitted)
<1>1. /\ submitted # << >> /\ submitted' = Tail(submitted) /\ torn' = torn \ {b}
      /\ UNCHANGED <<queued, streaming, started, op, reader, buffers, hand, reg,
                     signals>>
  BY DEF io_done, EngineFails, counts
<1>2. /\ b \in Buffers /\ b \in Submitted /\ Tail(submitted) \in Seq(Buffers)
      /\ IsInjective(submitted') /\ Submitted' = Submitted \ {b}
  BY <1>1, ListTail DEF QueueInv, Typed, Apart, Submitted
<1>3. b \notin Listed /\ b \notin hand /\ b \notin lost
  BY <1>2 DEF QueueInv, Apart, Held, Active, Flying, Submitted
<1>4. Listed' = Listed /\ Active' = Active \ {b}
  BY <1>1, <1>2, <1>3 DEF Active, Listed, Flying, Submitted
<1>5. Apart'
  BY <1>1, <1>2, <1>4 DEF QueueInv, Apart
<1>6. CASE where' = vb2_buffer_done(b) /\ UNCHANGED <<lost, failures>>
  <2>1. {b} \cap In("driver") \in SUBSET Buffers
        /\ where' = Moved({b} \cap In("driver"), "done")
    BY <1>2, <1>6 DEF vb2_buffer_done
  <2>2. /\ where' \in [Buffers -> {"user", "queued", "driver", "done"}]
        /\ \A c \in Buffers : where'[c] =
             IF c \in {b} \cap In("driver") THEN "done" ELSE where[c]
        /\ In("driver")' = In("driver") \ {b} /\ In("queued")' = In("queued")
    <3>1. In("queued") \cap In("driver") = {}
      BY DEF In
    <3> HIDE DEF b
    <3> QED
      BY <2>1, <3>1, Lemma_Moved DEF QueueInv
  <2> HIDE DEF b
  <2>3. Typed'
    BY <1>1, <1>2, <1>6, <2>2 DEF QueueInv, Typed
  <2>4. Queueing'
    BY <1>1, <2>2 DEF QueueInv, Queueing, In
  <2>5. Held'
    BY <1>1, <1>3, <1>4, <1>6, <2>2 DEF QueueInv, Held
  <2>6. Phases' /\ StreamBit'
    BY <1>1, <1>4, <2>2 DEF QueueInv, Phases, StreamBit
  <2> QED
    BY <1>5, <2>3, <2>4, <2>5, <2>6 DEF QueueInv
<1>7. CASE /\ UNCHANGED where /\ lost' = lost \cup ({b} \cap In("driver"))
           /\ failures' = failures + 1
  <2>1. In("driver")' = In("driver") /\ In("queued")' = In("queued")
    BY <1>7 DEF In
  <2>2. b \in Active
    BY <1>2 DEF Active, Flying, Submitted
  <2> HIDE DEF b
  <2>3. Typed'
    BY <1>1, <1>2, <1>7 DEF QueueInv, Typed
  <2>4. Queueing' /\ Held'
    BY <1>1, <1>3, <1>4, <1>7, <2>1, <2>2 DEF QueueInv, Queueing, Held
  <2>5. Phases' /\ StreamBit'
    BY <1>1, <1>4, <2>1 DEF QueueInv, Phases, StreamBit
  <2> QED
    BY <1>5, <2>3, <2>4, <2>5 DEF QueueInv
<1> QED
  BY <1>6, <1>7 DEF io_done, EngineFails, counts

-----------------------------------------------------------------------------
(* The theorems.                                                           *)

\* No step takes a buffer to two places of the driver, or out of all of them.
LEMMA QueueStep == QueueInv /\ [Next]_vars => QueueInv'
BY Lemma_Aside, Lemma_Phase, Lemma_QBuf, Lemma_buf_queue, Lemma_Submit,
   Lemma_Failed, Lemma_DQBuf, Lemma_Flush, Lemma_Cancel, Lemma_Take,
   Lemma_Filled, Lemma_io_done DEF Next

\* Every buffer is in one place of the driver in every state.
THEOREM QueueInvariant == Spec => []QueueInv
BY QueueStep, Lemma_Init, PTL DEF Spec

\* The number of entries of the driver's lists is that of their buffers.
LEMMA Lemma_Accounted ==
  ASSUME QueueInv
  PROVE  Accounted
<1>1. /\ IsFiniteSet(Listed) /\ Cardinality(Listed) = Len(buffers)
      /\ IsFiniteSet(Submitted) /\ Cardinality(Submitted) = Len(submitted)
  BY ListCount DEF QueueInv, Typed, Apart, Listed, Submitted
<1>2. /\ IsFiniteSet(Listed \cup Submitted)
      /\ Cardinality(Listed \cup Submitted) = Len(buffers) + Len(submitted)
  <2>1. Listed \cap Submitted = {}
    BY DEF QueueInv, Apart
  <2> QED
    BY <1>1, <2>1, CountDisjoint
<1>3. IsFiniteSet(hand)
  <2>1. hand = {} \/ \E b \in Buffers : hand = {b}
    BY DEF QueueInv, Typed
  <2> QED
    BY <2>1, FS_EmptySet, FS_Singleton
<1>4. Cardinality((Listed \cup Submitted) \cup hand) =
        Len(buffers) + Len(submitted) + Cardinality(hand)
  <2>1. (Listed \cup Submitted) \cap hand = {}
    BY DEF QueueInv, Apart
  <2> QED
    BY <1>2, <1>3, <2>1, CountDisjoint
<1>5. (Listed \cup Submitted) \cup hand = Listed \cup Flying
  BY DEF Flying, Submitted
<1> QED
  BY <1>4, <1>5 DEF Accounted, QueueInv, Held, Active

\* The driver has each buffer in one place, and those it has are vb2's active
\* ones and those vb2 took back by force: whatever fails or is interrupted.
THEOREM BuffersAccounted == Spec => []Accounted
BY QueueInvariant, Lemma_Accounted, PTL

\* The board sends frames while and only while the stream is started.
THEOREM BoardFollowsStream == Spec => []StreamBit
<1>1. QueueInv => StreamBit
  BY DEF QueueInv
<1> QED
  BY <1>1, QueueInvariant, PTL

-----------------------------------------------------------------------------
(* Sizes.                                                                  *)

\* The format is one of those there are, and the pieces are those of the plane.
SizesInv ==
  /\ format # << >> =>
       \E f \in Formats : format = <<f>> /\ qvio_video_try_fmt(f)
  /\ sizes # << >> => sizes[1] \in Nat /\ pages = vmalloc_dma_map_sg(sizes[1])

\* A length is aligned to the next multiple.
LEMMA Lemma_Align ==
  ASSUME NEW n \in Nat, NEW a \in Nat \ {0}
  PROVE  /\ Align(n, a) \in Nat /\ Align(n, a) >= n /\ Align(n, a) < n + a
         /\ (Align(n, a) \div a) * a = Align(n, a) /\ Align(n, a) \div a \in Nat
<1> DEFINE q == (n + a - 1) \div a
           r == (n + a - 1) % a
<1>1. n + a - 1 \in Nat
  OBVIOUS
<1>2. q \in Nat /\ r \in 0 .. a - 1 /\ n + a - 1 = q * a + r
  BY <1>1, Division
<1>3. Align(n, a) = q * a
  BY DEF Align
<1> HIDE DEF q, r
<1>4. q * a \in Nat
  BY <1>2
<1>5. (q * a) % a = 0 /\ q * a + 0 = q * a
  <2>1. 0 \in 0 .. a - 1
    OBVIOUS
  <2>2. (q * a + 0) % a = 0
    BY <1>2, <2>1, Remainder
  <2> QED
    BY <1>4, <2>2
<1>6. ((q * a) \div a) * a = q * a /\ (q * a) \div a \in Nat
  <2> DEFINE m == q * a
  <2>1. m \in Nat /\ m % a = 0
    BY <1>4, <1>5
  <2> HIDE DEF m
  <2>2. m = (m \div a) * a + (m % a) /\ m \div a \in Nat
    BY <2>1, Division
  <2>3. (m \div a) * a \in Int
    BY <2>2, Products
  <2>4. (m \div a) * a = m
    BY <2>1, <2>2, <2>3
  <2> QED
    BY <2>2, <2>4 DEF m
<1> QED
  BY <1>2, <1>3, <1>4, <1>6

\* What is aligned is positive still.
LEMMA Lemma_Positive ==
  ASSUME NEW n \in Nat \ {0}, NEW a \in Nat \ {0}
  PROVE  Align(n, a) \in Nat \ {0}
BY Lemma_Align

\* The plane of a format has a size.
LEMMA Lemma_Plane ==
  ASSUME SizesPositive, NEW f \in Formats, qvio_video_try_fmt(f)
  PROVE  queue_setup(f, FALSE) # << >> /\ queue_setup(f, FALSE)[1] \in Nat
<1>1. f.width \in Nat \ {0} /\ f.height \in Nat \ {0}
  BY DEF SizesPositive
<1>2. \A w, h \in Nat : area(w, h) \in Nat
  <2> SUFFICES ASSUME NEW w \in Nat, NEW h \in Nat PROVE area(w, h) \in Nat
    OBVIOUS
  <2>1. Align(w, HAlign) \in Nat /\ Align(h, VAlign) \in Nat
    BY Lemma_Align DEF SizesPositive
  <2> QED
    BY <2>1 DEF area
<1>3. f.width * 2 \in Nat /\ HalfMore(f.height) \in Nat
  BY <1>1 DEF HalfMore
<1>4. \A n \in Nat : (n * 3) \div 2 \in Nat
  OBVIOUS
<1>5. f.pix \in {"YUYV", "NV12", "M420"}
  BY DEF qvio_video_try_fmt, qvio_video_enum_fmt, Range
<1>6. \/ queue_setup(f, FALSE) = <<area(f.width * 2, f.height)>>
      \/ queue_setup(f, FALSE) = <<(area(f.width, f.height) * 3) \div 2>>
      \/ queue_setup(f, FALSE) = <<area(f.width, HalfMore(f.height))>>
  BY <1>5 DEF queue_setup
<1>7. /\ area(f.width * 2, f.height) \in Nat
      /\ (area(f.width, f.height) * 3) \div 2 \in Nat
      /\ area(f.width, HalfMore(f.height)) \in Nat
  BY <1>1, <1>2, <1>3, <1>4
<1>8. \A x \in Nat : <<x>> # << >> /\ <<x>>[1] \in Nat
  OBVIOUS
<1> QED
  BY <1>6, <1>7, <1>8

\* The first format has its sizes.
LEMMA Lemma_SizesInit == Init => SizesInv
BY DEF Init, SizesInv

\* Only S_FMT and REQBUFS change a format or a size.
LEMMA Lemma_SizesStep ==
  ASSUME SizesPositive, SizesInv, [Next]_vars
  PROVE  SizesInv'
<1>1. ASSUME NEW f \in Formats, SFmt(f) PROVE SizesInv'
  BY <1>1 DEF SFmt, SizesInv
<1>2. ASSUME NEW new \in BOOLEAN, ReqBufs(new) PROVE SizesInv'
  <2>1. format' = format
    BY <1>2 DEF ReqBufs
  <2>2. CASE ~ new
    BY <1>2, <2>1, <2>2 DEF ReqBufs, SizesInv
  <2>3. CASE new
    <3>1. PICK f \in Formats : format = <<f>> /\ qvio_video_try_fmt(f)
      BY <1>2, <2>3 DEF ReqBufs, SizesInv
    <3>2. sizes' = queue_setup(f, FALSE) /\ pages' = vmalloc_dma_map_sg(sizes'[1])
      BY <1>2, <2>3, <3>1 DEF ReqBufs
    <3> QED
      BY <2>1, <3>1, <3>2, Lemma_Plane DEF SizesInv
  <2> QED
    BY <2>2, <2>3
<1>3. ASSUME UNCHANGED memory PROVE SizesInv'
  BY <1>3 DEF memory, SizesInv
<1>4. CASE Next /\ ~ (\E f \in Formats : SFmt(f)) /\ ~ (\E new \in BOOLEAN : ReqBufs(new))
  <2>1. UNCHANGED memory
    BY <1>4 DEF Next, QBuf, DQBuf, StreamOn, buf_queue, Configure, Submit, Started,
       Failed, StreamOff, Flush, Cancel, BufDone, Take, Filled, io_done
  <2> QED
    BY <1>3, <2>1
<1>5. CASE UNCHANGED vars
  BY <1>3, <1>5 DEF vars
<1> QED
  BY <1>1, <1>2, <1>4, <1>5

\* What is left of a plane after so many pieces.
LEMMA Lemma_Left ==
  ASSUME SizesPositive, NEW size \in Nat
  PROVE  LET n == Pieces(size)
             left == LeftAfter(size) IN
         /\ n \in Nat /\ n * PageSize >= size
         /\ n > 0 => (n - 1) * PageSize < size
         /\ left \in [0 .. n -> Nat] /\ left[0] = size
         /\ \A i \in 1 .. n :
              left[i] = left[i - 1] - Least(left[i - 1], PageSize)
<1> DEFINE n == Pieces(size)
           Goes(f) == f = [i \in 0 .. n |-> IF i = 0 THEN size
                             ELSE f[i - 1] - Least(f[i - 1], PageSize)]
           given == [i \in 0 .. n |-> IF i * PageSize < size
                                     THEN size - i * PageSize ELSE 0]
<1>1. PageSize \in Nat \ {0}
  BY DEF SizesPositive
<1>2. n \in Nat /\ n * PageSize >= size /\ n * PageSize < size + PageSize
  BY <1>1, Lemma_Align DEF Pieces
<1>3. n > 0 => (n - 1) * PageSize < size
  <2>1. (n - 1) * PageSize = n * PageSize - PageSize
    BY <1>1, <1>2, Products
  <2> HIDE DEF n
  <2>2. n * PageSize \in Int
    BY <1>1, <1>2, Products
  <2> QED
    BY <1>1, <1>2, <2>1, <2>2
<1> HIDE DEF n
<1>4. \A i \in 0 .. n : given[i] \in Nat
  <2> SUFFICES ASSUME NEW i \in 0 .. n PROVE given[i] \in Nat
    OBVIOUS
  <2> DEFINE k == i * PageSize
  <2>1. k \in Int /\ given[i] = IF k < size THEN size - k ELSE 0
    BY <1>1, <1>2, Products
  <2> HIDE DEF k, given
  <2> QED
    BY <2>1
<1>5. given[0] = size
  BY <1>1, <1>2
<1>6. Goes(given)
  <2> SUFFICES ASSUME NEW i \in 0 .. n
      PROVE given[i] = IF i = 0 THEN size
                       ELSE given[i - 1] - Least(given[i - 1], PageSize)
    OBVIOUS
  <2>1. CASE i = 0
    BY <1>5, <2>1
  <2>2. CASE i # 0
    <3>1. i \in 1 .. n /\ i - 1 \in 0 .. n
      BY <1>2, <2>2
    <3>2. (i - 1) * PageSize = i * PageSize - PageSize /\ i * PageSize \in Int
      BY <1>1, <3>1, Products
    <3> DEFINE k == i * PageSize
    <3>3. /\ given[i] = IF k < size THEN size - k ELSE 0
          /\ given[i - 1] = IF k - PageSize < size THEN size - (k - PageSize) ELSE 0
      <4>1. given[i - 1] = IF (i - 1) * PageSize < size
                           THEN size - (i - 1) * PageSize ELSE 0
        BY <3>1
      <4>2. given[i] = IF k < size THEN size - k ELSE 0
        OBVIOUS
      <4> QED
        BY <3>2, <4>1, <4>2
    <3>4. k \in Int
      BY <3>2
    <3> HIDE DEF k, given
    <3> QED
      BY <1>1, <2>2, <3>3, <3>4 DEF Least
  <2> QED
    BY <2>1, <2>2
<1> DEFINE left == LeftAfter(size)
<1>7. left = CHOOSE g : Goes(g)
  BY DEF LeftAfter, n
<1>8. Goes(left)
  <2> HIDE DEF Goes, left
  <2> QED
    BY <1>6, <1>7
<1> HIDE DEF left
<1>9. left[0] = size
  BY <1>2, <1>8
<1>10. \A i \in 1 .. n : left[i] = left[i - 1] - Least(left[i - 1], PageSize)
  BY <1>2, <1>8
<1>11. \A i \in 0 .. n : left[i] \in Nat
  <2> DEFINE S == {i \in 0 .. n : left[i] \in Nat}
  <2>1. 0 \in S
    BY <1>2, <1>9
  <2>2. ASSUME NEW i \in 1 .. n, i - 1 \in S PROVE i \in S
    <3>1. left[i - 1] \in Nat /\ i \in 0 .. n
      BY <2>2
    <3> QED
      BY <1>1, <1>10, <3>1 DEF Least
  <2>3. 0 .. n \subseteq S
    <3> HIDE DEF S
    <3> QED
      BY <1>2, <2>1, <2>2, UpwardFromZero
  <2> QED
    BY <2>3
<1>12. left \in [0 .. n -> Nat]
  <2>1. left = [i \in 0 .. n |-> left[i]]
    BY <1>8
  <2> QED
    BY <1>11, <2>1
<1> QED
  BY <1>2, <1>3, <1>9, <1>10, <1>12 DEF n, left

\* The pieces of a plane are pages, the last one what is left, and no byte of
\* the plane is in none of them.
LEMMA Lemma_Pieces ==
  ASSUME SizesPositive, NEW size \in Nat
  PROVE  LET p == vmalloc_dma_map_sg(size) IN
         /\ Total(p) = size
         /\ \A i \in DOMAIN p : p[i] \in 1 .. PageSize
<1> DEFINE n == Pieces(size)
           left == LeftAfter(size)
           p == vmalloc_dma_map_sg(size)
<1>1. /\ n \in Nat /\ n * PageSize >= size
      /\ n > 0 => (n - 1) * PageSize < size
      /\ left \in [0 .. n -> Nat] /\ left[0] = size
      /\ \A i \in 1 .. n : left[i] = left[i - 1] - Least(left[i - 1], PageSize)
  BY Lemma_Left
<1>2. p = [i \in 1 .. n |-> Least(left[i - 1], PageSize)]
  BY DEF vmalloc_dma_map_sg
<1>3. PageSize \in Nat \ {0}
  BY DEF SizesPositive
<1> HIDE DEF n, left, p
<1>4. \A i \in 0 .. n : left[i] = IF i * PageSize < size THEN size - i * PageSize ELSE 0
  <2> DEFINE S == {i \in 0 .. n : left[i] =
                     IF i * PageSize < size THEN size - i * PageSize ELSE 0}
  <2>1. 0 \in S
    BY <1>1, <1>3
  <2>2. ASSUME NEW i \in 1 .. n, i - 1 \in S PROVE i \in S
    <3>1. (i - 1) * PageSize = i * PageSize - PageSize /\ i * PageSize \in Int
      BY <1>3, Products
    <3>2. left[i - 1] = IF (i - 1) * PageSize < size
                        THEN size - (i - 1) * PageSize ELSE 0
      BY <2>2
    <3>3. left[i] = left[i - 1] - Least(left[i - 1], PageSize) /\ left[i - 1] \in Nat
      BY <1>1
    <3> DEFINE k == i * PageSize
    <3> HIDE DEF k
    <3>4. /\ k \in Int
          /\ left[i - 1] = IF k - PageSize < size THEN size - (k - PageSize) ELSE 0
      BY <3>1, <3>2 DEF k
    <3>5. left[i] = IF k < size THEN size - k ELSE 0
      BY <1>3, <3>3, <3>4 DEF Least
    <3> QED
      BY <1>1, <3>5 DEF k
  <2>3. 0 .. n \subseteq S
    <3> HIDE DEF S
    <3> QED
      BY <1>1, <2>1, <2>2, UpwardFromZero
  <2> QED
    BY <2>3
<1>5. ASSUME NEW i \in 1 .. n PROVE left[i - 1] > 0
  <2>1. (i - 1) * PageSize <= (n - 1) * PageSize
    <3>1. ~ (n - 1 < i - 1)
      BY <1>1
    <3> QED
      BY <1>1, <1>3, <3>1, Products
  <2>2. (i - 1) * PageSize \in Int /\ (n - 1) * PageSize \in Int
    BY <1>1, <1>3, Products
  <2>3. (i - 1) * PageSize < size
    BY <1>1, <2>1, <2>2
  <2> QED
    BY <1>1, <1>4, <2>2, <2>3
<1>6. \A i \in 1 .. n : p[i] \in 1 .. PageSize /\ left[i] = left[i - 1] - p[i]
  BY <1>1, <1>2, <1>3, <1>5 DEF Least
<1>7. left[n] = 0
  BY <1>1, <1>3, <1>4
<1>8. p \in Seq(Nat) /\ Len(p) = n
  <2>1. p \in [1 .. n -> Nat]
    BY <1>2, <1>6
  <2> QED
    BY <1>1, <2>1
<1> DEFINE Goes(f) == f = [i \in 0 .. n |-> IF i = 0 THEN 0 ELSE f[i - 1] + p[i]]
           given == [i \in 0 .. n |-> size - left[i]]
           upTo == CHOOSE f : Goes(f)
<1>9. Goes(given)
  <2> SUFFICES ASSUME NEW i \in 0 .. n
      PROVE size - left[i] = IF i = 0 THEN 0 ELSE given[i - 1] + p[i]
    OBVIOUS
  <2>1. CASE i = 0
    BY <1>1, <2>1
  <2>2. CASE i # 0
    <3>1. i \in 1 .. n /\ i - 1 \in 0 .. n
      BY <1>1, <2>2
    <3>2. given[i - 1] = size - left[i - 1] /\ left[i - 1] \in Nat /\ p[i] \in Nat
      BY <1>1, <1>6, <3>1
    <3>3. left[i] = left[i - 1] - p[i]
      BY <1>6, <3>1
    <3> QED
      BY <2>2, <3>2, <3>3
  <2> QED
    BY <2>1, <2>2
<1>10. Goes(upTo)
  <2> HIDE DEF Goes
  <2> QED
    BY <1>9
<1>11. Total(p) = upTo[n]
  BY <1>8 DEF Total
<1> HIDE DEF upTo
<1>12. \A i \in 0 .. n : upTo[i] = size - left[i]
  <2> DEFINE S == {i \in 0 .. n : upTo[i] = size - left[i]}
  <2>1. 0 \in S
    BY <1>1, <1>10
  <2>2. ASSUME NEW i \in 1 .. n, i - 1 \in S PROVE i \in S
    <3>1. upTo[i] = upTo[i - 1] + p[i] /\ i \in 0 .. n
      BY <1>1, <1>10
    <3>2. upTo[i - 1] = size - left[i - 1] /\ left[i - 1] \in Nat /\ p[i] \in Nat
      BY <1>1, <1>6, <2>2
    <3>3. left[i] = left[i - 1] - p[i]
      BY <1>6
    <3> QED
      BY <3>1, <3>2, <3>3
  <2>3. 0 .. n \subseteq S
    <3> HIDE DEF S
    <3> QED
      BY <1>1, <2>1, <2>2, UpwardFromZero
  <2> QED
    BY <2>3
<1>13. Total(p) = size
  <2>1. n \in 0 .. n
    BY <1>1
  <2>2. Total(p) = size - 0
    BY <1>7, <1>11, <1>12, <2>1
  <2> QED
    BY <2>2
<1> QED
  BY <1>2, <1>6, <1>13 DEF p

\* A packed format is accepted unless its width is aligned twice; any other is.
LEMMA Lemma_Accepted ==
  ASSUME SizesPositive, NEW f \in Known, NEW mplane \in BOOLEAN
  PROVE  /\ qvio_video_s_fmt(f, mplane) = queue_setup(f, mplane)
         /\ ~ Accepts(f, mplane, queue_setup(f, mplane)) <=>
              AlignedTwice(f) /\ ~ mplane
<1>1. /\ f.pix \in {"YUYV", "NV12", "M420"}
      /\ f.width \in Nat \ {0} /\ f.height \in Nat \ {0}
  BY DEF Known, SizesPositive, qvio_video_enum_fmt, Range
<1>2. \A w, h \in Nat : area(w, h) \in Int
  <2> SUFFICES ASSUME NEW w \in Nat, NEW h \in Nat PROVE area(w, h) \in Int
    OBVIOUS
  <2>1. Align(w, HAlign) \in Nat /\ Align(h, VAlign) \in Nat
    BY Lemma_Align DEF SizesPositive
  <2> QED
    BY <2>1 DEF area
<1>3. qvio_video_s_fmt(f, mplane) = queue_setup(f, mplane)
  BY <1>1 DEF qvio_video_s_fmt, queue_setup, area, HalfMore
<1>4. CASE f.pix = "YUYV" /\ ~ mplane
  <2> DEFINE a == Align(f.width * 2, HAlign)
             b == Align(f.width, HAlign)
             h == Align(f.height, VAlign)
  <2>1. a \in Nat /\ b \in Nat /\ h \in Nat \ {0}
    <3>1. f.width * 2 \in Nat /\ f.width \in Nat /\ HAlign \in Nat \ {0}
          /\ f.height \in Nat \ {0} /\ VAlign \in Nat \ {0}
      BY <1>1 DEF SizesPositive
    <3> QED
      BY <3>1, Lemma_Align, Lemma_Positive
  <2>2. /\ queue_setup(f, mplane) = <<a * h>>
        /\ buf_prepare(f, mplane) = <<(b * h) * 2>>
    BY <1>4 DEF queue_setup, buf_prepare, area
  <2>3. AlignedTwice(f) <=> a < b * 2
    BY <1>4 DEF AlignedTwice
  <2> HIDE DEF a, b, h
  <2>4. (b * h) * 2 = (b * 2) * h /\ b * 2 \in Int
    BY <2>1
  <2>5. a * h < (b * 2) * h <=> a < b * 2
    BY <2>1, <2>4, Products
  <2>6. Accepts(f, mplane, queue_setup(f, mplane)) <=> a * h >= (b * h) * 2
    BY <2>2 DEF Accepts
  <2>7. a * h \in Int /\ (b * 2) * h \in Int
    BY <2>1, <2>4, Products
  <2>8. ~ (a * h >= (b * h) * 2) <=> a * h < (b * 2) * h
    BY <2>4, <2>7
  <2> QED
    BY <1>3, <1>4, <2>3, <2>5, <2>6, <2>8
<1>5. CASE ~ (f.pix = "YUYV" /\ ~ mplane)
  <2>1. buf_prepare(f, mplane) = queue_setup(f, mplane)
    BY <1>1, <1>5 DEF buf_prepare, queue_setup
  <2>2. \A i \in DOMAIN queue_setup(f, mplane) : queue_setup(f, mplane)[i] \in Int
    <3>1. /\ area(f.width * 2, f.height) \in Int /\ area(f.width, f.height) \in Int
          /\ area(f.width, HalfMore(f.height)) \in Int
      <4>1. f.width * 2 \in Nat /\ HalfMore(f.height) \in Nat
        BY <1>1 DEF HalfMore
      <4> QED
        BY <1>1, <1>2, <4>1
    <3>2. \A n \in Int : (n * 3) \div 2 \in Int /\ n \div 2 \in Int
      OBVIOUS
    <3>3. \A x, y \in Int : /\ \A i \in DOMAIN <<x>> : <<x>>[i] \in Int
                            /\ \A i \in DOMAIN <<x, y>> : <<x, y>>[i] \in Int
      OBVIOUS
    <3>4. \E x, y \in Int : queue_setup(f, mplane) \in {<<x>>, <<x, y>>}
      BY <1>1, <3>1, <3>2 DEF queue_setup
    <3> QED
      BY <3>3, <3>4
  <2>3. Accepts(f, mplane, queue_setup(f, mplane))
    <3>1. \A x \in Int : x >= x
      OBVIOUS
    <3> QED
      BY <2>1, <2>2, <3>1 DEF Accepts
  <2>4. ~ (AlignedTwice(f) /\ ~ mplane)
    BY <1>5 DEF AlignedTwice
  <2> QED
    BY <1>3, <2>3, <2>4
<1> QED
  BY <1>4, <1>5

\* Whatever the formats are and however lengths are aligned, the program, vb2,
\* the check of a buffer and its pieces are of one size.
LEMMA Lemma_SizesAgree == SizesPositive /\ SizesInv => SizesAgree
<1> SUFFICES ASSUME SizesPositive, SizesInv PROVE SizesAgree
  OBVIOUS
<1>1. ASSUME sizes # << >>
      PROVE  Total(pages) = sizes[1] /\ \A i \in DOMAIN pages : pages[i] \in 1 .. PageSize
  BY <1>1, Lemma_Pieces DEF SizesInv
<1> QED
  BY <1>1, Lemma_Accepted DEF SizesAgree

\* Formats, allocations, the check of a buffer and its DMA pieces agree on the
\* size of a plane, for every size, alignment and page size.
THEOREM SizesMatch == ASSUME SizesPositive PROVE Spec => []SizesAgree
<1>1. Init => SizesInv
  BY Lemma_SizesInit
<1>2. SizesInv /\ [Next]_vars => SizesInv'
  BY Lemma_SizesStep
<1>3. SizesInv => SizesAgree
  BY Lemma_SizesAgree
<1> QED
  BY <1>1, <1>2, <1>3, PTL DEF Spec
=============================================================================
