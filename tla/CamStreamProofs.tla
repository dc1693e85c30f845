--------------------------- MODULE CamStreamProofs ---------------------------
(***************************************************************************)
(* Theorems about CamStream, for every set of captures and of buffers, any *)
(* number of frames and of signals, whatever starts and stops in between.  *)
(***************************************************************************)
EXTENDS CamStream, ListFacts

States == {"user", "queued", "driver", "done"}
Listed(d) == ToSet(list[d])

\* The types of the variables: of the devices,
Shaped ==
  /\ where = [d \in Devices |-> where[d]]
  /\ list = [d \in Devices |-> list[d]] /\ todo = [d \in Devices |-> todo[d]]
  /\ hand = [d \in Devices |-> hand[d]] /\ lost = [d \in Devices |-> lost[d]]
  /\ streaming \in [Devices -> BOOLEAN]
  /\ op \in [Devices -> {"idle", "queue", "stop", "forget", "flush", "cancel"}]
  /\ thread \in [Devices -> {"none", "sleep", "look", "take",
                             "copy", "hand over", "replace"}]

\* of the frames on their way,
Carried ==
  /\ frame \in [Devices -> Nat]
  /\ current \in [Captures -> Nat] /\ shown \in [Captures -> Nat]
  /\ content \in [Buffers[Output] -> Nat]
  /\ togo \in Seq(Captures) /\ (thread[Output] = "replace" => togo # << >>)

\* and of what is counted.
Counted ==
  BoundsFit /\ frames \in 0 .. MaxFrames /\ signals \in 0 .. MaxSignals

\* A buffer is in one place of the driver, or waits in vb2, each once.
Placed(d) ==
  /\ where[d] \in [Buffers[d] -> States]
  /\ list[d] \in Seq(Buffers[d]) /\ IsInjective(list[d])
  /\ todo[d] \in Seq(Buffers[d]) /\ IsInjective(todo[d])
  /\ IF thread[d] = "copy" THEN \E b \in Buffers[d] : hand[d] = {b} ELSE hand[d] = {}
  /\ Listed(d) \cap hand[d] = {} /\ (Listed(d) \cup hand[d]) \cap lost[d] = {}
  /\ Listed(d) \cup hand[d] \cup lost[d] = In(d, "driver")
  /\ ToSet(todo[d]) = In(d, "queued")

\* What a call is at, and what the thread and the list are then.
Phase(d) ==
  /\ thread[d] # "none" \/ op[d] # "idle" => streaming[d]
  /\ op[d] \in {"forget", "flush", "cancel"} => thread[d] = "none"
  /\ op[d] \in {"idle", "cancel"} /\ thread[d] = "none" => list[d] = << >>

\* The frames along a list of buffers are numbered upwards.
Rising(c, s) == \A i, j \in 1 .. Len(s) : i < j => c[s[i]] < c[s[j]]

\* The buffers of the output that were not read.
Unread == hand[Output] \cup Listed(Output) \cup ToSet(todo[Output])

\* The output's buffers are read in the order they were written in.
Ordered ==
  /\ Rising(content, list[Output]) /\ Rising(content, todo[Output])
  /\ \A b \in Listed(Output), e \in ToSet(todo[Output]) : content[b] < content[e]
  /\ \A b \in hand[Output], e \in Listed(Output) \cup ToSet(todo[Output]) :
       content[b] < content[e]
  /\ \A b \in Unread : content[b] <= frames

\* What was read is older than what was not; what a capture was handed is not
\* older than what it took, nor that than what it has shown.
Follows(c) ==
  /\ current[c] <= frames /\ frame[c] <= frames /\ shown[c] <= frames
  /\ \A b \in Unread :
       current[c] < content[b] /\ frame[c] < content[b] /\ shown[c] < content[b]
  /\ frame[Output] # 0 => current[c] <= frame[Output] /\
                          frame[c] <= frame[Output] /\ shown[c] <= frame[Output]
  /\ current[c] # 0 => frame[c] <= current[c] /\ shown[c] <= current[c]
  /\ frame[c] # 0 => shown[c] <= frame[c]
Handed ==
  /\ frame[Output] <= frames
  /\ \A b \in Unread : frame[Output] < content[b]
  /\ \A c \in Captures : Follows(c)

CamInv ==
  /\ Shaped /\ Carried /\ Counted
  /\ \A d \in Devices : Placed(d) /\ Phase(d)
  /\ Ordered /\ Handed

-----------------------------------------------------------------------------
(* What the steps have in common.                                          *)

\* A buffer joins a list that it was not on.
LEMMA Lemma_Joined ==
  ASSUME NEW d, NEW s \in Seq(Buffers[d]), IsInjective(s),
         NEW b \in Buffers[d], b \notin ToSet(s)
  PROVE  /\ Append(s, b) \in Seq(Buffers[d]) /\ IsInjective(Append(s, b))
         /\ ToSet(Append(s, b)) = ToSet(s) \cup {b}
<1> DEFINE S == Buffers[d]
<1>1. s \in Seq(S) /\ b \in S
  OBVIOUS
<1> HIDE DEF S
<1>2. /\ Append(s, b) \in Seq(S) /\ IsInjective(Append(s, b))
      /\ ToSet(Append(s, b)) = ToSet(s) \cup {b}
  BY <1>1, ListAppend, SMTT(30)
<1> QED
  BY <1>2 DEF S

\* Frames of a list: without its first, with one more, with other frames in
\* buffers that are not on it.
LEMMA Lemma_RisingTail ==
  ASSUME NEW S, NEW s \in Seq(S), s # << >>, NEW c, Rising(c, s)
  PROVE  Rising(c, Tail(s)) /\ \A b \in ToSet(Tail(s)) : c[Head(s)] < c[b]
<1>1. /\ Len(s) \in Nat \ {0} /\ Tail(s) \in Seq(S) /\ Len(Tail(s)) = Len(s) - 1
      /\ Head(s) = s[1] /\ \A i \in 1 .. Len(s) - 1 : Tail(s)[i] = s[i + 1]
  OBVIOUS
<1>2. Rising(c, Tail(s))
  BY <1>1 DEF Rising
<1>3. \A b \in ToSet(Tail(s)) : \E i \in 1 .. Len(s) - 1 : b = s[i + 1]
  BY <1>1 DEF ToSet
<1> QED
  BY <1>1, <1>2, <1>3 DEF Rising

\* A list that rises still does with something newer at its end.
LEMMA Lemma_RisingAppend ==
  ASSUME NEW S, NEW s \in Seq(S), NEW x \in S, NEW c, Rising(c, s),
         \A b \in ToSet(s) : c[b] < c[x]
  PROVE  Rising(c, Append(s, x))
<1>1. /\ Len(s) \in Nat /\ Len(Append(s, x)) = Len(s) + 1
      /\ \A i \in 1 .. Len(s) : Append(s, x)[i] = s[i] /\ s[i] \in ToSet(s)
      /\ Append(s, x)[Len(s) + 1] = x
  BY DEF ToSet
<1> QED
  BY <1>1 DEF Rising

\* It depends on the content of what is listed only.
LEMMA Lemma_RisingSame ==
  ASSUME NEW S, NEW s \in Seq(S), NEW c, NEW k, Rising(c, s),
         \A b \in ToSet(s) : k[b] = c[b]
  PROVE  Rising(k, s)
<1>1. Len(s) \in Nat /\ \A i \in 1 .. Len(s) : s[i] \in ToSet(s)
  BY DEF ToSet
<1> QED
  BY <1>1 DEF Rising

\* Buffers that are moved are in their new state; those of other devices stay.
LEMMA Lemma_Moved ==
  ASSUME Shaped, NEW d \in Devices, Placed(d), NEW B \in SUBSET Buffers[d],
         NEW state \in States, where' = Moved(d, B, state)
  PROVE  /\ where' = [e \in Devices |-> where'[e]]
         /\ \A e \in Devices \ {d} : where'[e] = where[e]
         /\ where'[d] \in [Buffers[d] -> States]
         /\ In(d, state)' = In(d, state) \cup B
         /\ \A s \in States \ {state} : In(d, s)' = In(d, s) \ B
<1> DEFINE w == [b \in Buffers[d] |-> IF b \in B THEN state ELSE where[d][b]]
<1>1. where' = [where EXCEPT ![d] = w]
  BY DEF Moved
<1>2. where'[d] = w /\ w \in [Buffers[d] -> States]
  BY <1>1 DEF Shaped, Placed
<1>3. \A b \in Buffers[d] : w[b] = IF b \in B THEN state ELSE where[d][b]
  OBVIOUS
<1> HIDE DEF w
<1>4. /\ where' = [e \in Devices |-> where'[e]]
      /\ \A e \in Devices \ {d} : where'[e] = where[e]
  BY <1>1 DEF Shaped
<1> QED
  BY <1>2, <1>3, <1>4 DEF In

\* Buffers that are moved are where they were moved to, the others stay.
LEMMA Lemma_MovedTo ==
  ASSUME Shaped, NEW d \in Devices, Placed(d), NEW B \in SUBSET Buffers[d]
  PROVE  /\ \A state \in States : where' = Moved(d, B, state) =>
              /\ where' = [e \in Devices |-> where'[e]]
              /\ \A e \in Devices \ {d} : where'[e] = where[e]
              /\ where'[d] \in [Buffers[d] -> States]
         /\ where' = Moved(d, B, "queued") =>
              /\ In(d, "queued")' = In(d, "queued") \cup B
              /\ In(d, "driver")' = In(d, "driver") \ B
         /\ where' = Moved(d, B, "driver") =>
              /\ In(d, "driver")' = In(d, "driver") \cup B
              /\ In(d, "queued")' = In(d, "queued") \ B
         /\ \A state \in {"user", "done"} : where' = Moved(d, B, state) =>
              /\ In(d, "queued")' = In(d, "queued") \ B
              /\ In(d, "driver")' = In(d, "driver") \ B
<1>1. /\ "queued" \in States \ {"driver", "user", "done"}
      /\ "driver" \in States \ {"queued", "user", "done"}
      /\ "user" \in States /\ "done" \in States
  BY DEF States
<1>2. ASSUME NEW state \in States, where' = Moved(d, B, state)
      PROVE  /\ where' = [e \in Devices |-> where'[e]]
             /\ \A e \in Devices \ {d} : where'[e] = where[e]
             /\ where'[d] \in [Buffers[d] -> States]
             /\ In(d, state)' = In(d, state) \cup B
             /\ \A s \in States \ {state} : In(d, s)' = In(d, s) \ B
  BY <1>2, Lemma_Moved
<1> QED
  BY <1>1, <1>2

\* A step at a device leaves the others as they are.
LEMMA Lemma_Elsewhere ==
  ASSUME CamInv, NEW d \in Devices, Shaped', Carried', Counted',
         Placed(d)', Phase(d)', Ordered', Handed',
         \A e \in Devices \ {d} :
           /\ where'[e] = where[e] /\ streaming'[e] = streaming[e] /\ op'[e] = op[e]
           /\ todo'[e] = todo[e] /\ list'[e] = list[e] /\ thread'[e] = thread[e]
           /\ hand'[e] = hand[e] /\ lost'[e] = lost[e]
  PROVE  CamInv'
<1>1. ASSUME NEW e \in Devices \ {d}
      PROVE  Placed(e)' /\ Phase(e)'
  <2>1. /\ where'[e] = where[e] /\ streaming'[e] = streaming[e] /\ op'[e] = op[e]
        /\ todo'[e] = todo[e] /\ list'[e] = list[e] /\ thread'[e] = thread[e]
        /\ hand'[e] = hand[e] /\ lost'[e] = lost[e] /\ Placed(e) /\ Phase(e)
    BY DEF CamInv
  <2>2. /\ Listed(e)' = Listed(e)
        /\ In(e, "driver")' = In(e, "driver") /\ In(e, "queued")' = In(e, "queued")
    BY <2>1 DEF Listed, In
  <2> QED
    BY <2>1, <2>2 DEF Placed, Phase
<1> QED
  BY <1>1 DEF CamInv

\* A step that touches no frame keeps their order.
LEMMA Lemma_NoFrame ==
  ASSUME CamInv, UNCHANGED <<content, frame, current, shown, frames>>,
         hand'[Output] = hand[Output], list'[Output] = list[Output],
         todo'[Output] = todo[Output]
  PROVE  Ordered' /\ Handed'
BY DEF CamInv, Ordered, Handed, Follows, Unread, Listed

\* Nothing is queued, no thread runs and nothing was written at first.
LEMMA Lemma_Init == BoundsFit /\ DevicesDiffer /\ Init => CamInv
<1> SUFFICES ASSUME BoundsFit, DevicesDiffer, Init PROVE CamInv
  OBVIOUS
<1>1. Shaped /\ Carried /\ Counted
  BY ListEmpty DEF Init, Shaped, Carried, Counted, BoundsFit, Devices
<1>2. ASSUME NEW d \in Devices
      PROVE  Placed(d) /\ Phase(d)
  <2>1. /\ where[d] = [b \in Buffers[d] |-> "user"] /\ list[d] = << >>
        /\ todo[d] = << >> /\ thread[d] = "none" /\ hand[d] = {} /\ lost[d] = {}
        /\ op[d] = "idle"
    BY DEF Init
  <2>2. In(d, "driver") = {} /\ In(d, "queued") = {}
    BY <2>1 DEF In
  <2> QED
    BY <2>1, <2>2, ListEmpty DEF Placed, Phase, Listed, States
<1>3. Output \in Devices
  BY DEF Devices
<1>4. /\ list[Output] = << >> /\ todo[Output] = << >> /\ hand[Output] = {}
      /\ frames = 0 /\ \A d \in Devices : frame[d] = 0
      /\ \A c \in Captures : current[c] = 0 /\ shown[c] = 0
  BY <1>3 DEF Init
<1>5. Unread = {} /\ Listed(Output) = {}
  BY <1>4, ListEmpty DEF Unread, Listed
<1>6. Ordered
  BY <1>4, <1>5, ListEmpty DEF Ordered, Rising
<1>7. Handed
  BY <1>3, <1>4, <1>5 DEF Handed, Follows, Devices
<1> QED
  BY <1>1, <1>2, <1>6, <1>7 DEF CamInv

-----------------------------------------------------------------------------
(* Calls.                                                                  *)

\* A buffer is given to vb2; the output's has the next frame.
LEMMA Lemma_QBuf ==
  ASSUME CamInv, NEW d \in Devices, NEW b \in Buffers[d], QBuf(d, b)
  PROVE  CamInv'
<1>0. /\ Shaped /\ Carried /\ Counted /\ Placed(d) /\ Phase(d)
      /\ Ordered /\ Handed
  BY DEF CamInv
<1>1. /\ op[d] = "idle" /\ where[d][b] = "user"
      /\ where' = Moved(d, {b}, "queued")
      /\ Enqueue(d, Append(todo[d], b), streaming[d])
      /\ UNCHANGED <<streaming, list, thread, hand, lost, frame, togo, current,
                     shown, signals>>
  BY DEF QBuf
<1>2. /\ where' = [e \in Devices |-> where'[e]]
      /\ \A e \in Devices \ {d} : where'[e] = where[e]
      /\ where'[d] \in [Buffers[d] -> States]
      /\ In(d, "queued")' = In(d, "queued") \cup {b}
      /\ In(d, "driver")' = In(d, "driver") \ {b}
  <2>1. {b} \in SUBSET Buffers[d]
    OBVIOUS
  <2> QED
    BY <1>0, <1>1, <2>1, Lemma_MovedTo DEF States
<1>3. /\ todo' = [e \in Devices |-> todo'[e]]
      /\ todo'[d] = Append(todo[d], b)
      /\ \A e \in Devices \ {d} : todo'[e] = todo[e]
      /\ op' \in [Devices -> {"idle", "queue", "stop", "forget", "flush", "cancel"}]
      /\ op'[d] = op[d] \/ (op'[d] = "queue" /\ streaming[d])
      /\ \A e \in Devices \ {d} : op'[e] = op[e]
  <2>1. todo' = [todo EXCEPT ![d] = Append(todo[d], b)]
    BY <1>1 DEF Enqueue
  <2>2. op' = op \/ (op' = [op EXCEPT ![d] = "queue"] /\ streaming[d])
    BY <1>1 DEF Enqueue
  <2> QED
    BY <1>0, <2>1, <2>2 DEF Shaped
<1>4. b \notin In(d, "queued") /\ b \notin In(d, "driver")
  BY <1>1 DEF In
<1>5. /\ todo'[d] \in Seq(Buffers[d]) /\ IsInjective(todo'[d])
      /\ ToSet(todo'[d]) = ToSet(todo[d]) \cup {b}
  <2>1. todo[d] \in Seq(Buffers[d]) /\ IsInjective(todo[d]) /\ b \notin ToSet(todo[d])
    BY <1>0, <1>4 DEF Placed
  <2>2. /\ Append(todo[d], b) \in Seq(Buffers[d]) /\ IsInjective(Append(todo[d], b))
        /\ ToSet(Append(todo[d], b)) = ToSet(todo[d]) \cup {b}
    BY <2>1, Lemma_Joined
  <2> QED
    BY <1>3, <2>2
<1>6. /\ frames' = IF d = Output THEN frames + 1 ELSE frames
      /\ content' = IF d = Output THEN [content EXCEPT ![b] = frames + 1] ELSE content
      /\ d = Output => frames < MaxFrames
  BY DEF QBuf
<1>7. Shaped' /\ Carried' /\ Counted'
  <2>1. Counted'
    BY <1>0, <1>1, <1>6 DEF Counted, BoundsFit
  <2>2. Carried'
    BY <1>0, <1>1, <1>6 DEF Carried, Counted, BoundsFit
  <2> QED
    BY <1>0, <1>1, <1>2, <1>3, <2>1, <2>2 DEF Shaped
<1>8. Placed(d)'
  BY <1>0, <1>1, <1>2, <1>4, <1>5 DEF Placed, Listed
<1>9. Phase(d)'
  BY <1>0, <1>1, <1>3 DEF Phase
<1>10. Ordered' /\ Handed'
  <2>1. CASE d # Output
    <3>1. Output \in Devices \ {d}
      BY <2>1 DEF Devices
    <3>2. hand'[Output] = hand[Output] /\ list'[Output] = list[Output]
          /\ todo'[Output] = todo[Output]
      BY <1>1, <1>3, <3>1
    <3> QED
      BY <1>1, <1>6, <2>1, <3>2, Lemma_NoFrame
  <2>2. CASE d = Output
    <3>1. /\ frames \in Nat /\ frames' = frames + 1 /\ content'[b] = frames + 1
          /\ \A e \in Buffers[Output] : e # b => content'[e] = content[e]
          /\ content \in [Buffers[Output] -> Nat]
      <4>1. frames \in Nat /\ content \in [Buffers[Output] -> Nat]
        BY <1>0 DEF Carried, Counted, BoundsFit
      <4> QED
        BY <1>6, <2>2, <4>1
    <3>2. /\ Unread \subseteq Buffers[Output] /\ b \notin Unread
          /\ Listed(Output) \subseteq Unread /\ hand[Output] \subseteq Unread
          /\ ToSet(todo[Output]) \subseteq Unread
      BY <1>0, <1>4, <2>2 DEF Unread, Placed, In
    <3>3. \A e \in Unread : content'[e] = content[e] /\ content[e] < content'[b]
      BY <1>0, <3>1, <3>2 DEF Ordered
    <3>4. /\ Listed(Output)' = Listed(Output) /\ hand'[Output] = hand[Output]
          /\ ToSet(todo'[Output]) = ToSet(todo[Output]) \cup {b}
          /\ Unread' = Unread \cup {b}
      BY <1>1, <1>5, <2>2 DEF Unread, Listed
    <3>5. Rising(content', list[Output]) /\ Rising(content', todo[Output])
      BY <1>0, <2>2, <3>2, <3>3, Lemma_RisingSame DEF Ordered, Placed, Listed
    <3>6. Rising(content', todo'[Output])
      <4>1. todo[d] \in Seq(Buffers[d])
        BY <1>0 DEF Placed
      <4>2. \A e \in ToSet(todo[d]) : content'[e] < content'[b]
        BY <2>2, <3>2, <3>3
      <4>3. Rising(content', Append(todo[d], b))
        BY <2>2, <3>5, <4>1, <4>2, Lemma_RisingAppend
      <4> QED
        BY <1>3, <2>2, <4>3
    <3>7. \A e \in Unread' : content'[e] <= frames'
      BY <1>0, <3>1, <3>2, <3>3, <3>4 DEF Ordered
    <3>8. Ordered'
      BY <1>0, <1>1, <3>2, <3>3, <3>4, <3>5, <3>6, <3>7 DEF Ordered
    <3>9. Handed'
      <4>1. frame[Output] \in Nat /\ \A c \in Captures :
              current[c] \in Nat /\ frame[c] \in Nat /\ shown[c] \in Nat
        BY <1>0 DEF Carried, Devices
      <4> QED
        BY <1>0, <1>1, <3>1, <3>3, <3>4, <4>1 DEF Handed, Follows
    <3> QED
      BY <3>8, <3>9
  <2> QED
    BY <2>1, <2>2
<1> QED
  BY <1>1, <1>2, <1>3, <1>7, <1>8, <1>9, <1>10, Lemma_Elsewhere

\* Turning on begins to give buffers to the driver, if there are enough.
LEMMA Lemma_StreamOn ==
  ASSUME CamInv, NEW d \in Devices, StreamOn(d)
  PROVE  CamInv'
<1>0. /\ Shaped /\ Carried /\ Counted /\ Placed(d) /\ Phase(d)
      /\ Ordered /\ Handed
  BY DEF CamInv
<1>1. /\ op[d] = "idle" /\ ~streaming[d]
      /\ streaming' = [streaming EXCEPT ![d] = TRUE]
      /\ Enqueue(d, todo[d], TRUE)
      /\ UNCHANGED <<where, list, thread, hand, lost, frame, togo, current,
                     content, shown, frames, signals>>
  BY DEF StreamOn
<1>2. /\ todo' = [e \in Devices |-> todo'[e]]
      /\ \A e \in Devices : todo'[e] = todo[e]
      /\ op' \in [Devices -> {"idle", "queue", "stop", "forget", "flush", "cancel"}]
      /\ op'[d] = op[d] \/ op'[d] = "queue"
      /\ \A e \in Devices \ {d} : op'[e] = op[e]
  BY <1>0, <1>1 DEF Enqueue, Shaped
<1>3. Output \in Devices
  BY DEF Devices
<1>4. /\ streaming' \in [Devices -> BOOLEAN] /\ streaming'[d]
      /\ \A e \in Devices \ {d} : streaming'[e] = streaming[e]
  BY <1>0, <1>1 DEF Shaped
<1>5. Shaped' /\ Carried' /\ Counted'
  BY <1>0, <1>1, <1>2, <1>4 DEF Shaped, Carried, Counted
<1>6. Placed(d)' /\ Phase(d)'
  BY <1>0, <1>1, <1>2, <1>4 DEF Placed, Phase, Listed, In
<1>7. Ordered' /\ Handed'
  BY <1>1, <1>2, <1>3, Lemma_NoFrame
<1> QED
  BY <1>1, <1>2, <1>4, <1>5, <1>6, <1>7, Lemma_Elsewhere

\* vb2 hands its first buffer to the driver, which lists it or loses it.
LEMMA Lemma_buffer_queue ==
  ASSUME CamInv, NEW d \in Devices, akvcam_buffers_buffer_queue(d)
  PROVE  CamInv'
<1>0. /\ Shaped /\ Carried /\ Counted /\ Placed(d) /\ Phase(d)
      /\ Ordered /\ Handed
  BY DEF CamInv
<1> DEFINE b == Head(todo[d])
<1>1. /\ op[d] = "queue" /\ todo[d] # << >>
      /\ where' = Moved(d, {b}, "driver")
      /\ todo' = [todo EXCEPT ![d] = Tail(todo[d])]
      /\ UNCHANGED <<streaming, op, thread, hand, frame, togo, current, content,
                     shown, frames>>
  BY DEF akvcam_buffers_buffer_queue
<1>2. \/ /\ list' = [list EXCEPT ![d] = Append(list[d], b)]
         /\ UNCHANGED <<lost, signals>>
      \/ /\ lost' = [lost EXCEPT ![d] = lost[d] \cup {b}]
         /\ signals < MaxSignals /\ signals' = signals + 1 /\ UNCHANGED list
  BY DEF akvcam_buffers_buffer_queue, Interrupted, PutLast
<1>3. /\ b \in Buffers[d] /\ b \in ToSet(todo[d])
      /\ Tail(todo[d]) \in Seq(Buffers[d]) /\ IsInjective(Tail(todo[d]))
      /\ ToSet(Tail(todo[d])) = ToSet(todo[d]) \ {b}
  BY <1>0, <1>1, ListTail DEF Placed
<1> HIDE DEF b
<1>4. /\ where' = [e \in Devices |-> where'[e]]
      /\ \A e \in Devices \ {d} : where'[e] = where[e]
      /\ where'[d] \in [Buffers[d] -> States]
      /\ In(d, "driver")' = In(d, "driver") \cup {b}
      /\ In(d, "queued")' = In(d, "queued") \ {b}
  <2>1. {b} \in SUBSET Buffers[d]
    BY <1>3
  <2> QED
    BY <1>0, <1>1, <2>1, Lemma_MovedTo DEF States
<1>5. b \in In(d, "queued") /\ b \notin In(d, "driver")
  BY <1>0, <1>3 DEF Placed, In
<1>6. b \notin Listed(d) /\ b \notin hand[d] /\ b \notin lost[d]
  BY <1>0, <1>5 DEF Placed
<1>7. /\ todo' = [e \in Devices |-> todo'[e]] /\ todo'[d] = Tail(todo[d])
      /\ \A e \in Devices \ {d} : todo'[e] = todo[e]
  BY <1>0, <1>1 DEF Shaped
<1>8. Phase(d)'
  BY <1>0, <1>1 DEF Phase
<1>9. CASE /\ list' = [list EXCEPT ![d] = Append(list[d], b)]
           /\ UNCHANGED <<lost, signals>>
  <2>1. /\ list' = [e \in Devices |-> list'[e]] /\ list'[d] = Append(list[d], b)
        /\ \A e \in Devices \ {d} : list'[e] = list[e]
    BY <1>0, <1>9 DEF Shaped
  <2>2. /\ list'[d] \in Seq(Buffers[d]) /\ IsInjective(list'[d])
        /\ Listed(d)' = Listed(d) \cup {b}
    <3>1. /\ list[d] \in Seq(Buffers[d]) /\ IsInjective(list[d])
          /\ b \in Buffers[d] /\ b \notin ToSet(list[d])
      BY <1>0, <1>3, <1>6 DEF Placed, Listed
    <3>2. /\ Append(list[d], b) \in Seq(Buffers[d]) /\ IsInjective(Append(list[d], b))
          /\ ToSet(Append(list[d], b)) = ToSet(list[d]) \cup {b}
      BY <3>1, Lemma_Joined
    <3> QED
      BY <2>1, <3>2 DEF Listed
  <2>3. Shaped' /\ Carried' /\ Counted'
    BY <1>0, <1>1, <1>4, <1>7, <1>9, <2>1 DEF Shaped, Carried, Counted
  <2>4. Placed(d)'
    <3>1. lost'[d] = lost[d] /\ hand'[d] = hand[d]
      BY <1>1, <1>9
    <3>2. /\ Listed(d)' \cap hand'[d] = {}
          /\ (Listed(d)' \cup hand'[d]) \cap lost'[d] = {}
          /\ Listed(d)' \cup hand'[d] \cup lost'[d] = In(d, "driver")'
      BY <1>0, <1>4, <1>6, <2>2, <3>1 DEF Placed
    <3>3. ToSet(todo'[d]) = In(d, "queued")'
      BY <1>0, <1>3, <1>4, <1>7 DEF Placed
    <3> QED
      BY <1>0, <1>1, <1>3, <1>4, <1>7, <2>2, <3>1, <3>2, <3>3 DEF Placed
  <2>5. CASE d = Output
    <3>1. \A e \in Listed(d) : content[e] < content[b]
      BY <1>0, <1>3, <2>5 DEF Ordered
    <3>2. Rising(content, list'[d])
      BY <1>0, <1>3, <2>1, <2>5, <3>1, Lemma_RisingAppend DEF Placed, Ordered, Listed
    <3>3. /\ Rising(content, Tail(todo[d]))
          /\ \A e \in ToSet(Tail(todo[d])) : content[b] < content[e]
      BY <1>0, <1>1, <2>5, Lemma_RisingTail DEF Placed, Ordered, b
    <3>4. Unread' = Unread
      BY <1>1, <1>3, <1>7, <2>2, <2>5 DEF Unread
    <3>5. Ordered'
      BY <1>0, <1>1, <1>3, <1>7, <2>2, <2>5, <3>2, <3>3, <3>4, SMTT(30) DEF Ordered
    <3>6. Handed'
      BY <1>0, <1>1, <3>4 DEF Handed, Follows
    <3> QED
      BY <1>1, <1>4, <1>7, <1>8, <1>9, <2>1, <2>3, <2>4, <3>5, <3>6, Lemma_Elsewhere
  <2>6. CASE d # Output
    <3>1. Output \in Devices \ {d}
      BY <2>6 DEF Devices
    <3>2. Ordered' /\ Handed'
      BY <1>1, <1>7, <2>1, <3>1, Lemma_NoFrame
    <3> QED
      BY <1>1, <1>4, <1>7, <1>8, <1>9, <2>1, <2>3, <2>4, <3>2, Lemma_Elsewhere
  <2> QED
    BY <2>5, <2>6
<1>10. CASE /\ lost' = [lost EXCEPT ![d] = lost[d] \cup {b}]
            /\ signals < MaxSignals /\ signals' = signals + 1 /\ UNCHANGED list
  <2>1. /\ lost' = [e \in Devices |-> lost'[e]] /\ lost'[d] = lost[d] \cup {b}
        /\ \A e \in Devices \ {d} : lost'[e] = lost[e]
    BY <1>0, <1>10 DEF Shaped
  <2>2. Shaped' /\ Carried' /\ Counted'
    <3>1. Counted'
      BY <1>0, <1>1, <1>10 DEF Counted, BoundsFit
    <3> QED
      BY <1>0, <1>1, <1>4, <1>7, <1>10, <2>1, <3>1 DEF Shaped, Carried
  <2>3. Placed(d)'
    <3>1. Listed(d)' = Listed(d) /\ hand'[d] = hand[d]
      BY <1>1, <1>10 DEF Listed
    <3>2. /\ Listed(d)' \cap hand'[d] = {}
          /\ (Listed(d)' \cup hand'[d]) \cap lost'[d] = {}
          /\ Listed(d)' \cup hand'[d] \cup lost'[d] = In(d, "driver")'
      BY <1>0, <1>4, <1>6, <2>1, <3>1 DEF Placed
    <3>3. ToSet(todo'[d]) = In(d, "queued")'
      BY <1>0, <1>3, <1>4, <1>7 DEF Placed
    <3> QED
      BY <1>0, <1>1, <1>3, <1>4, <1>7, <1>10, <3>2, <3>3 DEF Placed
  <2>4. CASE d = Output
    <3>1. Rising(content, Tail(todo[d]))
      BY <1>0, <1>1, <2>4, Lemma_RisingTail DEF Placed, Ordered
    <3>2. Unread' \subseteq Unread /\ Listed(d)' = Listed(d)
      BY <1>1, <1>3, <1>7, <1>10, <2>4 DEF Unread, Listed
    <3>3. Ordered'
      BY <1>0, <1>1, <1>3, <1>7, <1>10, <2>4, <3>1, <3>2 DEF Ordered
    <3>4. Handed'
      BY <1>0, <1>1, <3>2 DEF Handed, Follows
    <3> QED
      BY <1>1, <1>4, <1>7, <1>8, <1>10, <2>1, <2>2, <2>3, <3>3, <3>4, Lemma_Elsewhere
  <2>5. CASE d # Output
    <3>1. Output \in Devices \ {d}
      BY <2>5 DEF Devices
    <3>2. Ordered' /\ Handed'
      BY <1>1, <1>7, <1>10, <3>1, Lemma_NoFrame
    <3> QED
      BY <1>1, <1>4, <1>7, <1>8, <1>10, <2>1, <2>2, <2>3, <3>2, Lemma_Elsewhere
  <2> QED
    BY <2>4, <2>5
<1> QED
  BY <1>2, <1>9, <1>10

\* A step that only changes what a call or a thread is at.
LEMMA Lemma_At ==
  ASSUME CamInv, NEW d \in Devices,
         op' \in [Devices -> {"idle", "queue", "stop", "forget", "flush", "cancel"}],
         thread' \in [Devices -> {"none", "sleep", "look", "take",
                                 "copy", "hand over", "replace"}],
         \A e \in Devices \ {d} : op'[e] = op[e] /\ thread'[e] = thread[e],
         thread'[d] # "copy", thread[d] # "copy", Phase(d)', Carried',
         UNCHANGED <<where, streaming, todo, list, hand, lost, frame, togo, current,
                     content, shown, frames, signals>>
  PROVE  CamInv'
<1>0. /\ Shaped /\ Carried /\ Counted /\ Placed(d) /\ Phase(d)
      /\ Ordered /\ Handed
  BY DEF CamInv
<1>1. Shaped' /\ Counted'
  BY <1>0 DEF Shaped, Counted
<1>2. Placed(d)'
  BY <1>0 DEF Placed, Listed, In
<1>3. Ordered' /\ Handed'
  BY Lemma_NoFrame
<1> QED
  BY <1>1, <1>2, <1>3, Lemma_Elsewhere

\* The stream starts; it is asked to stop; the thread is gone.
LEMMA Lemma_Stream ==
  ASSUME CamInv, NEW d \in Devices,
         \/ akvcam_buffers_start_streaming(d) \/ StreamOff(d)
         \/ akvcam_device_clock_stop(d)
  PROVE  CamInv'
<1>0. /\ Shaped /\ Carried /\ Counted /\ Placed(d) /\ Phase(d)
      /\ Ordered /\ Handed
  BY DEF CamInv
<1>1. CASE akvcam_buffers_start_streaming(d)
  <2>1. /\ op[d] = "queue" /\ op' = [op EXCEPT ![d] = "idle"]
        /\ thread' = IF Started(d) THEN thread ELSE [thread EXCEPT ![d] = "sleep"]
        /\ UNCHANGED <<where, streaming, todo, list, hand, lost, frame, togo,
                       current, content, shown, frames, signals>>
    BY <1>1 DEF akvcam_buffers_start_streaming
  <2>2. CASE Started(d)
    <3>1. op' = [op EXCEPT ![d] = "idle"] /\ thread' = thread /\ thread[d] # "none"
      BY <2>1, <2>2 DEF Started
    <3>2. Shaped' /\ Carried' /\ Counted'
      BY <1>0, <2>1, <3>1 DEF Shaped, Carried, Counted
    <3>3. Placed(d)' /\ Phase(d)'
      BY <1>0, <2>1, <3>1 DEF Shaped, Placed, Phase, Listed, In
    <3>4. Ordered' /\ Handed'
      BY <2>1, Lemma_NoFrame
    <3>5. \A e \in Devices \ {d} : op'[e] = op[e]
      BY <1>0, <2>1 DEF Shaped
    <3> QED
      BY <2>1, <3>1, <3>2, <3>3, <3>4, <3>5, Lemma_Elsewhere
  <2>3. CASE ~Started(d)
    <3>1. thread' = [thread EXCEPT ![d] = "sleep"] /\ thread[d] = "none"
      BY <2>1, <2>3 DEF Started
    <3>2. /\ op' \in [Devices -> {"idle", "queue", "stop", "forget", "flush", "cancel"}]
          /\ thread' \in [Devices -> {"none", "sleep", "look", "take",
                                      "copy", "hand over", "replace"}]
          /\ \A e \in Devices \ {d} : op'[e] = op[e] /\ thread'[e] = thread[e]
          /\ op'[d] = "idle" /\ thread'[d] = "sleep"
      BY <1>0, <2>1, <3>1 DEF Shaped
    <3>3. Phase(d)' /\ Carried'
      <4>1. thread'[Output] = "replace" => thread[Output] = "replace"
        BY <3>2 DEF Devices
      <4> QED
        BY <1>0, <2>1, <3>1, <3>2, <4>1 DEF Phase, Carried
    <3> QED
      BY <2>1, <3>1, <3>2, <3>3, Lemma_At
  <2> QED
    BY <2>2, <2>3
<1>2. CASE StreamOff(d)
  <2>1. /\ op[d] = "idle" /\ streaming[d]
        /\ op' = [op EXCEPT ![d] = IF Started(d) THEN "stop" ELSE "cancel"]
        /\ UNCHANGED <<where, streaming, todo, list, thread, hand, lost, frame, togo,
                       current, content, shown, frames, signals>>
    BY <1>2 DEF StreamOff
  <2>2. /\ op' \in [Devices -> {"idle", "queue", "stop", "forget", "flush", "cancel"}]
        /\ op'[d] = IF thread[d] # "none" THEN "stop" ELSE "cancel"
        /\ \A e \in Devices \ {d} : op'[e] = op[e]
    BY <1>0, <2>1 DEF Shaped, Started
  <2>3. Shaped' /\ Carried' /\ Counted'
    BY <1>0, <2>1, <2>2 DEF Shaped, Carried, Counted
  <2>4. Placed(d)' /\ Phase(d)'
    BY <1>0, <2>1, <2>2 DEF Placed, Phase, Listed, In
  <2>5. Ordered' /\ Handed'
    BY <2>1, Lemma_NoFrame
  <2> QED
    BY <2>1, <2>2, <2>3, <2>4, <2>5, Lemma_Elsewhere
<1>3. CASE akvcam_device_clock_stop(d)
  <2>1. /\ op[d] = "stop" /\ thread[d] = "sleep"
        /\ thread' = [thread EXCEPT ![d] = "none"]
        /\ op' = [op EXCEPT ![d] = IF d = Output THEN "flush" ELSE "forget"]
        /\ UNCHANGED <<where, streaming, todo, list, hand, lost, frame, togo,
                       current, content, shown, frames, signals>>
    BY <1>3 DEF akvcam_device_clock_stop, Ends
  <2>2. /\ op' \in [Devices -> {"idle", "queue", "stop", "forget", "flush", "cancel"}]
        /\ thread' \in [Devices -> {"none", "sleep", "look", "take",
                                    "copy", "hand over", "replace"}]
        /\ \A e \in Devices \ {d} : op'[e] = op[e] /\ thread'[e] = thread[e]
        /\ op'[d] \in {"flush", "forget"} /\ thread'[d] = "none"
    BY <1>0, <2>1 DEF Shaped
  <2>3. Phase(d)' /\ Carried'
    <3>1. thread'[Output] = "replace" => thread[Output] = "replace"
      BY <2>2 DEF Devices
    <3> QED
      BY <1>0, <2>1, <2>2, <3>1 DEF Phase, Carried
  <2> QED
    BY <2>1, <2>2, <2>3, Lemma_At
<1> QED
  BY <1>1, <1>2, <1>3

\* A buffer that is done goes back to the program.
LEMMA Lemma_DQBuf ==
  ASSUME CamInv, NEW d \in Devices, NEW b \in Buffers[d], DQBuf(d, b)
  PROVE  CamInv'
<1>0. /\ Shaped /\ Carried /\ Counted /\ Placed(d) /\ Phase(d)
      /\ Ordered /\ Handed
  BY DEF CamInv
<1>1. /\ where[d][b] = "done" /\ where' = Moved(d, {b}, "user")
      /\ UNCHANGED <<streaming, op, todo, list, thread, hand, lost, frame, togo,
                     current, content, shown, frames, signals>>
  BY DEF DQBuf
<1>2. /\ where' = [e \in Devices |-> where'[e]]
      /\ \A e \in Devices \ {d} : where'[e] = where[e]
      /\ where'[d] \in [Buffers[d] -> States]
      /\ In(d, "queued")' = In(d, "queued") \ {b}
      /\ In(d, "driver")' = In(d, "driver") \ {b}
  <2>1. {b} \in SUBSET Buffers[d]
    OBVIOUS
  <2> QED
    BY <1>0, <1>1, <2>1, Lemma_MovedTo DEF States
<1>3. b \notin In(d, "queued") /\ b \notin In(d, "driver")
  BY <1>1 DEF In
<1>4. Shaped' /\ Carried' /\ Counted'
  BY <1>0, <1>1, <1>2 DEF Shaped, Carried, Counted
<1>5. Placed(d)' /\ Phase(d)'
  <2>1. In(d, "queued")' = In(d, "queued") /\ In(d, "driver")' = In(d, "driver")
    BY <1>2, <1>3
  <2>2. Placed(d)'
    BY <1>0, <1>1, <1>2, <2>1 DEF Placed, Listed
  <2>3. Phase(d)'
    BY <1>0, <1>1 DEF Phase
  <2> QED
    BY <2>2, <2>3
<1>6. Ordered' /\ Handed'
  BY <1>1, Lemma_NoFrame
<1> QED
  BY <1>1, <1>2, <1>4, <1>5, <1>6, Lemma_Elsewhere

\* A capture gives up its frame, or keeps it.
LEMMA Lemma_Forget ==
  ASSUME CamInv, NEW d \in Captures, Output # d, d \in Devices, Forget(d)
  PROVE  CamInv'
<1>0. /\ Shaped /\ Carried /\ Counted /\ Placed(d) /\ Phase(d)
      /\ Ordered /\ Handed
  BY DEF CamInv
<1>1. /\ op[d] = "forget" /\ op' = [op EXCEPT ![d] = "flush"]
      /\ UNCHANGED <<where, streaming, todo, list, thread, hand, lost, frame, togo,
                     content, shown, frames>>
      /\ \/ current' = [current EXCEPT ![d] = 0] /\ signals' = signals
         \/ current' = current /\ signals < MaxSignals /\ signals' = signals + 1
  BY DEF Forget, Interrupted
<1>2. /\ op' \in [Devices -> {"idle", "queue", "stop", "forget", "flush", "cancel"}]
      /\ op'[d] = "flush" /\ \A e \in Devices \ {d} : op'[e] = op[e]
  BY <1>0, <1>1 DEF Shaped
<1>3. /\ current' \in [Captures -> Nat]
      /\ \A c \in Captures : current'[c] = current[c] \/ current'[c] = 0
  BY <1>0, <1>1 DEF Carried
<1>4. Counted'
  BY <1>0, <1>1 DEF Counted, BoundsFit
<1>5. Shaped' /\ Carried'
  BY <1>0, <1>1, <1>2, <1>3 DEF Shaped, Carried
<1>6. Placed(d)' /\ Phase(d)'
  BY <1>0, <1>1, <1>2 DEF Placed, Phase, Listed, In
<1>7. Unread' = Unread /\ Listed(Output)' = Listed(Output)
  BY <1>1 DEF Unread, Listed
<1>8. Ordered'
  BY <1>0, <1>1, <1>7 DEF Ordered
<1>9. Handed'
  <2>1. /\ frames \in Nat /\ \A b \in Unread : content[b] \in Nat
        /\ \A e \in Devices : frame[e] \in Nat
        /\ \A c \in Captures : frame[c] \in Nat /\ shown[c] \in Nat /\ current[c] \in Nat
    <3>1. Unread \subseteq Buffers[Output]
      BY DEF Unread, CamInv, Placed, Devices, In
    <3> QED
      BY <1>0, <3>1 DEF Carried, Counted, BoundsFit, Devices
  <2>2. \A b \in Unread : frame[Output] < content[b]
    BY <1>0 DEF Handed, Follows
  <2>3. Output \in Devices
    BY DEF Devices
  <2>4. \A b \in Unread : 0 < content[b]
    BY <2>1, <2>2, <2>3
  <2> QED
    BY <1>0, <1>1, <1>3, <1>7, <2>1, <2>3, <2>4 DEF Handed, Follows
<1> QED
  BY <1>1, <1>2, <1>4, <1>5, <1>6, <1>8, <1>9, Lemma_Elsewhere

\* What is still on the list goes back.
LEMMA Lemma_Flush ==
  ASSUME CamInv, NEW d \in Devices, Flush(d)
  PROVE  CamInv'
<1>0. /\ Shaped /\ Carried /\ Counted /\ Placed(d) /\ Phase(d)
      /\ Ordered /\ Handed
  BY DEF CamInv
<1>1. /\ op[d] = "flush" /\ where' = Moved(d, Listed(d), "done")
      /\ list' = [list EXCEPT ![d] = << >>] /\ op' = [op EXCEPT ![d] = "cancel"]
      /\ UNCHANGED <<streaming, todo, thread, hand, lost, frame, togo, current,
                     content, shown, frames, signals>>
  BY DEF Flush, Listed, ToSet
<1>2. Listed(d) \in SUBSET Buffers[d]
  BY <1>0 DEF Placed, In
<1>3. /\ where' = [e \in Devices |-> where'[e]]
      /\ \A e \in Devices \ {d} : where'[e] = where[e]
      /\ where'[d] \in [Buffers[d] -> States]
      /\ In(d, "queued")' = In(d, "queued") \ Listed(d)
      /\ In(d, "driver")' = In(d, "driver") \ Listed(d)
  BY <1>0, <1>1, <1>2, Lemma_MovedTo DEF States
<1>4. /\ op' \in [Devices -> {"idle", "queue", "stop", "forget", "flush", "cancel"}]
      /\ op'[d] = "cancel" /\ \A e \in Devices \ {d} : op'[e] = op[e]
      /\ list' = [e \in Devices |-> list'[e]] /\ list'[d] = << >>
      /\ \A e \in Devices \ {d} : list'[e] = list[e]
  BY <1>0, <1>1 DEF Shaped
<1>5. /\ Listed(d)' = {} /\ list'[d] \in Seq(Buffers[d]) /\ IsInjective(list'[d])
      /\ Listed(d) \cap In(d, "queued") = {}
  BY <1>0, <1>4, ListEmpty DEF Listed, Placed, In
<1>6. Shaped' /\ Carried' /\ Counted'
  BY <1>0, <1>1, <1>3, <1>4 DEF Shaped, Carried, Counted
<1>7. Placed(d)'
  BY <1>0, <1>1, <1>3, <1>5 DEF Placed
<1>8. Phase(d)'
  BY <1>0, <1>1, <1>4 DEF Phase
<1>9. Ordered' /\ Handed'
  <2>1. CASE d # Output
    <3>1. Output \in Devices \ {d}
      BY <2>1 DEF Devices
    <3> QED
      BY <1>1, <1>4, <3>1, Lemma_NoFrame
  <2>2. CASE d = Output
    <3>1. Unread' \subseteq Unread
      BY <1>1, <1>5, <2>2 DEF Unread
    <3>2. Rising(content, << >>)
      BY DEF Rising
    <3>3. Ordered'
      BY <1>0, <1>1, <1>4, <1>5, <2>2, <3>1, <3>2 DEF Ordered
    <3>4. Handed'
      BY <1>0, <1>1, <3>1 DEF Handed, Follows
    <3> QED
      BY <3>3, <3>4
  <2> QED
    BY <2>1, <2>2
<1> QED
  BY <1>1, <1>3, <1>4, <1>6, <1>7, <1>8, <1>9, Lemma_Elsewhere

\* vb2 takes everything back; the driver has nothing on its list by then.
LEMMA Lemma_Cancel ==
  ASSUME CamInv, NEW d \in Devices, Cancel(d)
  PROVE  CamInv'
<1>0. /\ Shaped /\ Carried /\ Counted /\ Placed(d) /\ Phase(d)
      /\ Ordered /\ Handed
  BY DEF CamInv
<1>1. /\ op[d] = "cancel" /\ where' = Moved(d, Buffers[d], "user")
      /\ streaming' = [streaming EXCEPT ![d] = FALSE]
      /\ todo' = [todo EXCEPT ![d] = << >>] /\ lost' = [lost EXCEPT ![d] = {}]
      /\ op' = [op EXCEPT ![d] = "idle"]
      /\ content' = IF d = Output THEN [b \in Buffers[Output] |-> 0] ELSE content
      /\ UNCHANGED <<list, thread, hand, frame, togo, current, shown, frames, signals>>
  BY DEF Cancel
<1>2. thread[d] = "none" /\ list[d] = << >> /\ hand[d] = {} /\ Listed(d) = {}
  BY <1>0, <1>1, ListEmpty DEF Phase, Placed, Listed
<1>3. /\ where' = [e \in Devices |-> where'[e]]
      /\ \A e \in Devices \ {d} : where'[e] = where[e]
      /\ where'[d] \in [Buffers[d] -> States]
      /\ In(d, "queued")' = {} /\ In(d, "driver")' = {}
  <2>1. Buffers[d] \in SUBSET Buffers[d]
    OBVIOUS
  <2>2. In(d, "queued") \ Buffers[d] = {} /\ In(d, "driver") \ Buffers[d] = {}
    BY DEF In
  <2> QED
    BY <1>0, <1>1, <2>1, <2>2, Lemma_MovedTo DEF States
<1>4. /\ op' \in [Devices -> {"idle", "queue", "stop", "forget", "flush", "cancel"}]
      /\ streaming' \in [Devices -> BOOLEAN]
      /\ op'[d] = "idle" /\ streaming'[d] = FALSE /\ todo'[d] = << >> /\ lost'[d] = {}
      /\ todo' = [e \in Devices |-> todo'[e]] /\ lost' = [e \in Devices |-> lost'[e]]
      /\ \A e \in Devices \ {d} :
           /\ op'[e] = op[e] /\ streaming'[e] = streaming[e]
           /\ todo'[e] = todo[e] /\ lost'[e] = lost[e]
  BY <1>0, <1>1 DEF Shaped
<1>5. Shaped' /\ Counted'
  BY <1>0, <1>1, <1>3, <1>4 DEF Shaped, Counted
<1>6. Carried'
  BY <1>0, <1>1 DEF Carried
<1>7. Placed(d)'
  BY <1>0, <1>1, <1>2, <1>3, <1>4, ListEmpty DEF Placed, Listed
<1>8. Phase(d)'
  BY <1>1, <1>2, <1>4 DEF Phase
<1>9. Ordered' /\ Handed'
  <2>1. CASE d # Output
    <3>1. Output \in Devices \ {d}
      BY <2>1 DEF Devices
    <3> QED
      BY <1>1, <1>4, <2>1, <3>1, Lemma_NoFrame
  <2>2. CASE d = Output
    <3>1. Unread' = {} /\ Listed(Output)' = {}
      BY <1>1, <1>2, <1>4, <2>2, ListEmpty DEF Unread, Listed
    <3>2. Rising(content', << >>)
      BY DEF Rising
    <3>3. Ordered'
      BY <1>1, <1>2, <1>4, <2>2, <3>1, <3>2 DEF Ordered
    <3>4. Handed'
      BY <1>0, <1>1, <3>1 DEF Handed, Follows
    <3> QED
      BY <3>3, <3>4
  <2> QED
    BY <2>1, <2>2
<1> QED
  BY <1>1, <1>3, <1>4, <1>5, <1>6, <1>7, <1>8, <1>9, Lemma_Elsewhere

-----------------------------------------------------------------------------
(* The clock threads.                                                      *)

\* The thread goes on.
LEMMA Lemma_Goes ==
  ASSUME Shaped, NEW d \in Devices, NEW from,
         NEW to \in {"none", "sleep", "look", "take", "copy", "hand over", "replace"},
         At(d, from, to)
  PROVE  /\ thread' \in [Devices -> {"none", "sleep", "look", "take",
                                    "copy", "hand over", "replace"}]
         /\ thread[d] = from /\ thread'[d] = to
         /\ \A e \in Devices \ {d} : thread'[e] = thread[e]
BY DEF At, Shaped

\* What is unread is in a buffer of the output, and has a number.
LEMMA Lemma_Numbers ==
  ASSUME CamInv
  PROVE  /\ frames \in Nat /\ Unread \subseteq Buffers[Output]
         /\ \A b \in Buffers[Output] : content[b] \in Nat
         /\ \A e \in Devices : frame[e] \in Nat
         /\ \A c \in Captures : frame[c] \in Nat /\ shown[c] \in Nat /\ current[c] \in Nat
<1>1. Unread \subseteq Buffers[Output]
  BY DEF Unread, CamInv, Placed, Devices, In
<1> QED
  BY <1>1 DEF CamInv, Carried, Counted, BoundsFit, Devices

\* A period begins; the output's thread turns to the next capture, or ends its
\* period: all but the frame stays.
LEMMA Lemma_Wake ==
  ASSUME CamInv, NEW d \in Devices, Wake(d)
  PROVE  CamInv'
<1>0. /\ Shaped /\ Carried /\ Counted /\ Placed(d) /\ Phase(d)
      /\ Ordered /\ Handed
  BY DEF CamInv
<1>1. /\ op[d] # "stop" /\ \E to \in {"look", "take"} : At(d, "sleep", to)
      /\ UNCHANGED <<where, streaming, op, todo, list, hand, lost, frame, togo,
                     current, content, shown, frames, signals>>
  BY DEF Wake
<1>2. /\ thread' \in [Devices -> {"none", "sleep", "look", "take",
                                    "copy", "hand over", "replace"}]
      /\ thread[d] = "sleep" /\ thread'[d] \in {"look", "take"}
      /\ \A e \in Devices \ {d} : thread'[e] = thread[e]
  BY <1>0, <1>1, Lemma_Goes
<1>3. Phase(d)'
  BY <1>0, <1>1, <1>2 DEF Phase
<1>4. Carried'
  <2>1. thread'[Output] = "replace" => thread[Output] = "replace"
    BY <1>2 DEF Devices
  <2> QED
    BY <1>0, <1>1, <2>1 DEF Carried
<1>5. op' \in [Devices -> {"idle", "queue", "stop", "forget", "flush", "cancel"}]
  BY <1>0, <1>1 DEF Shaped
<1> QED
  BY <1>1, <1>2, <1>3, <1>4, <1>5, Lemma_At

\* The output's thread turns to the next capture, or ends its period.
LEMMA Lemma_HandOver ==
  ASSUME CamInv, NEW d \in Devices, d = Output, HandOver
  PROVE  CamInv'
<1>0. /\ Shaped /\ Carried /\ Counted /\ Placed(d) /\ Phase(d)
      /\ Ordered /\ Handed
  BY DEF CamInv
<1>1. UNCHANGED <<where, streaming, op, todo, list, hand, lost, togo, current,
                  content, shown, frames, signals>>
  BY DEF HandOver
<1>2. /\ frame' = [frame EXCEPT ![d] = 0] \/ frame' = frame
      /\ \E to \in {"sleep", "replace"} :
           At(d, "hand over", to) /\ (to = "replace" => togo # << >>)
  BY DEF HandOver
<1>3. /\ thread' \in [Devices -> {"none", "sleep", "look", "take",
                                    "copy", "hand over", "replace"}]
      /\ thread[d] = "hand over" /\ thread'[d] \in {"sleep", "replace"}
      /\ thread'[d] = "replace" => togo # << >>
      /\ \A e \in Devices \ {d} : thread'[e] = thread[e]
  BY <1>0, <1>2, Lemma_Goes
<1>4. /\ frame' \in [Devices -> Nat] /\ frame'[d] \in {0, frame[d]}
      /\ \A e \in Devices \ {d} : frame'[e] = frame[e]
  <2>1. frame \in [Devices -> Nat]
    BY <1>0 DEF Carried
  <2>2. frame' = [frame EXCEPT ![d] = 0] \/ frame' = frame
    BY <1>2
  <2> QED
    BY <2>1, <2>2
<1>5. Shaped' /\ Carried' /\ Counted'
  BY <1>0, <1>1, <1>3, <1>4 DEF Shaped, Carried, Counted
<1>6. Placed(d)' /\ Phase(d)'
  BY <1>0, <1>1, <1>3 DEF Placed, Phase, Listed, In
<1>7. Unread' = Unread /\ Listed(Output)' = Listed(Output)
  BY <1>1 DEF Unread, Listed
<1>8. Ordered'
  BY <1>0, <1>1, <1>7 DEF Ordered
<1>9. Handed'
  <2>1. /\ frame'[Output] <= frames
        /\ \A b \in Unread : frame'[Output] < content[b]
        /\ frame'[Output] # 0 => frame'[Output] = frame[Output]
    BY <1>0, <1>4, Lemma_Numbers DEF Handed, Follows
  <2>2. \A c \in Captures : frame'[c] \in {frame[c], 0} /\
          (frame'[c] # 0 => frame'[c] = frame[c])
    BY <1>4 DEF Devices
  <2>3. \A b \in Unread : 0 < content[b]
    BY <1>0, <1>4, Lemma_Numbers DEF Handed, Follows
  <2>4. ASSUME NEW c \in Captures
        PROVE  Follows(c)'
    <3>1. Follows(c)
      BY <1>0 DEF Handed
    <3> QED
      BY <1>1, <1>7, <2>1, <2>2, <2>3, <3>1, Lemma_Numbers DEF Follows
  <2> QED
    BY <1>1, <1>7, <2>1, <2>4 DEF Handed
<1> QED
  BY <1>1, <1>3, <1>5, <1>6, <1>8, <1>9, Lemma_Elsewhere

\* A capture is handed the frame that the output's thread carries.
LEMMA Lemma_Replace ==
  ASSUME CamInv, NEW d \in Devices, d = Output, Replace
  PROVE  CamInv'
<1>0. /\ Shaped /\ Carried /\ Counted /\ Placed(d) /\ Phase(d)
      /\ Ordered /\ Handed
  BY DEF CamInv
<1>1. /\ At(d, "replace", "hand over")
      /\ current' = [current EXCEPT ![Head(togo)] = frame[Output]]
      /\ togo' = Tail(togo)
      /\ UNCHANGED <<where, streaming, op, todo, list, hand, lost, frame, content,
                     shown, frames, signals>>
  BY DEF Replace
<1>2. /\ thread' \in [Devices -> {"none", "sleep", "look", "take",
                                    "copy", "hand over", "replace"}]
      /\ thread[d] = "replace" /\ thread'[d] = "hand over"
      /\ \A e \in Devices \ {d} : thread'[e] = thread[e]
  BY <1>0, <1>1, Lemma_Goes
<1>3. /\ current' \in [Captures -> Nat]
      /\ \A c \in Captures : current'[c] \in {current[c], frame[Output]}
      /\ togo' \in Seq(Captures)
  <2>1. togo # << >> /\ togo \in Seq(Captures)
    BY <1>0, <1>2 DEF Carried
  <2>2. frame[Output] \in Nat
    BY Lemma_Numbers
  <2> QED
    BY <1>0, <1>1, <2>1, <2>2, ListTail DEF Carried
<1>4. Shaped' /\ Carried' /\ Counted'
  BY <1>0, <1>1, <1>2, <1>3 DEF Shaped, Carried, Counted
<1>5. Placed(d)' /\ Phase(d)'
  BY <1>0, <1>1, <1>2 DEF Placed, Phase, Listed, In
<1>6. Unread' = Unread /\ Listed(Output)' = Listed(Output)
  BY <1>1 DEF Unread, Listed
<1>7. Ordered'
  BY <1>0, <1>1, <1>6 DEF Ordered
<1>8. Handed'
  <2>1. ASSUME NEW c \in Captures
        PROVE  Follows(c)'
    <3>1. Follows(c) /\ \A b \in Unread : frame[Output] < content[b]
      BY <1>0 DEF Handed
    <3>2. current'[c] = current[c] \/ current'[c] = frame[Output]
      BY <1>3
    <3>3. /\ UNCHANGED <<frame, content, shown, frames>> /\ frame[Output] <= frames
      BY <1>0, <1>1 DEF Handed
    <3> QED
      BY <1>6, <3>1, <3>2, <3>3, Lemma_Numbers DEF Follows
  <2> QED
    BY <1>0, <1>1, <1>6, <2>1 DEF Handed
<1> QED
  BY <1>1, <1>2, <1>4, <1>5, <1>7, <1>8, Lemma_Elsewhere

\* A capture's thread takes the frame it was handed, or the default one.
LEMMA Lemma_Look ==
  ASSUME CamInv, NEW d \in Devices, d \in Captures, d # Output, Look(d)
  PROVE  CamInv'
<1>0. /\ Shaped /\ Carried /\ Counted /\ Placed(d) /\ Phase(d)
      /\ Ordered /\ Handed
  BY DEF CamInv
<1>1. /\ At(d, "look", "take")
      /\ frame' = [frame EXCEPT ![d] = IF Started(Output) THEN current[d] ELSE 0]
      /\ UNCHANGED <<where, streaming, op, todo, list, hand, lost, togo, current,
                     content, shown, frames, signals>>
  BY DEF Look
<1>2. /\ thread' \in [Devices -> {"none", "sleep", "look", "take",
                                    "copy", "hand over", "replace"}]
      /\ thread[d] = "look" /\ thread'[d] = "take"
      /\ \A e \in Devices \ {d} : thread'[e] = thread[e]
  BY <1>0, <1>1, Lemma_Goes
<1>3. /\ frame' \in [Devices -> Nat] /\ frame'[d] \in {0, current[d]}
      /\ \A e \in Devices \ {d} : frame'[e] = frame[e]
  BY <1>0, <1>1 DEF Carried
<1>4. Shaped' /\ Carried' /\ Counted'
  <2>1. thread'[Output] = thread[Output]
    BY <1>2 DEF Devices
  <2> QED
    BY <1>0, <1>1, <1>2, <1>3, <2>1 DEF Shaped, Carried, Counted
<1>5. Placed(d)' /\ Phase(d)'
  BY <1>0, <1>1, <1>2 DEF Placed, Phase, Listed, In
<1>6. Unread' = Unread /\ Listed(Output)' = Listed(Output)
  BY <1>1 DEF Unread, Listed
<1>7. Ordered'
  BY <1>0, <1>1, <1>6 DEF Ordered
<1>8. Handed'
  <2>1. frame'[Output] = frame[Output]
    BY <1>3 DEF Devices
  <2>2. \A c \in Captures : frame'[c] \in {0, current[c]} \/ frame'[c] = frame[c]
    BY <1>3 DEF Devices
  <2>3. \A b \in Unread : 0 < content[b]
    <3>1. frame[Output] \in Nat /\ \A b \in Unread : content[b] \in Nat
      BY Lemma_Numbers DEF Devices
    <3> QED
      BY <1>0, <3>1 DEF Handed
  <2>4. ASSUME NEW c \in Captures
        PROVE  Follows(c)'
    <3>1. Follows(c)
      BY <1>0 DEF Handed
    <3>2. frame'[c] = 0 \/ frame'[c] = current[c] \/ frame'[c] = frame[c]
      BY <2>2
    <3>3. UNCHANGED <<current, content, shown, frames>>
      BY <1>1
    <3>4. /\ current[c] \in Nat /\ shown[c] \in Nat /\ frame[c] \in Nat
          /\ frames \in Nat /\ frame[Output] \in Nat
      BY Lemma_Numbers DEF Devices
    <3>5. CASE frame'[c] = 0
      BY <1>6, <2>1, <2>3, <3>1, <3>3, <3>4, <3>5 DEF Follows
    <3>6. CASE frame'[c] = current[c]
      BY <1>6, <2>1, <3>1, <3>3, <3>4, <3>6 DEF Follows
    <3>7. CASE frame'[c] = frame[c]
      BY <1>6, <2>1, <3>1, <3>3, <3>7 DEF Follows
    <3> QED
      BY <3>2, <3>5, <3>6, <3>7
  <2> QED
    BY <1>0, <1>1, <1>6, <2>1, <2>4 DEF Handed
<1> QED
  BY <1>1, <1>2, <1>4, <1>5, <1>7, <1>8, Lemma_Elsewhere

\* The first buffer on the list goes to the hand of the thread.
LEMMA Lemma_Take ==
  ASSUME CamInv, NEW d \in Devices, Take(d)
  PROVE  CamInv'
<1>0. /\ Shaped /\ Carried /\ Counted /\ Placed(d) /\ Phase(d)
      /\ Ordered /\ Handed
  BY DEF CamInv
<1>1. UNCHANGED <<where, streaming, op, todo, lost, frame, togo, current,
                  content, shown, frames, signals>>
  BY DEF Take
<1>2. CASE At(d, "take", "sleep") /\ UNCHANGED <<hand, list>>
  <2>1. /\ thread' \in [Devices -> {"none", "sleep", "look", "take",
                                    "copy", "hand over", "replace"}]
        /\ thread[d] = "take" /\ thread'[d] = "sleep"
        /\ \A e \in Devices \ {d} : thread'[e] = thread[e]
    BY <1>0, <1>2, Lemma_Goes
  <2>2. thread'[Output] = "replace" => thread[Output] = "replace"
    BY <2>1 DEF Devices
  <2>3. Phase(d)' /\ Carried'
    BY <1>0, <1>1, <1>2, <2>1, <2>2 DEF Phase, Carried
  <2>4. op' \in [Devices -> {"idle", "queue", "stop", "forget", "flush", "cancel"}]
    BY <1>0, <1>1 DEF Shaped
  <2> QED
    BY <1>1, <1>2, <2>1, <2>3, <2>4, Lemma_At
<1>3. CASE /\ At(d, "take", "copy") /\ list[d] # << >>
           /\ hand' = [hand EXCEPT ![d] = {Head(list[d])}]
           /\ list' = [list EXCEPT ![d] = Tail(list[d])]
  <2> DEFINE b == Head(list[d])
  <2>1. /\ thread' \in [Devices -> {"none", "sleep", "look", "take",
                                    "copy", "hand over", "replace"}]
        /\ thread[d] = "take" /\ thread'[d] = "copy"
        /\ \A e \in Devices \ {d} : thread'[e] = thread[e]
    BY <1>0, <1>3, Lemma_Goes
  <2>2. /\ hand' = [e \in Devices |-> hand'[e]] /\ hand'[d] = {b}
        /\ list' = [e \in Devices |-> list'[e]] /\ list'[d] = Tail(list[d])
        /\ \A e \in Devices \ {d} : hand'[e] = hand[e] /\ list'[e] = list[e]
    BY <1>0, <1>3 DEF Shaped
  <2>3. hand[d] = {} /\ list[d] \in Seq(Buffers[d]) /\ IsInjective(list[d])
    BY <1>0, <2>1 DEF Placed
  <2>4. /\ b \in Buffers[d] /\ b \in Listed(d)
        /\ list'[d] \in Seq(Buffers[d]) /\ IsInjective(list'[d])
        /\ Listed(d)' = Listed(d) \ {b}
    BY <1>3, <2>2, <2>3, ListTail DEF Listed
  <2> HIDE DEF b
  <2>5. thread'[Output] = "replace" => thread[Output] = "replace"
    BY <2>1 DEF Devices
  <2>6. Shaped' /\ Carried' /\ Counted'
    BY <1>0, <1>1, <2>1, <2>2, <2>5 DEF Shaped, Carried, Counted
  <2>7. Placed(d)'
    <3>1. In(d, "driver")' = In(d, "driver") /\ In(d, "queued")' = In(d, "queued")
      BY <1>1 DEF In
    <3> QED
      BY <1>0, <1>1, <2>1, <2>2, <2>3, <2>4, <3>1 DEF Placed
  <2>8. Phase(d)'
    BY <1>0, <1>1, <2>1 DEF Phase
  <2>9. Ordered' /\ Handed'
    <3>1. CASE d # Output
      <4>1. Output \in Devices \ {d}
        BY <3>1 DEF Devices
      <4> QED
        BY <1>1, <2>2, <4>1, Lemma_NoFrame
    <3>2. CASE d = Output
      <4>1. /\ Rising(content, Tail(list[d]))
            /\ \A e \in ToSet(Tail(list[d])) : content[b] < content[e]
        BY <1>0, <1>3, <2>3, <3>2, Lemma_RisingTail DEF Ordered, b
      <4>2. ToSet(Tail(list[d])) = Listed(d)' /\ Listed(d)' = Listed(d) \ {b}
        BY <2>2, <2>4 DEF Listed
      <4>3. Unread' = Unread
        BY <1>1, <2>2, <2>3, <2>4, <3>2 DEF Unread
      <4>4. Ordered'
        <5>1. /\ UNCHANGED <<content, frames>> /\ todo'[Output] = todo[Output]
              /\ list'[Output] = Tail(list[Output]) /\ hand'[Output] = {b}
          BY <1>1, <2>2, <3>2
        <5>2. \A c, e \in {b} \cup Listed(Output)' :
                c \in Listed(Output) /\ e \in Listed(Output)
          BY <2>4, <3>2
        <5>3. Rising(content', list'[Output]) /\ Rising(content', todo'[Output])
          BY <1>0, <3>2, <4>1, <5>1 DEF Ordered
        <5>4. \A c \in Listed(Output)', e \in ToSet(todo'[Output]) :
                content'[c] < content'[e]
          BY <1>0, <5>1, <5>2 DEF Ordered
        <5>5. \A c \in hand'[Output], e \in Listed(Output)' \cup ToSet(todo'[Output]) :
                content'[c] < content'[e]
          BY <1>0, <3>2, <4>1, <4>2, <5>1, <5>2 DEF Ordered
        <5>6. \A c \in Unread' : content'[c] <= frames'
          BY <1>0, <4>3, <5>1 DEF Ordered
        <5> QED
          BY <5>3, <5>4, <5>5, <5>6 DEF Ordered
      <4>5. Handed'
        BY <1>0, <1>1, <4>3 DEF Handed, Follows
      <4> QED
        BY <4>4, <4>5
    <3> QED
      BY <3>1, <3>2
  <2> QED
    BY <1>1, <2>1, <2>2, <2>6, <2>7, <2>8, <2>9, Lemma_Elsewhere
<1> QED
  BY <1>2, <1>3 DEF Take, NoBuffer, Rest

\* The buffer in the hand of the thread is done.
LEMMA Lemma_Done ==
  ASSUME NEW d \in Devices, Placed(d), NEW b \in Buffers[d], hand[d] = {b},
         thread'[d] # "copy", hand'[d] = {}, list'[d] = list[d],
         todo'[d] = todo[d], lost'[d] = lost[d],
         where'[d] \in [Buffers[d] -> States],
         b \notin In(d, "queued"), b \notin Listed(d), b \notin lost[d],
         In(d, "queued")' = In(d, "queued") \ {b},
         In(d, "driver")' = In(d, "driver") \ {b}
  PROVE  Placed(d)'
<1>1. Listed(d)' = Listed(d)
  BY DEF Listed
<1>2. /\ Listed(d) \cup {b} \cup lost[d] = In(d, "driver")
      /\ Listed(d) \cap lost[d] = {}
      /\ ToSet(todo[d]) = In(d, "queued")
  BY DEF Placed
<1>3. /\ Listed(d)' \cap hand'[d] = {} /\ (Listed(d)' \cup hand'[d]) \cap lost'[d] = {}
      /\ Listed(d)' \cup hand'[d] \cup lost'[d] = In(d, "driver")'
  BY <1>1, <1>2
<1>4. ToSet(todo'[d]) = In(d, "queued")'
  BY <1>2
<1>5. /\ list'[d] \in Seq(Buffers[d]) /\ IsInjective(list'[d])
      /\ todo'[d] \in Seq(Buffers[d]) /\ IsInjective(todo'[d])
  BY DEF Placed
<1> QED
  BY <1>3, <1>4, <1>5 DEF Placed

\* The output's thread has read its buffer, which is done.
LEMMA Lemma_read_frame ==
  ASSUME CamInv, NEW d \in Devices, d = Output, DevicesDiffer,
         akvcam_buffers_read_frame
  PROVE  CamInv'
<1>0. /\ Shaped /\ Carried /\ Counted /\ Placed(d) /\ Phase(d)
      /\ Ordered /\ Handed
  BY DEF CamInv
<1>1. /\ At(d, "copy", "hand over") /\ where' = Moved(d, hand[d], "done")
      /\ hand' = [hand EXCEPT ![d] = {}] /\ togo' = SetToSeq(Captures)
      /\ UNCHANGED <<streaming, op, todo, list, lost, current, shown, frames, signals>>
  BY DEF akvcam_buffers_read_frame
<1>2. /\ thread' \in [Devices -> {"none", "sleep", "look", "take",
                                    "copy", "hand over", "replace"}]
      /\ thread[d] = "copy" /\ thread'[d] = "hand over"
      /\ \A e \in Devices \ {d} : thread'[e] = thread[e]
  BY <1>0, <1>1, Lemma_Goes
<1>3. PICK b \in Buffers[d] : hand[d] = {b}
  BY <1>0, <1>2 DEF Placed
<1>4. /\ frame' = [frame EXCEPT ![d] = content[b]]
      /\ content' = [c \in Buffers[d] |-> IF c = b THEN 0 ELSE content[c]]
  <2>1. (CHOOSE c \in Buffers[d] : c \in hand[d]) = b
    BY <1>3
  <2> QED
    BY <1>3, <2>1 DEF akvcam_buffers_read_frame
<1>5. /\ where' = [e \in Devices |-> where'[e]]
      /\ \A e \in Devices \ {d} : where'[e] = where[e]
      /\ where'[d] \in [Buffers[d] -> States]
      /\ In(d, "queued")' = In(d, "queued") \ {b}
      /\ In(d, "driver")' = In(d, "driver") \ {b}
  <2>1. {b} \in SUBSET Buffers[d] /\ where' = Moved(d, {b}, "done")
    BY <1>1, <1>3
  <2> QED
    BY <1>0, <2>1, Lemma_MovedTo DEF States
<1>6. /\ hand' = [e \in Devices |-> hand'[e]] /\ hand'[d] = {}
      /\ \A e \in Devices \ {d} : hand'[e] = hand[e]
  BY <1>0, <1>1 DEF Shaped
<1>7. /\ b \in In(d, "driver") /\ b \notin In(d, "queued")
      /\ b \notin Listed(d) /\ b \notin lost[d] /\ b \notin ToSet(todo[d])
  BY <1>0, <1>3 DEF Placed, In
<1>8. togo' \in Seq(Captures)
  <2>1. IsFiniteSet(Captures)
    BY DEF DevicesDiffer
  <2>2. /\ Cardinality(Captures) \in Nat
        /\ \E f \in [1 .. Cardinality(Captures) -> Captures] : IsInjective(f)
    BY <2>1, FS_CardinalityType DEF ExistsBijection, Bijection, Injection
  <2>3. SetToSeq(Captures) \in [1 .. Cardinality(Captures) -> Captures]
    BY <2>2 DEF SetToSeq
  <2>4. \A n \in Nat : \A s \in [1 .. n -> Captures] : s \in Seq(Captures)
    BY SMT
  <2> QED
    BY <1>1, <2>2, <2>3, <2>4
<1>9. /\ frame' \in [Devices -> Nat] /\ frame'[d] = content[b]
      /\ \A e \in Devices \ {d} : frame'[e] = frame[e]
      /\ content' \in [Buffers[d] -> Nat] /\ \A c \in Buffers[d] : c # b => content'[c] = content[c]
  BY <1>0, <1>4, Lemma_Numbers DEF Carried
<1>10. Shaped' /\ Carried' /\ Counted'
  BY <1>0, <1>1, <1>2, <1>5, <1>6, <1>8, <1>9 DEF Shaped, Carried, Counted
<1>11. Placed(d)'
  BY <1>0, <1>1, <1>2, <1>3, <1>5, <1>6, <1>7, Lemma_Done
<1>12. Phase(d)'
  BY <1>0, <1>1, <1>2 DEF Phase
<1>13. /\ Listed(d)' = Listed(d) /\ Unread' = Unread \ {b} /\ b \in Unread
       /\ Unread' = Listed(d) \cup ToSet(todo[d])
  BY <1>1, <1>3, <1>6, <1>7 DEF Unread, Listed
<1>14. \A c \in Unread' : content'[c] = content[c] /\ content[b] < content[c]
  BY <1>0, <1>3, <1>9, <1>13, Lemma_Numbers DEF Ordered
<1>15. Ordered'
  <2>1. list[d] \in Seq(Buffers[d]) /\ todo[d] \in Seq(Buffers[d])
    BY <1>0 DEF Placed
  <2>2. Rising(content', list[d]) /\ Rising(content', todo[d])
    BY <1>0, <1>13, <1>14, <2>1, Lemma_RisingSame DEF Ordered, Listed
  <2>3. /\ UNCHANGED frames /\ todo'[Output] = todo[Output]
        /\ list'[Output] = list[Output] /\ hand'[Output] = {}
    BY <1>1, <1>6
  <2>4. \A c \in Listed(Output)', e \in ToSet(todo'[Output]) : content'[c] < content'[e]
    BY <1>0, <1>13, <1>14, <2>3 DEF Ordered
  <2>5. \A c \in Unread' : content'[c] <= frames'
    BY <1>0, <1>13, <1>14, <2>3 DEF Ordered
  <2> QED
    BY <2>2, <2>3, <2>4, <2>5 DEF Ordered
<1>16. Handed'
  <2>1. \A c \in Captures : frame'[c] = frame[c]
    BY <1>9 DEF Devices, DevicesDiffer
  <2>2. content[b] <= frames
    BY <1>0, <1>13 DEF Ordered
  <2>3. /\ UNCHANGED <<current, shown, frames>> /\ frame'[Output] = content[b]
        /\ \A e \in Unread' : e \in Unread
    BY <1>1, <1>9, <1>13
  <2>4. ASSUME NEW c \in Captures
        PROVE  Follows(c)'
    <3>1. Follows(c)
      BY <1>0 DEF Handed
    <3> QED
      BY <1>13, <1>14, <2>1, <2>2, <2>3, <3>1, Lemma_Numbers DEF Follows
  <2> QED
    BY <1>14, <2>2, <2>3, <2>4 DEF Handed
<1> QED
  BY <1>1, <1>2, <1>5, <1>6, <1>10, <1>11, <1>12, <1>15, <1>16, Lemma_Elsewhere

\* A capture's thread has filled its buffer, which is done.
LEMMA Lemma_write_frame ==
  ASSUME CamInv, NEW d \in Devices, d \in Captures, d # Output,
         akvcam_buffers_write_frame(d)
  PROVE  CamInv' /\ \A c \in Captures : shown'[c] >= shown[c]
<1>0. /\ Shaped /\ Carried /\ Counted /\ Placed(d) /\ Phase(d)
      /\ Ordered /\ Handed
  BY DEF CamInv
<1>1. /\ At(d, "copy", "sleep") /\ where' = Moved(d, hand[d], "done")
      /\ hand' = [hand EXCEPT ![d] = {}]
      /\ shown' = IF frame[d] = 0 THEN shown ELSE [shown EXCEPT ![d] = frame[d]]
      /\ frame' = [frame EXCEPT ![d] = 0]
      /\ UNCHANGED <<streaming, op, todo, list, lost, togo, current, content,
                     frames, signals>>
  BY DEF akvcam_buffers_write_frame
<1>2. /\ thread' \in [Devices -> {"none", "sleep", "look", "take",
                                    "copy", "hand over", "replace"}]
      /\ thread[d] = "copy" /\ thread'[d] = "sleep"
      /\ \A e \in Devices \ {d} : thread'[e] = thread[e]
  BY <1>0, <1>1, Lemma_Goes
<1>3. PICK b \in Buffers[d] : hand[d] = {b}
  BY <1>0, <1>2 DEF Placed
<1>4. /\ where' = [e \in Devices |-> where'[e]]
      /\ \A e \in Devices \ {d} : where'[e] = where[e]
      /\ where'[d] \in [Buffers[d] -> States]
      /\ In(d, "queued")' = In(d, "queued") \ {b}
      /\ In(d, "driver")' = In(d, "driver") \ {b}
  <2>1. {b} \in SUBSET Buffers[d] /\ where' = Moved(d, {b}, "done")
    BY <1>1, <1>3
  <2> QED
    BY <1>0, <2>1, Lemma_MovedTo DEF States
<1>5. /\ hand' = [e \in Devices |-> hand'[e]] /\ hand'[d] = {}
      /\ \A e \in Devices \ {d} : hand'[e] = hand[e]
  BY <1>0, <1>1 DEF Shaped
<1>6. /\ b \in In(d, "driver") /\ b \notin In(d, "queued")
      /\ b \notin Listed(d) /\ b \notin lost[d] /\ b \notin ToSet(todo[d])
  BY <1>0, <1>3 DEF Placed, In
<1>7. /\ frame' \in [Devices -> Nat] /\ frame'[d] = 0
      /\ \A e \in Devices \ {d} : frame'[e] = frame[e]
      /\ shown' \in [Captures -> Nat]
      /\ shown'[d] = IF frame[d] = 0 THEN shown[d] ELSE frame[d]
      /\ \A c \in Captures \ {d} : shown'[c] = shown[c]
  BY <1>0, <1>1, Lemma_Numbers DEF Carried
<1>8. Shaped' /\ Carried' /\ Counted'
  <2>1. thread'[Output] = thread[Output]
    BY <1>2 DEF Devices
  <2> QED
    BY <1>0, <1>1, <1>2, <1>4, <1>5, <1>7, <2>1 DEF Shaped, Carried, Counted
<1>9. Placed(d)'
  BY <1>0, <1>1, <1>2, <1>3, <1>4, <1>5, <1>6, Lemma_Done
<1>10. Phase(d)'
  BY <1>0, <1>1, <1>2 DEF Phase
<1>11. hand'[Output] = hand[Output] /\ frame'[Output] = frame[Output]
  BY <1>5, <1>7 DEF Devices
<1>12. Unread' = Unread /\ Listed(Output)' = Listed(Output)
  BY <1>1, <1>11 DEF Unread, Listed
<1>13. Ordered'
  BY <1>0, <1>1, <1>11, <1>12 DEF Ordered
<1>14. ASSUME NEW c \in Captures
       PROVE  \/ frame'[c] = frame[c] /\ shown'[c] = shown[c]
              \/ frame'[c] = 0 /\ shown'[c] = frame[c] /\ frame[c] # 0
              \/ frame'[c] = 0 /\ shown'[c] = shown[c]
  <2>1. CASE c = d
    BY <1>7, <2>1
  <2>2. CASE c # d
    BY <1>7, <2>2 DEF Devices
  <2> QED
    BY <2>1, <2>2
<1>15. Handed'
  <2>1. \A e \in Unread : 0 < content[e]
    <3>1. frame[Output] \in Nat /\ \A e \in Unread : content[e] \in Nat
      BY Lemma_Numbers DEF Devices
    <3> QED
      BY <1>0, <3>1 DEF Handed
  <2>2. ASSUME NEW c \in Captures
        PROVE  Follows(c)'
    <3>1. Follows(c)
      BY <1>0 DEF Handed
    <3>2. UNCHANGED <<current, content, frames>>
      BY <1>1
    <3>3. /\ current[c] \in Nat /\ shown[c] \in Nat /\ frame[c] \in Nat
          /\ frames \in Nat /\ frame[Output] \in Nat
      BY Lemma_Numbers DEF Devices
    <3>4. CASE frame'[c] = frame[c] /\ shown'[c] = shown[c]
      BY <1>11, <1>12, <3>1, <3>2, <3>4 DEF Follows
    <3>5. CASE frame'[c] = 0 /\ shown'[c] = frame[c] /\ frame[c] # 0
      BY <1>11, <1>12, <2>1, <3>1, <3>2, <3>3, <3>5 DEF Follows
    <3>6. CASE frame'[c] = 0 /\ shown'[c] = shown[c]
      BY <1>11, <1>12, <2>1, <3>1, <3>2, <3>3, <3>6 DEF Follows
    <3> QED
      BY <1>14, <3>4, <3>5, <3>6
  <2> QED
    BY <1>0, <1>1, <1>11, <1>12, <2>2 DEF Handed
<1>16. \A c \in Captures : shown'[c] >= shown[c]
  BY <1>0, <1>14, Lemma_Numbers DEF Handed, Follows
<1> QED
  BY <1>1, <1>2, <1>4, <1>5, <1>7, <1>8, <1>9, <1>10, <1>13, <1>15, <1>16,
     Lemma_Elsewhere

-----------------------------------------------------------------------------
(* The theorems.                                                           *)

\* No step takes a buffer to two places, or a frame out of order.
LEMMA CamStep ==
  ASSUME DevicesDiffer, CamInv, [Next]_vars
  PROVE  CamInv' /\ ((\A c \in Captures : shown'[c] >= shown[c]) \/ UNCHANGED vars)
<1>1. \A c \in Captures : shown[c] \in Nat /\ shown[c] >= shown[c]
  BY Lemma_Numbers
<1>2. CASE UNCHANGED vars
  BY <1>2 DEF vars, CamInv, Shaped, Carried, Counted, Placed, Phase, Ordered, Handed, Follows,
              Unread, Listed, In
<1>3. ASSUME NEW d \in Devices, Thread(d)
      PROVE  CamInv' /\ \A c \in Captures : shown'[c] >= shown[c]
  <2>1. d # Output => d \in Captures
    BY DEF Devices
  <2>2. CASE Wake(d)
    BY <1>1, <2>2, Lemma_Wake DEF Wake
  <2>3. CASE Take(d)
    BY <1>1, <2>3, Lemma_Take DEF Take
  <2>4. CASE d # Output /\ Look(d)
    BY <1>1, <2>1, <2>4, Lemma_Look DEF Look
  <2>5. CASE d # Output /\ akvcam_buffers_write_frame(d)
    BY <2>1, <2>5, Lemma_write_frame
  <2>6. CASE d = Output /\ akvcam_buffers_read_frame
    BY <1>1, <2>6, Lemma_read_frame DEF akvcam_buffers_read_frame
  <2>7. CASE d = Output /\ HandOver
    BY <1>1, <2>7, Lemma_HandOver DEF HandOver
  <2>8. CASE d = Output /\ Replace
    BY <1>1, <2>8, Lemma_Replace DEF Replace
  <2> QED
    BY <1>3, <2>2, <2>3, <2>4, <2>5, <2>6, <2>7, <2>8 DEF Thread
<1>4. ASSUME NEW d \in Devices, Proceed(d)
      PROVE  CamInv' /\ \A c \in Captures : shown'[c] >= shown[c]
  <2>1. CASE akvcam_buffers_buffer_queue(d)
    BY <1>1, <2>1, Lemma_buffer_queue DEF akvcam_buffers_buffer_queue
  <2>2. CASE akvcam_buffers_start_streaming(d) \/ akvcam_device_clock_stop(d)
    BY <1>1, <2>2, Lemma_Stream
       DEF akvcam_buffers_start_streaming, akvcam_device_clock_stop
  <2>3. CASE d # Output /\ Forget(d)
    BY <1>1, <2>3, Lemma_Forget DEF Forget, Devices
  <2>4. CASE Flush(d)
    BY <1>1, <2>4, Lemma_Flush DEF Flush
  <2>5. CASE Cancel(d)
    BY <1>1, <2>5, Lemma_Cancel DEF Cancel
  <2> QED
    BY <1>4, <2>1, <2>2, <2>3, <2>4, <2>5 DEF Proceed
<1>5. ASSUME NEW d \in Devices, Program(d)
      PROVE  CamInv' /\ \A c \in Captures : shown'[c] >= shown[c]
  <2>1. CASE StreamOn(d)
    BY <1>1, <2>1, Lemma_StreamOn DEF StreamOn
  <2>2. CASE StreamOff(d)
    BY <1>1, <2>2, Lemma_Stream DEF StreamOff
  <2>3. ASSUME NEW b \in Buffers[d], QBuf(d, b) \/ DQBuf(d, b)
        PROVE  CamInv' /\ \A c \in Captures : shown'[c] >= shown[c]
    BY <1>1, <2>3, Lemma_QBuf, Lemma_DQBuf DEF QBuf, DQBuf
  <2> QED
    BY <1>5, <2>1, <2>2, <2>3 DEF Program
<1> QED
  BY <1>2, <1>3, <1>4, <1>5 DEF Next
\* What the invariant says is what is promised.
LEMMA Lemma_TypeOK ==
  ASSUME CamInv
  PROVE  TypeOK
<1>1. ASSUME NEW d \in Devices
      PROVE  /\ {todo[d][i] : i \in DOMAIN todo[d]} = In(d, "queued")
             /\ where[d] \in [Buffers[d] -> States]
             /\ {list[d][i] : i \in DOMAIN list[d]} \subseteq Buffers[d]
             /\ hand[d] \subseteq Buffers[d] /\ lost[d] \subseteq Buffers[d]
  <2>1. Placed(d)
    BY DEF CamInv
  <2> QED
    BY <2>1 DEF Placed, Listed, ToSet, In
<1>2. /\ current \in [Captures -> 0 .. MaxFrames]
      /\ shown \in [Captures -> 0 .. MaxFrames]
  <2>1. \A c \in Captures : current[c] <= frames /\ shown[c] <= frames
    BY DEF CamInv, Handed, Follows
  <2>2. \A c \in Captures : current[c] \in 0 .. MaxFrames /\ shown[c] \in 0 .. MaxFrames
    BY <2>1, Lemma_Numbers DEF CamInv, Counted, BoundsFit
  <2> QED
    BY <2>2 DEF CamInv, Carried
<1> QED
  BY <1>1, <1>2 DEF TypeOK, States, CamInv, Shaped, Counted

\* The invariant says what the run checks of the buffers,
LEMMA Lemma_Accounted ==
  ASSUME CamInv
  PROVE  Accounted
<1>1. ASSUME NEW d \in Devices
      PROVE  /\ Len(list[d]) = Cardinality(Listed(d))
             /\ Listed(d) \cap hand[d] = {}
             /\ (Listed(d) \cup hand[d]) \cap lost[d] = {}
             /\ Listed(d) \cup hand[d] \cup lost[d] = In(d, "driver")
  <2>1. Placed(d)
    BY DEF CamInv
  <2>2. list[d] \in Seq(Buffers[d]) /\ IsInjective(list[d])
    BY <2>1 DEF Placed
  <2>3. Len(list[d]) = Cardinality(Listed(d))
    BY <2>2, ListCount DEF Listed
  <2> QED
    BY <2>1, <2>3 DEF Placed
<1> QED
  BY <1>1 DEF Accounted, Listed, ToSet

\* and of a stop.
LEMMA Lemma_QuietAfterStop ==
  ASSUME CamInv
  PROVE  QuietAfterStop
<1>1. ASSUME NEW d \in Devices, op[d] = "cancel" \/ (op[d] = "idle" /\ ~streaming[d])
      PROVE  thread[d] = "none" /\ In(d, "driver") \subseteq lost[d]
  <2>1. Placed(d) /\ Phase(d)
    BY DEF CamInv
  <2>2. thread[d] = "none" /\ list[d] = << >>
    BY <1>1, <2>1 DEF Phase
  <2>3. Listed(d) = {} /\ hand[d] = {}
    BY <2>1, <2>2, ListEmpty DEF Placed, Listed
  <2> QED
    BY <2>1, <2>2, <2>3 DEF Placed
<1> QED
  BY <1>1 DEF QuietAfterStop

\* Whatever the devices do at the same time, each has its buffers in one place
\* and in order, and a capture's frames are never older than those before.
THEOREM CamInvariant ==
  ASSUME DevicesDiffer, BoundsFit
  PROVE  Spec => []CamInv
BY Lemma_Init, CamStep, PTL DEF Spec
=============================================================================
