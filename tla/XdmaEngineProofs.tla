-------------------------- MODULE XdmaEngineProofs --------------------------
(***************************************************************************)
(* Theorems about XdmaEngine, for every value of its constants.            *)
(*                                                                         *)
(* The type invariant is not inductive alone.  It needs to know how far a  *)
(* call is in its request (RequestShape), so that a transfer is never      *)
(* longer than what is left of it and tfer_idx stays below its descriptor  *)
(* count, and that a chain never leaves the ring (ChainsEndInRing), so     *)
(* that the hardware's next fetch is a slot.                               *)
(***************************************************************************)
EXTENDS XdmaEngine, ListFacts

\* How far a call at place p is in its request q.
Shape(p, q) ==
  /\ p = "idle" => q = NoReq
  /\ p = "lock" => q.idx = 0 /\ q.tfer = 0 /\ q.cnt > 0
  /\ p = "init" => q.tfer <= q.idx /\ q.idx < q.cnt
  /\ p \in {"queue", "enqueue", "wait", "flight"} =>
       q.tfer < q.idx /\ q.idx <= q.cnt

RequestShape == \A r \in Calls : Shape(pc[r], req[r])

\* A descriptor that does not stop the engine is followed by a slot: in the
\* ring, and where the hardware is.
RingEnds(rg) == \A s \in Slots : rg[s] # None /\ ~ rg[s].stop => s + 1 \in Slots
FetchEnds(h) == h.cur # None /\ ~ h.cur.stop => h.pos + 1 \in Slots
ChainsEndInRing == RingEnds(ring) /\ FetchEnds(hw)

TypeInv == TypeOK /\ RequestShape /\ ChainsEndInRing

Rings == [Slots -> Descriptors \cup {None}]

-----------------------------------------------------------------------------
(* Lemmas about the operators.                                             *)

\* Zero is a slot and a count.
LEMMA Lemma_Zero ==
  0 \in Slots /\ 0 \in 0 .. MaxDesc /\ 0 \in 0 .. MaxDesc - 1
BY SizesPositive DEF Slots

\* An empty request and an unused transfer have their types.
LEMMA Lemma_Empty == NoReq \in Requests /\ NoXfer \in Transfers
BY Lemma_Zero, SizesPositive DEF NoReq, NoXfer, Requests, Transfers

\* transfer_init takes at least one descriptor, no more than are left and no
\* more than fit before the end of the ring.
LEMMA Lemma_InitCount ==
  ASSUME NEW left \in Nat \ {0}, desc_idx \in Slots
  PROVE  /\ InitCount(left) \in 1 .. left
         /\ desc_idx + InitCount(left) <= RingSize
BY SizesPositive DEF InitCount, Slots

\* The next index is a slot.
LEMMA Lemma_DescIdx ==
  ASSUME NEW n \in Nat, desc_idx \in Slots
  PROVE  DescIdxAfter(n) \in Slots
BY SizesPositive DEF DescIdxAfter, Slots

\* Wiping slots only removes descriptors.
LEMMA Lemma_Wiped ==
  ASSUME ring \in Rings, RingEnds(ring), NEW xs
  PROVE  Wiped(xs) \in Rings /\ RingEnds(Wiped(xs))
BY DEF Wiped, Rings, RingEnds

\* engine_start fetches a slot of the ring.
LEMMA Lemma_Started ==
  ASSUME ring \in Rings, RingEnds(ring), NEW h \in EngineStates,
         NEW x \in [Xfers -> Transfers], NEW t \in Xfers
  PROVE  Started(h, x, t) \in EngineStates /\ FetchEnds(Started(h, x, t))
BY DEF Started, EngineStates, Transfers, Rings, RingEnds, FetchEnds

\* Clearing RUN leaves the fetched descriptor alone.
LEMMA Lemma_Stopped ==
  ASSUME NEW h \in EngineStates, FetchEnds(h)
  PROVE  /\ Stopped(h) \in EngineStates /\ FetchEnds(Stopped(h))
         /\ ~ Stopped(h).run
BY DEF Stopped, EngineStates, FetchEnds

\* The hardware that went idle has fetched nothing.
LEMMA Lemma_Halted ==
  ASSUME NEW h \in EngineStates
  PROVE  Halted(h) \in EngineStates /\ FetchEnds(Halted(h))
BY Lemma_Zero DEF Halted, EngineStates, FetchEnds

\* A call moves to another place, or returns.
LEMMA Lemma_Goto ==
  ASSUME pc \in [Calls -> Places], ret \in [Calls -> Int],
         NEW r \in Calls, NEW to \in Places, Goto(r, to)
  PROVE  pc' \in [Calls -> Places] /\ ret' \in [Calls -> Int]
BY DEF Goto

\* A call that returns is idle again, with a number for a result.
LEMMA Lemma_Return ==
  ASSUME pc \in [Calls -> Places], ret \in [Calls -> Int],
         NEW r \in Calls, NEW value \in Int, Return(r, value)
  PROVE  pc' \in [Calls -> Places] /\ ret' \in [Calls -> Int]
BY DEF Return, Places

\* A freed request leaves nothing of the wrong type.
LEMMA Lemma_FreeReq ==
  ASSUME TypeOK, NEW r \in Calls, NEW x \in [Xfers -> Transfers], FreeReq(r, x)
  PROVE  /\ req' \in [Calls -> Requests]
         /\ xfer' \in [Xfers -> Transfers]
         /\ moved' \in [Xfers -> SUBSET (0 .. MaxDesc - 1)]
BY Lemma_Empty DEF TypeOK, FreeReq

\* Only one call changes its place or its request.
LEMMA Lemma_Shape ==
  ASSUME pc \in [Calls -> Places], req \in [Calls -> Requests], RequestShape,
         NEW r \in Calls, NEW p, NEW q, Shape(p, q),
         pc' = [pc EXCEPT ![r] = p], req' = [req EXCEPT ![r] = q]
  PROVE  RequestShape'
BY DEF RequestShape

\* A call that returns with its request freed keeps RequestShape.
LEMMA Lemma_ShapeFreed ==
  ASSUME pc \in [Calls -> Places], req \in [Calls -> Requests], RequestShape,
         NEW r \in Calls, NEW value, NEW x, Return(r, value), FreeReq(r, x)
  PROVE  RequestShape'
BY Lemma_Shape DEF Return, FreeReq, Shape

-----------------------------------------------------------------------------
(* The initial state.                                                      *)

\* The type invariant holds initially.
LEMMA Lemma_Init == Init => TypeInv
<1> SUFFICES ASSUME Init PROVE TypeInv
  OBVIOUS
<1> USE DEF Init
<1>1. pc \in [Calls -> Places] /\ req \in [Calls -> Requests]
      /\ ret \in [Calls -> Int]
  BY Lemma_Empty DEF Places
<1>2. /\ xfer \in [Xfers -> Transfers]
      /\ moved \in [Xfers -> SUBSET (0 .. MaxDesc - 1)]
      /\ ring \in Rings /\ desc_idx \in Slots
  BY Lemma_Empty, Lemma_Zero DEF Rings
<1>3. hw \in EngineStates
  BY Lemma_Zero DEF EngineStates
<1>4. svc \in Services
  BY DEF NoSvc, Services
<1>5. /\ list \in Seq(Xfers) /\ running \in BOOLEAN /\ shutdown \in BOOLEAN
      /\ desc_dequeued \in Nat /\ desc_lock \in Sync \cup {None}
      /\ irq_on \in BOOLEAN /\ irq_mask \in BOOLEAN /\ work \in BOOLEAN
      /\ adm = Online
  <2>1. << >> \in Seq(Xfers)
    OBVIOUS
  <2> QED
    BY <2>1
<1>6. TypeOK
  BY <1>1, <1>2, <1>3, <1>4, <1>5 DEF TypeOK, Rings
<1>7. RequestShape /\ ChainsEndInRing
  BY DEF RequestShape, Shape, ChainsEndInRing, RingEnds, FetchEnds
<1> QED
  BY <1>6, <1>7 DEF TypeInv

-----------------------------------------------------------------------------
(* Submission.                                                             *)

\* Each action of a call keeps the type invariant.  A new request is as long
\* as the call asks for, and nothing of it is taken yet.
LEMMA Step_Submit ==
  ASSUME TypeInv, NEW r \in Calls, Submit(r)
  PROVE  TypeInv'
<1> USE DEF TypeInv
<1>1. CASE offline
  <2>1. pc' \in [Calls -> Places] /\ ret' \in [Calls -> Int]
    BY <1>1, Lemma_Return DEF Submit, TypeOK, EBUSY
  <2>2. TypeOK'
    BY <1>1, <2>1 DEF Submit, TypeOK, listVars, ringVars, irqVars
  <2>3. RequestShape'
    BY <1>1 DEF Submit, RequestShape, Shape, Return, TypeOK
  <2>4. ChainsEndInRing'
    BY DEF Submit, ChainsEndInRing, ringVars
  <2> QED
    BY <2>2, <2>3, <2>4
<1>2. CASE ~ offline
  <2>1. PICK n \in Sizes : req' = [req EXCEPT ![r].cnt = n]
    BY <1>2 DEF Submit
  <2>2. n \in 1 .. MaxDesc /\ MaxDesc \in Nat
    BY SizesBounded, SizesPositive
  <2>3. req[r] = NoReq
    BY DEF Submit, RequestShape, Shape
  <2> DEFINE q == [NoReq EXCEPT !.cnt = n]
             p == IF r \in Sync THEN "lock" ELSE "init"
  <2>4. req' = [req EXCEPT ![r] = q] /\ q \in Requests
    <3>1. req' = [req EXCEPT ![r] = [req[r] EXCEPT !.cnt = n]]
      BY <2>1 DEF TypeOK
    <3>2. n \in 0 .. MaxDesc /\ NoReq \in Requests
      BY <2>2, Lemma_Empty
    <3>3. q \in Requests
      BY <3>2 DEF Requests
    <3> QED
      BY <3>1, <3>3, <2>3
  <2>5. p \in Places /\ Goto(r, p)
    BY <1>2 DEF Submit, Places
  <2>6. Shape(p, q)
    BY <2>2 DEF Shape, NoReq
  <2>7. RequestShape'
    BY <2>4, <2>5, <2>6, Lemma_Shape DEF TypeOK, Goto
  <2>8. TypeOK'
    BY <2>4, <2>5, Lemma_Goto DEF Submit, TypeOK, listVars, ringVars, irqVars
  <2>9. ChainsEndInRing'
    BY DEF Submit, ChainsEndInRing, ringVars
  <2> QED
    BY <2>7, <2>8, <2>9
<1> QED
  BY <1>1, <1>2

\* The lock is taken with the request as it was.
LEMMA Step_LockDesc ==
  ASSUME TypeInv, NEW r \in Sync, LockDesc(r)
  PROVE  TypeInv'
<1> USE DEF TypeInv
<1>1. r \in Calls /\ Goto(r, "init") /\ "init" \in Places
  BY DEF Calls, LockDesc, Places
<1>2. TypeOK'
  BY <1>1, Lemma_Goto DEF LockDesc, TypeOK, listVars, ringVars, irqVars
<1>3. Shape("init", req[r])
  BY <1>1 DEF LockDesc, RequestShape, Shape, TypeOK, Requests
<1>4. RequestShape'
  BY <1>1, <1>3 DEF LockDesc, RequestShape, Goto, TypeOK
<1>5. ChainsEndInRing'
  BY DEF LockDesc, ChainsEndInRing, ringVars
<1> QED
  BY <1>2, <1>4, <1>5

\* The transfer a call builds is one of its request.
LEMMA Lemma_Current ==
  ASSUME TypeOK, NEW r \in Calls
  PROVE  Current(r) \in Xfers
<1>1. req[r].tfer \in 0 .. MaxDesc - 1
  BY DEF TypeOK, Requests
<1> QED
  BY <1>1, Lemma_Zero DEF Current, Xfers

\* transfer_init moves the request on by what it took, within the ring.
LEMMA Step_TransferInit ==
  ASSUME TypeInv, NEW r \in Calls, TransferInit(r)
  PROVE  TypeInv'
<1> USE DEF TypeInv
<1> DEFINE t == Current(r)
           n == InitCount(req[r].cnt - req[r].idx)
           q == [req[r] EXCEPT !.idx = @ + n]
<1>1. /\ pc[r] = "init" /\ Goto(r, "queue")
      /\ xfer' = [xfer EXCEPT ![t] = [state |-> "NEW", first |-> desc_idx,
                                      num |-> n, off |-> req[r].idx]]
      /\ moved' = [moved EXCEPT ![t] = {}]
      /\ ring' = [s \in Slots |->
                    IF s \in desc_idx .. desc_idx + n - 1
                    THEN [t |-> t, i |-> s - desc_idx,
                          stop |-> s = desc_idx + n - 1]
                    ELSE ring[s]]
      /\ desc_idx' = DescIdxAfter(n)
      /\ req' = [req EXCEPT ![r].idx = @ + n]
      /\ UNCHANGED <<listVars, desc_lock, hw, irqVars, svc, adm>>
  BY DEF TransferInit
<1>2. /\ req[r] \in Requests /\ req[r].cnt \in 0 .. MaxDesc
      /\ req[r].idx \in 0 .. MaxDesc /\ req[r].tfer \in 0 .. MaxDesc - 1
  BY DEF TypeOK, Requests
<1>3. req[r].tfer <= req[r].idx /\ req[r].idx < req[r].cnt
  BY <1>1 DEF RequestShape, Shape
<1>4. /\ n \in 1 .. req[r].cnt - req[r].idx
      /\ n \in 1 .. MaxDesc /\ n \in 0 .. RingSize
      /\ desc_idx \in 0 .. RingSize - 1 /\ desc_idx + n <= RingSize
  <2>1. desc_idx \in Slots /\ req[r].cnt - req[r].idx \in Nat \ {0}
    BY <1>2, <1>3 DEF TypeOK
  <2>2. n \in 1 .. req[r].cnt - req[r].idx /\ desc_idx + n <= RingSize
    BY <2>1, Lemma_InitCount
  <2> HIDE DEF n
  <2> QED
    BY <2>1, <2>2, <1>2, SizesPositive DEF Slots
<1>5. t \in Xfers
  BY Lemma_Current
<1> HIDE DEF n, t
<1>6. q \in Requests /\ req' = [req EXCEPT ![r] = q]
  <2>1. req[r].idx + n \in 0 .. MaxDesc
    BY <1>2, <1>3, <1>4, SizesPositive
  <2> QED
    BY <1>1, <1>2, <2>1 DEF Requests, TypeOK
<1>7. xfer' \in [Xfers -> Transfers]
  <2>1. desc_idx \in Slots /\ n \in 0 .. RingSize /\ req[r].idx \in 0 .. MaxDesc
    BY <1>2, <1>4 DEF TypeOK
  <2> QED
    BY <1>1, <1>5, <2>1 DEF TypeOK, Transfers
<1>8. ring' \in Rings
  <2>1. ASSUME NEW s \in Slots, s \in desc_idx .. desc_idx + n - 1
        PROVE  [t |-> t, i |-> s - desc_idx,
                stop |-> s = desc_idx + n - 1] \in Descriptors
    <3>1. s - desc_idx \in 0 .. MaxDesc - 1
      BY <2>1, <1>4, SizesPositive DEF Slots
    <3> QED
      BY <1>5, <3>1 DEF Descriptors
  <2> QED
    BY <1>1, <2>1 DEF Rings, TypeOK
<1>9. RingEnds(ring')
  <2> SUFFICES ASSUME NEW s \in Slots, ring'[s] # None, ~ ring'[s].stop
               PROVE  s + 1 \in Slots
    BY DEF RingEnds
  <2>1. CASE s \in desc_idx .. desc_idx + n - 1
    <3>1. s # desc_idx + n - 1
      BY <1>1, <2>1
    <3> QED
      BY <3>1, <2>1, <1>4, SizesPositive DEF Slots
  <2>2. CASE s \notin desc_idx .. desc_idx + n - 1
    BY <1>1, <2>2 DEF ChainsEndInRing, RingEnds
  <2> QED
    BY <2>1, <2>2
<1>10. /\ pc' \in [Calls -> Places] /\ ret' \in [Calls -> Int]
       /\ desc_idx' \in Slots
  BY <1>1, <1>4, Lemma_Goto, Lemma_DescIdx DEF TypeOK, Places
<1>11. TypeOK'
  BY <1>1, <1>6, <1>7, <1>8, <1>10 DEF TypeOK, Rings, listVars, irqVars
<1>12. RequestShape'
  <2>1. Shape("queue", q)
    BY <1>2, <1>3, <1>4, SizesPositive DEF Shape, Requests
  <2> QED
    BY <1>1, <1>6, <2>1, Lemma_Shape DEF TypeOK, Goto
<1>13. ChainsEndInRing'
  BY <1>1, <1>9 DEF ChainsEndInRing
<1> QED
  BY <1>11, <1>12, <1>13

\* A refused call leaves no request behind.
LEMMA Lemma_Refuse ==
  ASSUME TypeInv, NEW r \in Calls, Refuse(r),
         UNCHANGED <<listVars, ringVars, hw, irqVars, svc, adm>>
  PROVE  TypeInv'
<1> USE DEF TypeInv
<1>1. xfer[Current(r)].off \in Nat
  BY Lemma_Current, SizesPositive DEF TypeOK, Transfers
<1>2. PICK value \in Int : Return(r, value)
  BY <1>1 DEF Refuse, DoneOr, EBUSY
<1>3. FreeReq(r, xfer) /\ xfer \in [Xfers -> Transfers]
  BY DEF Refuse, TypeOK
<1>4. TypeOK'
  BY <1>2, <1>3, Lemma_Return, Lemma_FreeReq
     DEF Refuse, TypeOK, listVars, ringVars, irqVars
<1>5. RequestShape'
  BY <1>2, <1>3, Lemma_ShapeFreed DEF TypeOK
<1>6. ChainsEndInRing'
  BY DEF ChainsEndInRing, ringVars
<1> QED
  BY <1>4, <1>5, <1>6

\* A call passes the test of the flag with its request as it was.
LEMMA Step_CheckOffline ==
  ASSUME TypeInv, NEW r \in Calls, CheckOffline(r)
  PROVE  TypeInv'
<1> USE DEF TypeInv
<1>1. CASE offline
  BY <1>1, Lemma_Refuse DEF CheckOffline
<1>2. CASE ~ offline
  <2>1. /\ Goto(r, "enqueue") /\ "enqueue" \in Places
        /\ UNCHANGED <<req, xfer, moved, desc_lock>>
    BY <1>2 DEF CheckOffline, Places
  <2>2. TypeOK'
    BY <2>1, Lemma_Goto DEF CheckOffline, TypeOK, listVars, ringVars, irqVars
  <2>3. Shape("enqueue", req[r])
    BY DEF CheckOffline, RequestShape, Shape
  <2>4. RequestShape'
    BY <2>1, <2>3 DEF RequestShape, Goto, TypeOK
  <2>5. ChainsEndInRing'
    BY DEF CheckOffline, ChainsEndInRing, ringVars
  <2> QED
    BY <2>2, <2>4, <2>5
<1> QED
  BY <1>1, <1>2

\* A refusal under the lock leaves no request behind either.
LEMMA Step_QueueRefused ==
  ASSUME TypeInv, NEW r \in Calls, QueueRefused(r)
  PROVE  TypeInv'
BY Lemma_Refuse DEF QueueRefused

\* Queueing takes the next transfer of the request only when descriptors are
\* left for it, and starts the engine on a slot.
LEMMA Step_TransferQueue ==
  ASSUME TypeInv, NEW r \in Calls, TransferQueue(r)
  PROVE  TypeInv'
<1> USE DEF TypeInv
<1> DEFINE t == Current(r)
           more == req[r].idx < req[r].cnt
           to == IF r \in Sync THEN "wait"
                 ELSE IF more THEN "init" ELSE "flight"
           q == IF r \in Async /\ more THEN [req[r] EXCEPT !.tfer = @ + 1]
                ELSE req[r]
<1>1. t \in Xfers
  BY Lemma_Current
<1>2. pc[r] = "enqueue" /\ Goto(r, to) /\ to \in Places
  BY DEF TransferQueue, Places
<1>3. /\ req[r] \in Requests /\ req[r].cnt \in 0 .. MaxDesc
      /\ req[r].idx \in 0 .. MaxDesc /\ req[r].tfer \in 0 .. MaxDesc - 1
  BY DEF TypeOK, Requests
<1>4. req[r].tfer < req[r].idx /\ req[r].idx <= req[r].cnt
  BY <1>2 DEF RequestShape, Shape
<1>5. q \in Requests /\ req' = [req EXCEPT ![r] = q]
  <2>1. CASE r \in Async /\ more
    <3>1. req[r].tfer + 1 \in 0 .. MaxDesc - 1
      BY <1>3, <1>4, <2>1, SizesPositive
    <3> QED
      BY <1>3, <2>1, <3>1 DEF TransferQueue, TypeOK, Requests
  <2>2. CASE ~ (r \in Async /\ more)
    BY <1>3, <2>2 DEF TransferQueue, TypeOK
  <2> QED
    BY <2>1, <2>2
<1>6. Shape(to, q)
  <2>1. CASE r \in Async /\ more
    BY <1>3, <1>4, <2>1, CallsDisjoint DEF Shape, Requests
  <2>2. CASE ~ (r \in Async /\ more)
    BY <1>3, <1>4, <2>2 DEF Shape, Calls
  <2> QED
    BY <2>1, <2>2
<1>7. RequestShape'
  <2> HIDE DEF q, to
  <2> QED
    BY <1>2, <1>5, <1>6, Lemma_Shape DEF TypeOK, Goto
<1>8. xfer' \in [Xfers -> Transfers]
  BY <1>1 DEF TransferQueue, TypeOK, Transfers
<1>9. list' \in Seq(Xfers) /\ list' # << >>
  <2>1. list' = Append(list, t) /\ list \in Seq(Xfers)
    BY DEF TransferQueue, AddTail, TypeOK
  <2> HIDE DEF t
  <2> QED
    BY <1>1, <2>1
<1>10. /\ running' \in BOOLEAN /\ shutdown' \in BOOLEAN
       /\ desc_dequeued' \in Nat /\ hw' \in EngineStates /\ FetchEnds(hw')
  <2>1. CASE running
    BY <2>1 DEF TransferQueue, TypeOK, ChainsEndInRing
  <2>2. CASE ~ running
    <3>1. /\ running' = TRUE /\ shutdown' = FALSE /\ desc_dequeued' = 0
          /\ hw' = Started(hw, xfer, Head(list'))
      BY <2>2 DEF TransferQueue, engine_start
    <3>2. Head(list') \in Xfers
      BY <1>9
    <3>3. /\ hw \in EngineStates /\ xfer \in [Xfers -> Transfers]
          /\ ring \in Rings /\ RingEnds(ring)
      BY DEF TypeOK, ChainsEndInRing, Rings
    <3> QED
      BY <3>1, <3>2, <3>3, Lemma_Started
  <2> QED
    BY <2>1, <2>2
<1>11. pc' \in [Calls -> Places] /\ ret' \in [Calls -> Int]
  <2> HIDE DEF to
  <2> QED
    BY <1>2, Lemma_Goto DEF TypeOK
<1>12. req' \in [Calls -> Requests]
  BY <1>5 DEF TypeOK
<1>13. TypeOK'
  BY <1>8, <1>9, <1>10, <1>11, <1>12 DEF TransferQueue, TypeOK, ringVars, irqVars
<1>14. ChainsEndInRing'
  BY <1>10 DEF TransferQueue, ChainsEndInRing, ringVars
<1> QED
  BY <1>7, <1>13, <1>14

\* A blocking call goes on only when descriptors are left.
LEMMA Step_SyncDone ==
  ASSUME TypeInv, NEW r \in Sync, SyncDone(r)
  PROVE  TypeInv'
<1> USE DEF TypeInv
<1> DEFINE x == xfer[<<r, 0>>]
<1>1. r \in Calls /\ <<r, 0>> \in Xfers /\ x \in Transfers
  BY Lemma_Zero DEF Calls, Xfers, TypeOK
<1>2. ring' = Wiped({x})
  BY DEF SyncDone
<1>3. ring' \in Rings /\ RingEnds(ring')
  BY <1>2, Lemma_Wiped DEF TypeOK, ChainsEndInRing, Rings
<1>4. ChainsEndInRing'
  BY <1>3 DEF SyncDone, ChainsEndInRing
<1>5. CASE x.state = "COMPLETED" /\ req[r].idx < req[r].cnt
  <2>1. Goto(r, "init") /\ UNCHANGED <<req, xfer, moved, desc_lock>>
    BY <1>5 DEF SyncDone
  <2>2. TypeOK'
    BY <1>1, <1>3, <2>1, Lemma_Goto
       DEF SyncDone, TypeOK, Rings, Places, listVars, irqVars
  <2>3. Shape("init", req[r])
    BY <1>1, <1>5 DEF SyncDone, RequestShape, Shape, TypeOK, Requests
  <2>4. RequestShape'
    BY <1>1, <2>1, <2>3 DEF RequestShape, Goto, TypeOK
  <2> QED
    BY <1>4, <2>2, <2>4
<1>6. CASE ~ (x.state = "COMPLETED" /\ req[r].idx < req[r].cnt)
  <2>1. /\ Return(r, SyncResult(x)) /\ FreeReq(r, xfer)
        /\ desc_lock' = None
    BY <1>6 DEF SyncDone
  <2>2. SyncResult(x) \in Int
    BY <1>1, SizesPositive DEF SyncResult, DoneOr, EIO, Transfers
  <2> HIDE DEF x
  <2>3. TypeOK'
    BY <1>1, <1>3, <2>1, <2>2, Lemma_Return, Lemma_FreeReq
       DEF SyncDone, TypeOK, Rings, listVars, irqVars
  <2>4. RequestShape'
    BY <1>1, <2>1, Lemma_ShapeFreed DEF TypeOK
  <2> QED
    BY <1>4, <2>3, <2>4
<1> QED
  BY <1>5, <1>6

\* An aborted call leaves no request behind.
LEMMA Step_SyncAbort ==
  ASSUME TypeInv, NEW r \in Sync, SyncAbort(r)
  PROVE  TypeInv'
<1> USE DEF TypeInv
<1>1. r \in Calls /\ <<r, 0>> \in Xfers
  BY Lemma_Zero DEF Calls, Xfers
<1>2. PICK value \in Int : Return(r, value)
  <2>1. xfer[<<r, 0>>].off \in Nat
    BY <1>1, SizesPositive DEF TypeOK, Transfers
  <2> QED
    BY <2>1 DEF SyncAbort, DoneOr, ERESTARTSYS
<1>3. ring' \in Rings /\ RingEnds(ring')
  BY Lemma_Wiped DEF SyncAbort, TypeOK, ChainsEndInRing, Rings
<1>4. hw' \in EngineStates /\ FetchEnds(hw')
  BY Lemma_Stopped DEF SyncAbort, TypeOK, ChainsEndInRing
<1>5. list' \in Seq(Xfers)
  BY DEF SyncAbort, ListWithout, TypeOK
<1>6. FreeReq(r, xfer) /\ xfer \in [Xfers -> Transfers]
  BY DEF SyncAbort, TypeOK
<1>7. TypeOK'
  BY <1>1, <1>2, <1>3, <1>4, <1>5, <1>6, Lemma_Return, Lemma_FreeReq
     DEF SyncAbort, TypeOK, Rings, irqVars
<1>8. RequestShape'
  BY <1>1, <1>2, <1>6, Lemma_ShapeFreed DEF TypeOK
<1>9. ChainsEndInRing'
  BY <1>3, <1>4 DEF ChainsEndInRing
<1> QED
  BY <1>7, <1>8, <1>9

-----------------------------------------------------------------------------
(* The hardware.                                                           *)

\* A step of the hardware leaves the calls alone: only its own state matters.
LEMMA Lemma_Hardware ==
  ASSUME TypeInv, hw' \in EngineStates, FetchEnds(hw'),
         moved' \in [Xfers -> SUBSET (0 .. MaxDesc - 1)],
         UNCHANGED <<callVars, xfer, listVars, ringVars, desc_lock, irqVars,
                     svc, adm>>
  PROVE  TypeInv'
<1> USE DEF TypeInv
<1>1. TypeOK'
  BY DEF TypeOK, callVars, listVars, ringVars, irqVars
<1>2. RequestShape' /\ ChainsEndInRing'
  BY DEF RequestShape, ChainsEndInRing, callVars, ringVars
<1> QED
  BY <1>1, <1>2

\* The hardware advances by one slot, within the ring.
LEMMA Step_HwStep ==
  ASSUME TypeInv, HwStep
  PROVE  TypeInv'
<1> DEFINE d == hw.cur
           h == [hw EXCEPT !.count = @ + 1,
                           !.stat = IF d.stop THEN Raise("stopped") ELSE @]
<1>1. /\ hw \in EngineStates /\ d \in Descriptors /\ FetchEnds(hw)
      /\ ring \in Rings /\ RingEnds(ring)
  BY DEF HwStep, TypeInv, TypeOK, EngineStates, ChainsEndInRing, Rings
<1>2. h \in EngineStates /\ h.pos = hw.pos /\ h.cur = hw.cur
  <2>1. hw.count + 1 \in Nat
    BY <1>1 DEF EngineStates
  <2>2. Raise("stopped") \in {"stopped", "error"}
    BY DEF Raise
  <2> QED
    BY <1>1, <2>1, <2>2 DEF EngineStates
<1>3. hw' \in EngineStates /\ FetchEnds(hw')
  <2>1. CASE d.stop \/ ~ hw.run
    <3>1. hw' = Halted(h)
      BY <2>1 DEF HwStep
    <3> HIDE DEF h
    <3> QED
      BY <1>2, <3>1, Lemma_Halted
  <2>2. CASE ~ (d.stop \/ ~ hw.run)
    <3>1. hw' = [h EXCEPT !.pos = @ + 1, !.cur = ring[hw.pos + 1]]
      BY <2>2 DEF HwStep
    <3> HIDE DEF h
    <3>2. hw.pos + 1 \in Slots
      BY <1>1, <2>2, CallsDisjoint DEF HwStep, FetchEnds
    <3>3. ring[hw.pos + 1] \in Descriptors \cup {None}
      BY <1>1, <3>2 DEF Rings
    <3>4. hw' \in EngineStates
      BY <1>2, <3>1, <3>2, <3>3 DEF EngineStates
    <3>5. hw'.pos = hw.pos + 1 /\ hw'.cur = ring[hw.pos + 1]
      BY <1>2, <3>1 DEF EngineStates
    <3>6. FetchEnds(hw')
      BY <1>1, <3>2, <3>5 DEF FetchEnds, RingEnds
    <3> QED
      BY <3>4, <3>6
  <2> QED
    BY <2>1, <2>2
<1>4. moved' \in [Xfers -> SUBSET (0 .. MaxDesc - 1)]
  <2>1. moved' \in {moved, [moved EXCEPT ![d.t] = @ \cup {d.i}]}
    BY DEF HwStep
  <2>2. d.t \in Xfers /\ d.i \in 0 .. MaxDesc - 1
    BY <1>1 DEF Descriptors
  <2>3. moved \in [Xfers -> SUBSET (0 .. MaxDesc - 1)]
    BY DEF TypeInv, TypeOK
  <2> HIDE DEF d
  <2> QED
    BY <2>1, <2>2, <2>3
<1> QED
  BY <1>3, <1>4, Lemma_Hardware DEF HwStep

\* A fault leaves the hardware idle.
LEMMA Step_HwFault ==
  ASSUME TypeInv, HwFault
  PROVE  TypeInv'
<1>1. [hw EXCEPT !.stat = "error"] \in EngineStates
  BY DEF TypeInv, TypeOK, EngineStates
<1>2. hw' \in EngineStates /\ FetchEnds(hw')
  BY <1>1, Lemma_Halted DEF HwFault
<1> QED
  BY <1>2, Lemma_Hardware DEF HwFault, TypeInv, TypeOK

\* A halt leaves the hardware idle.
LEMMA Step_HwHalt ==
  ASSUME TypeInv, HwHalt
  PROVE  TypeInv'
<1>1. hw' \in EngineStates /\ FetchEnds(hw')
  BY Lemma_Halted DEF HwHalt, TypeInv, TypeOK
<1> QED
  BY <1>1, Lemma_Hardware DEF HwHalt, TypeInv, TypeOK

-----------------------------------------------------------------------------
(* The interrupt and the bottom half.                                      *)

\* What engine_service remembers has its type.
LEMMA Lemma_Svc ==
  /\ NoSvc \in Services
  /\ \A b \in BOOLEAN :
       [NoSvc EXCEPT !.at = "count", !.err = b] \in Services
  /\ \A s \in Services, n \in Nat : [s EXCEPT !.at = "list", !.cnt = n] \in Services
  /\ \A s \in Services, n \in Nat : [s EXCEPT !.cnt = n] \in Services
BY DEF NoSvc, Services

\* The interrupt changes nothing but its mask and the work.
LEMMA Step_ChannelIrq ==
  ASSUME TypeInv, ChannelIrq
  PROVE  TypeInv'
<1>1. TypeOK'
  BY DEF ChannelIrq, TypeInv, TypeOK, callVars, listVars, ringVars
<1>2. RequestShape' /\ ChainsEndInRing'
  BY DEF ChannelIrq, TypeInv, RequestShape, ChainsEndInRing, callVars, ringVars
<1> QED
  BY <1>1, <1>2 DEF TypeInv

\* Reading the status leaves the fetched descriptor alone.
LEMMA Step_ServiceStatus ==
  ASSUME TypeInv, ServiceStatus
  PROVE  TypeInv'
<1>1. /\ hw \in EngineStates /\ FetchEnds(hw) /\ running \in BOOLEAN
      /\ irq_mask \in BOOLEAN
  BY DEF TypeInv, TypeOK, ChainsEndInRing
<1>2. hw' \in EngineStates /\ hw'.pos = hw.pos /\ hw'.cur = hw.cur
  <2>1. /\ [hw EXCEPT !.stat = "clear"] \in EngineStates
        /\ [hw EXCEPT !.stat = "clear"].pos = hw.pos
        /\ [hw EXCEPT !.stat = "clear"].cur = hw.cur
    BY <1>1 DEF EngineStates
  <2>2. /\ [hw EXCEPT !.stat = "clear", !.run = @ /\ hw.busy] \in EngineStates
        /\ [hw EXCEPT !.stat = "clear", !.run = @ /\ hw.busy].pos = hw.pos
        /\ [hw EXCEPT !.stat = "clear", !.run = @ /\ hw.busy].cur = hw.cur
    BY <1>1 DEF EngineStates
  <2>3. hw' \in {[hw EXCEPT !.stat = "clear"],
                 [hw EXCEPT !.stat = "clear", !.run = @ /\ hw.busy]}
    BY DEF ServiceStatus
  <2> QED
    BY <2>1, <2>2, <2>3
<1>3. FetchEnds(hw')
  BY <1>1, <1>2 DEF FetchEnds
<1>4. running' \in BOOLEAN /\ irq_mask' \in BOOLEAN
  BY <1>1 DEF ServiceStatus, ServiceEnds, EngineStates
<1>5. svc' \in Services
  <2>1. (hw.stat = "error") \in BOOLEAN
    OBVIOUS
  <2>2. svc' \in {[NoSvc EXCEPT !.at = "count", !.err = hw.stat = "error"],
                  NoSvc}
    BY DEF ServiceStatus, ServiceEnds
  <2> QED
    BY <2>1, <2>2, Lemma_Svc
<1>6. TypeOK'
  BY <1>2, <1>4, <1>5
     DEF ServiceStatus, TypeInv, TypeOK, callVars, ringVars
<1>7. RequestShape' /\ ChainsEndInRing'
  BY <1>3 DEF ServiceStatus, TypeInv, RequestShape, ChainsEndInRing, callVars,
              ringVars
<1> QED
  BY <1>6, <1>7 DEF TypeInv

\* The count read is never negative: it is taken modulo its width.
LEMMA Step_ServiceCount ==
  ASSUME TypeInv, ServiceCount
  PROVE  TypeInv'
<1>1. svc' \in Services /\ irq_mask' \in BOOLEAN
  <2>1. CASE hw.count = 0
    BY <2>1, Lemma_Svc DEF ServiceCount, ServiceEnds
  <2>2. CASE hw.count # 0
    <3>1. (hw.count - desc_dequeued) % Wrap \in Nat
      BY DEF TypeInv, TypeOK, EngineStates, Wrap
    <3> QED
      BY <2>2, <3>1, Lemma_Svc DEF ServiceCount, TypeInv, TypeOK
  <2> QED
    BY <2>1, <2>2
<1>2. TypeOK'
  BY <1>1 DEF ServiceCount, TypeInv, TypeOK, callVars, listVars, ringVars
<1>3. RequestShape' /\ ChainsEndInRing'
  BY DEF ServiceCount, TypeInv, RequestShape, ChainsEndInRing, callVars,
         ringVars
<1> QED
  BY <1>2, <1>3 DEF TypeInv

\* io_done frees one request and only removes descriptors.
LEMMA Lemma_IoDone ==
  ASSUME TypeInv, NEW r \in Calls, NEW x \in [Xfers -> Transfers],
         IoDone(r, x)
  PROVE  /\ pc' \in [Calls -> Places] /\ req' \in [Calls -> Requests]
         /\ ret' \in [Calls -> Int] /\ xfer' \in [Xfers -> Transfers]
         /\ moved' \in [Xfers -> SUBSET (0 .. MaxDesc - 1)]
         /\ ring' \in Rings /\ RingEnds(ring')
         /\ RequestShape'
<1>1. /\ req[r].cnt \in Int /\ 0 .. req[r].tfer \subseteq 0 .. MaxDesc - 1
      /\ RingEnds(ring) /\ ring \in Rings
  BY SizesPositive DEF TypeInv, TypeOK, Requests, ChainsEndInRing, Rings
<1>2. ring' \in Rings /\ RingEnds(ring')
  <2>1. PICK last : ring' = Wiped({x[<<r, k>>] : k \in 0 .. last})
    BY DEF IoDone
  <2> QED
    BY <1>1, <2>1, Lemma_Wiped
<1>3. PICK value \in Int : Return(r, value)
  <2>1. \A k \in 0 .. req[r].tfer : x[<<r, k>>].off \in Int
    BY <1>1, SizesPositive DEF Xfers, Transfers
  <2> QED
    BY <1>1, <2>1 DEF IoDone
<1>4. FreeReq(r, x)
  BY DEF IoDone
<1> QED
  BY <1>2, <1>3, <1>4, Lemma_Return, Lemma_FreeReq, Lemma_ShapeFreed
     DEF TypeInv, TypeOK

\* A transfer that leaves the list is marked, or its request is done.
LEMMA Lemma_Finish ==
  ASSUME TypeInv, NEW t \in Xfers, NEW state \in {"COMPLETED", "FAILED"},
         Finish(t, state)
  PROVE  /\ pc' \in [Calls -> Places] /\ req' \in [Calls -> Requests]
         /\ ret' \in [Calls -> Int] /\ xfer' \in [Xfers -> Transfers]
         /\ moved' \in [Xfers -> SUBSET (0 .. MaxDesc - 1)]
         /\ ring' \in Rings /\ RingEnds(ring')
         /\ RequestShape'
<1> DEFINE x == [xfer EXCEPT ![t].state = state]
<1>1. x \in [Xfers -> Transfers]
  BY DEF TypeInv, TypeOK, Transfers
<1>2. t[1] \in Calls
  BY DEF Xfers
<1>3. CASE LastInRequest(t)
  <2>1. IoDone(t[1], x)
    BY <1>3 DEF Finish
  <2> HIDE DEF x
  <2> QED
    BY <1>1, <1>2, <2>1, Lemma_IoDone
<1>4. CASE ~ LastInRequest(t)
  <2>1. xfer' = x /\ UNCHANGED <<callVars, moved, ring>>
    BY <1>4 DEF Finish
  <2> HIDE DEF x
  <2>2. RequestShape'
    BY <2>1 DEF TypeInv, RequestShape, callVars
  <2> QED
    BY <1>1, <2>1, <2>2
       DEF TypeInv, TypeOK, ChainsEndInRing, Rings, callVars
<1> QED
  BY <1>3, <1>4

\* The engine goes on with the list q, or stops.
LEMMA Lemma_Resume ==
  ASSUME TypeInv, NEW q \in Seq(Xfers), NEW b \in BOOLEAN,
         NEW h \in EngineStates, FetchEnds(h), NEW n \in Nat,
         Resume(q, xfer, b, h, n)
  PROVE  /\ running' \in BOOLEAN /\ shutdown' \in BOOLEAN
         /\ desc_dequeued' \in Nat
         /\ hw' \in EngineStates /\ FetchEnds(hw')
<1>1. CASE ~ b /\ q # << >>
  <2>1. /\ running' = TRUE /\ shutdown' = FALSE /\ desc_dequeued' = 0
        /\ hw' = Started(h, xfer, Head(q))
    BY <1>1 DEF Resume, engine_start
  <2>2. Head(q) \in Xfers
    BY <1>1
  <2>3. xfer \in [Xfers -> Transfers] /\ ring \in Rings /\ RingEnds(ring)
    BY DEF TypeInv, TypeOK, ChainsEndInRing, Rings
  <2> QED
    BY <2>1, <2>2, <2>3, Lemma_Started
<1>2. CASE ~ (~ b /\ q # << >>)
  BY <1>2, Lemma_Stopped DEF Resume, TypeInv, TypeOK
<1> QED
  BY <1>1, <1>2

\* A transfer covered by the count is taken off it.
LEMMA Step_ServiceTransferList ==
  ASSUME TypeInv, ServiceTransferList
  PROVE  TypeInv'
<1> DEFINE t == Head(list)
<1>1. t \in Xfers /\ list' \in Seq(Xfers)
  BY DEF ServiceTransferList, TypeInv, TypeOK
<1>2. Finish(t, "COMPLETED")
  BY DEF ServiceTransferList
<1>3. xfer[t].num \in Nat
  BY <1>1, SizesPositive DEF TypeInv, TypeOK, Transfers
<1>4. svc' \in Services /\ desc_dequeued' \in Nat
  <2>1. svc.cnt - xfer[t].num \in Nat /\ desc_dequeued + xfer[t].num \in Nat
    BY <1>3 DEF ServiceTransferList, TypeInv, TypeOK, Services
  <2>2. /\ svc' = [svc EXCEPT !.cnt = @ - xfer[t].num]
        /\ desc_dequeued' = desc_dequeued + xfer[t].num /\ svc \in Services
    BY DEF ServiceTransferList, TypeInv, TypeOK
  <2> QED
    BY <2>1, <2>2, Lemma_Svc
<1> HIDE DEF t
<1>5. /\ pc' \in [Calls -> Places] /\ req' \in [Calls -> Requests]
      /\ ret' \in [Calls -> Int] /\ xfer' \in [Xfers -> Transfers]
      /\ moved' \in [Xfers -> SUBSET (0 .. MaxDesc - 1)]
      /\ ring' \in Rings /\ RingEnds(ring')
      /\ RequestShape'
  BY <1>1, <1>2, Lemma_Finish
<1>6. TypeOK'
  BY <1>1, <1>4, <1>5 DEF ServiceTransferList, TypeInv, TypeOK, Rings, irqVars
<1>7. ChainsEndInRing'
  BY <1>5 DEF ServiceTransferList, TypeInv, ChainsEndInRing
<1> QED
  BY <1>5, <1>6, <1>7 DEF TypeInv

\* The last transfer of a service, and the engine's resumption.
LEMMA Step_ServiceFinal ==
  ASSUME TypeInv, ServiceFinal
  PROVE  TypeInv'
<1> DEFINE t == Head(list)
           h == IF svc.err THEN Stopped(hw) ELSE hw
           n == IF svc.err THEN desc_dequeued ELSE desc_dequeued + xfer[t].num
           state == IF Whole(t) /\ ~ svc.err THEN "COMPLETED" ELSE "FAILED"
<1>1. t \in Xfers /\ Tail(list) \in Seq(Xfers) /\ list' = Tail(list)
  BY DEF ServiceFinal, TypeInv, TypeOK
<1>2. Finish(t, state) /\ Resume(Tail(list), xfer, running /\ ~ svc.err, h, n)
  BY DEF ServiceFinal
<1>3. h \in EngineStates /\ FetchEnds(h)
  BY Lemma_Stopped DEF TypeInv, TypeOK, ChainsEndInRing
<1>4. n \in Nat
  BY <1>1, SizesPositive DEF TypeInv, TypeOK, Transfers
<1>5. state \in {"COMPLETED", "FAILED"}
  OBVIOUS
<1>6. (running /\ ~ svc.err) \in BOOLEAN
  OBVIOUS
<1> HIDE DEF t, h, n, state
<1>7. /\ pc' \in [Calls -> Places] /\ req' \in [Calls -> Requests]
      /\ ret' \in [Calls -> Int] /\ xfer' \in [Xfers -> Transfers]
      /\ moved' \in [Xfers -> SUBSET (0 .. MaxDesc - 1)]
      /\ ring' \in Rings /\ RingEnds(ring')
      /\ RequestShape'
  BY <1>1, <1>2, <1>5, Lemma_Finish
<1>8. /\ running' \in BOOLEAN /\ shutdown' \in BOOLEAN
      /\ desc_dequeued' \in Nat
      /\ hw' \in EngineStates /\ FetchEnds(hw')
  BY <1>1, <1>2, <1>3, <1>4, <1>6, Lemma_Resume
<1>9. svc' \in Services /\ irq_mask' \in BOOLEAN
  BY Lemma_Svc DEF ServiceFinal, ServiceEnds
<1>10. TypeOK'
  BY <1>1, <1>7, <1>8, <1>9 DEF ServiceFinal, TypeInv, TypeOK, Rings
<1>11. ChainsEndInRing'
  BY <1>7, <1>8 DEF ChainsEndInRing
<1> QED
  BY <1>7, <1>10, <1>11 DEF TypeInv

\* A service that finds nothing left only resumes the engine.
LEMMA Step_ServiceNothing ==
  ASSUME TypeInv, ServiceNothing
  PROVE  TypeInv'
<1>1. /\ running' \in BOOLEAN /\ shutdown' \in BOOLEAN
      /\ desc_dequeued' \in Nat
      /\ hw' \in EngineStates /\ FetchEnds(hw')
  BY Lemma_Resume DEF ServiceNothing, TypeInv, TypeOK, ChainsEndInRing
<1>2. svc' \in Services /\ irq_mask' \in BOOLEAN
  BY Lemma_Svc DEF ServiceNothing, ServiceEnds
<1>3. TypeOK'
  BY <1>1, <1>2 DEF ServiceNothing, TypeInv, TypeOK, callVars, ringVars
<1>4. RequestShape' /\ ChainsEndInRing'
  BY <1>1 DEF ServiceNothing, TypeInv, RequestShape, ChainsEndInRing, callVars,
              ringVars
<1> QED
  BY <1>3, <1>4 DEF TypeInv

-----------------------------------------------------------------------------
(* Going offline and online.                                               *)

\* Going offline and online stops the engine and never starts it.
LEMMA Step_Hotplug ==
  ASSUME TypeInv, Hotplug
  PROVE  TypeInv'
<1> USE DEF TypeInv, TypeOK, AdmStep, callVars, listVars, ringVars, irqVars
<1>1. hw' \in EngineStates /\ FetchEnds(hw')
  BY Lemma_Stopped DEF Hotplug, OfflineFlag, OfflineEngine, OfflineIrq,
     OnlineEngine, OnlineIrq, OnlineFlag, ChainsEndInRing
<1>2. TypeOK'
  <2>1. CASE OfflineFlag   BY <1>1, <2>1 DEF OfflineFlag
  <2>2. CASE OfflineEngine BY <1>1, <2>2 DEF OfflineEngine
  <2>3. CASE OfflineIrq    BY <1>1, <2>3 DEF OfflineIrq
  <2>4. CASE OnlineEngine  BY <1>1, <2>4 DEF OnlineEngine
  <2>5. CASE OnlineIrq     BY <1>1, <2>5 DEF OnlineIrq
  <2>6. CASE OnlineFlag    BY <1>1, <2>6 DEF OnlineFlag
  <2> QED
    BY <2>1, <2>2, <2>3, <2>4, <2>5, <2>6 DEF Hotplug
<1>3. UNCHANGED <<pc, req, ring>>
  BY DEF Hotplug, OfflineFlag, OfflineEngine, OfflineIrq, OnlineEngine,
         OnlineIrq, OnlineFlag
<1>4. RequestShape' /\ ChainsEndInRing'
  BY <1>1, <1>3 DEF RequestShape, ChainsEndInRing
<1> QED
  BY <1>2, <1>4

-----------------------------------------------------------------------------
(* The theorems.                                                           *)

\* Every step keeps the type invariant.
LEMMA Lemma_Step == TypeInv /\ [Next]_vars => TypeInv'
<1> SUFFICES ASSUME TypeInv, [Next]_vars PROVE TypeInv'
  OBVIOUS
<1>1. ASSUME NEW r \in Calls, Step(r) PROVE TypeInv'
  BY <1>1, Step_Submit, Step_TransferInit, Step_CheckOffline,
     Step_QueueRefused, Step_TransferQueue DEF Step, Queue
<1>2. ASSUME NEW r \in Sync, SyncStep(r) PROVE TypeInv'
  BY <1>2, Step_LockDesc, Step_SyncDone, Step_SyncAbort DEF SyncStep
<1>3. CASE Hardware
  BY <1>3, Step_HwStep, Step_HwFault, Step_HwHalt DEF Hardware
<1>4. CASE ChannelIrq
  BY <1>4, Step_ChannelIrq
<1>5. CASE Service
  BY <1>5, Step_ServiceStatus, Step_ServiceCount, Step_ServiceTransferList,
     Step_ServiceFinal, Step_ServiceNothing DEF Service
<1>6. CASE Hotplug
  BY <1>6, Step_Hotplug
<1>7. CASE UNCHANGED vars
  <2>1. TypeOK'
    BY <1>7 DEF TypeInv, TypeOK, vars, callVars, listVars, ringVars, irqVars
  <2>2. RequestShape' /\ ChainsEndInRing'
    BY <1>7 DEF TypeInv, RequestShape, ChainsEndInRing, vars, callVars, ringVars
  <2> QED
    BY <2>1, <2>2 DEF TypeInv
<1> QED
  BY <1>1, <1>2, <1>3, <1>4, <1>5, <1>6, <1>7 DEF Next

\* The strengthened type invariant holds in every reachable state.
THEOREM TypeInvariant == Spec => []TypeInv
<1> QED
  BY Lemma_Init, Lemma_Step, PTL DEF Spec

\* Every variable keeps its type: the indices of transfer_init, of the
\* transfers of a request and of the hardware stay in their arrays, for every
\* ring and every size of request.
THEOREM TypeCorrect == Spec => []TypeOK
<1>1. TypeInv => TypeOK
  BY DEF TypeInv
<1> QED
  BY <1>1, TypeInvariant, PTL

\* What makes the shutdown hold: no service of the engine is under way when it
\* is stopped, and none gets past the test of running afterwards.
ShutdownInv ==
  adm \in {"stopped", "offline"} =>
    shutdown /\ ~ running /\ ~ hw.run /\ svc.at = "idle"

\* Every step keeps the shutdown invariant: a service is under way only before
\* the engine is stopped, and a call is refused from then on.
LEMMA Lemma_ShutdownStep == TypeOK /\ ShutdownInv /\ [Next]_vars => ShutdownInv'
<1> SUFFICES ASSUME TypeOK, ShutdownInv, [Next]_vars PROVE ShutdownInv'
  OBVIOUS
<1> USE DEF ShutdownInv, Online
<1>1. ASSUME NEW r \in Calls, Submit(r) PROVE ShutdownInv'
  BY <1>1 DEF Submit, listVars, irqVars
<1>2. ASSUME NEW r \in Calls, TransferInit(r) PROVE ShutdownInv'
  BY <1>2 DEF TransferInit, listVars, irqVars
<1>3. ASSUME NEW r \in Calls, CheckOffline(r) \/ QueueRefused(r)
      PROVE  ShutdownInv'
  BY <1>3 DEF CheckOffline, QueueRefused, listVars, irqVars
<1>4. ASSUME NEW r \in Calls, TransferQueue(r) PROVE ShutdownInv'
  BY <1>4 DEF TransferQueue, Closed, listVars, irqVars
<1>5. ASSUME NEW r \in Sync, LockDesc(r) PROVE ShutdownInv'
  BY <1>5 DEF LockDesc, listVars, irqVars
<1>6. ASSUME NEW r \in Sync, SyncDone(r) PROVE ShutdownInv'
  BY <1>6 DEF SyncDone, listVars, irqVars
<1>7. ASSUME NEW r \in Sync, SyncAbort(r) PROVE ShutdownInv'
  BY <1>7 DEF SyncAbort, Stopped, listVars, irqVars
<1>8. CASE HwStep
  BY <1>8 DEF HwStep, Halted, listVars, irqVars
<1>9. CASE HwFault
  BY <1>9 DEF HwFault, Halted, listVars, irqVars
<1>10. CASE HwHalt
  BY <1>10 DEF HwHalt, Halted, listVars, irqVars
<1>11. CASE ChannelIrq
  BY <1>11 DEF ChannelIrq, listVars, irqVars
<1>12. CASE ServiceStatus
  <2>1. hw \in EngineStates
    BY DEF TypeOK
  <2>2. adm' = adm /\ shutdown' = shutdown
    BY <1>12 DEF ServiceStatus
  <2>3. CASE running
    BY <2>2, <2>3
  <2>4. CASE ~ running
    <3>1. hw' = [hw EXCEPT !.stat = "clear"] /\ running' = running /\ svc' = NoSvc
      BY <1>12, <2>4 DEF ServiceStatus, ServiceEnds
    <3>2. hw'.run = hw.run
      BY <2>1, <3>1 DEF EngineStates
    <3> QED
      BY <2>2, <3>1, <3>2 DEF NoSvc
  <2> QED
    BY <2>3, <2>4
<1>13. CASE ServiceCount
  BY <1>13 DEF ServiceCount, listVars, irqVars
<1>14. CASE ServiceTransferList
  BY <1>14 DEF ServiceTransferList, listVars, irqVars
<1>15. CASE ServiceFinal
  BY <1>15 DEF ServiceFinal, listVars, irqVars
<1>16. CASE ServiceNothing
  BY <1>16 DEF ServiceNothing, listVars, irqVars
<1>17. CASE OfflineFlag
  BY <1>17 DEF OfflineFlag, AdmStep, listVars, irqVars
<1>18. CASE OfflineEngine
  BY <1>18 DEF OfflineEngine, LockFree, AdmStep, Stopped, listVars, irqVars
<1>19. CASE OfflineIrq
  BY <1>19 DEF OfflineIrq, AdmStep, listVars, irqVars
<1>20. CASE OnlineEngine
  BY <1>20 DEF OnlineEngine, AdmStep, listVars, irqVars
<1>21. CASE OnlineIrq
  BY <1>21 DEF OnlineIrq, AdmStep, listVars, irqVars
<1>22. CASE OnlineFlag
  BY <1>22 DEF OnlineFlag, AdmStep, listVars, irqVars
<1>23. CASE UNCHANGED vars
  BY <1>23 DEF vars, listVars
<1> QED
  BY <1>1, <1>2, <1>3, <1>4, <1>5, <1>6, <1>7, <1>8, <1>9, <1>10, <1>11, <1>12, <1>13, <1>14, <1>15, <1>16, <1>17, <1>18, <1>19, <1>20, <1>21, <1>22, <1>23
     DEF Next, Step, Queue, SyncStep, Hardware, Service, Hotplug

\* A device that is offline is not brought back to DMA by a call that passed
\* the test of the flag before, a late interrupt or its work, whatever is queued.
THEOREM ShutdownSafe == Spec => []ShutdownStopsEngine
<1>1. Init => ShutdownInv
  BY DEF Init, ShutdownInv, Online, NoSvc
<1>2. ShutdownInv => ShutdownStopsEngine
  BY DEF ShutdownInv, ShutdownStopsEngine, Online
<1> QED
  BY <1>1, <1>2, Lemma_ShutdownStep, TypeCorrect, PTL DEF Spec

-----------------------------------------------------------------------------
(* The transfer list.  It is sound where nothing takes a transfer out of its *)
(* middle: a refusal frees a request whose earlier parts are queued, an      *)
(* abort one that is not the head.                                           *)

\* Either all calls wait for their transfer, or none ends early and the device
\* stays online.
Undisturbed == Async = {} \/ (Timeouts = {} /\ ~ HotPlug)

\* A blocking call has its transfer queued while it waits, and holds the lock
\* from before it takes descriptors.
Blocking(r) ==
  /\ pc[r] \in {"init", "queue", "enqueue", "wait"} => desc_lock = r
  /\ \A k \in 0 .. MaxDesc - 1 : Queued(<<r, k>>) => k = 0 /\ pc[r] = "wait"

\* The queued parts of an asynchronous request lie before the part its call is
\* at, and that is the last one taken.
Parted(a) ==
  LET now == xfer[<<a, req[a].tfer>>] IN
  /\ pc[a] \in {"queue", "enqueue"} =>
       now.num > 0 /\ now.off + now.num = req[a].idx
  /\ \A k \in 0 .. MaxDesc - 1 : Queued(<<a, k>>) =>
       LET x == xfer[<<a, k>>] IN
       /\ x.num > 0 /\ x.off + x.num <= req[a].idx
       /\ pc[a] \in {"init", "queue", "enqueue"} => k < req[a].tfer
       /\ pc[a] \in {"queue", "enqueue"} => x.off + x.num <= now.off

\* Parts of one request are queued in their order.
Precedes(t, u) ==
  t[1] = u[1] /\ t[1] \in Async => xfer[t].off + xfer[t].num <= xfer[u].off
InOrder == \A i, j \in 1 .. Len(list) : i < j => Precedes(list[i], list[j])

\* A device that is never taken offline is online.
Steady == ~ HotPlug => adm = Online /\ ~ shutdown

Sound ==
  /\ QueueWellFormed /\ InOrder /\ Steady
  /\ \A r \in Sync : Blocking(r)
  /\ \A a \in Async : Parted(a)

\* What is on the list.
LEMMA Lemma_Listed ==
  ASSUME TypeOK, QueueWellFormed
  PROVE  /\ list \in Seq(Xfers) /\ IsInjective(list)
         /\ \A t : t \in ToSet(list) <=> t \in Xfers /\ Queued(t)
BY DEF TypeOK, QueueWellFormed, ToSet, Range

\* A transfer is a part of a call.
LEMMA Lemma_Xfers ==
  /\ \A t \in Xfers : /\ t[1] \in Calls /\ t[2] \in 0 .. MaxDesc - 1
                      /\ t = <<t[1], t[2]>>
  /\ \A r \in Calls, k \in 0 .. MaxDesc - 1 :
       <<r, k>> \in Xfers /\ <<r, k>>[1] = r /\ <<r, k>>[2] = k
BY DEF Xfers

\* A step that queues nothing and finishes nothing.
LEMMA Lemma_ListStays ==
  ASSUME TypeOK, QueueWellFormed, InOrder, list' = list,
         \A t \in Xfers : Queued(t)' <=> Queued(t),
         \A t \in Xfers : Queued(t) =>
           xfer'[t].off = xfer[t].off /\ xfer'[t].num = xfer[t].num
  PROVE  QueueWellFormed' /\ InOrder'
<1>1. QueueWellFormed'
  BY DEF QueueWellFormed, Range
<1>2. \A i \in 1 .. Len(list) : list[i] \in Xfers /\ Queued(list[i])
  BY Lemma_Listed, ListEntries
<1>3. InOrder'
  BY <1>2 DEF InOrder, Precedes
<1> QED
  BY <1>1, <1>3

\* A step that takes the head off the list.
LEMMA Lemma_ListTail ==
  ASSUME TypeOK, QueueWellFormed, InOrder, list # << >>, list' = Tail(list),
         \A t \in Xfers : Queued(t)' <=> Queued(t) /\ t # Head(list),
         \A t \in Xfers : Queued(t) /\ t # Head(list) =>
           xfer'[t].off = xfer[t].off /\ xfer'[t].num = xfer[t].num
  PROVE  QueueWellFormed' /\ InOrder'
<1>1. /\ list \in Seq(Xfers) /\ Tail(list) \in Seq(Xfers)
      /\ IsInjective(Tail(list)) /\ ToSet(Tail(list)) = ToSet(list) \ {Head(list)}
      /\ Len(list) \in Nat /\ Len(Tail(list)) = Len(list) - 1
  BY Lemma_Listed, ListTail, ListEntries
<1>2. QueueWellFormed'
  BY <1>1, Lemma_Listed DEF QueueWellFormed, Range, ToSet
<1>3. \A i \in 1 .. Len(list) - 1 :
        Tail(list)[i] = list[i + 1] /\ Tail(list)[i] \in ToSet(Tail(list))
  <2>1. \A i \in 1 .. Len(list) - 1 : Tail(list)[i] = list[i + 1]
    BY <1>1
  <2>2. \A i \in 1 .. Len(Tail(list)) : Tail(list)[i] \in ToSet(Tail(list))
    BY <1>1, ListEntries
  <2> QED
    BY <1>1, <2>1, <2>2
<1>4. \A i \in 1 .. Len(list) - 1 :
        list[i + 1] \in Xfers /\ Queued(list[i + 1]) /\ list[i + 1] # Head(list)
  BY <1>1, <1>3, Lemma_Listed
<1>5. ASSUME NEW i \in 1 .. Len(list'), NEW j \in 1 .. Len(list'), i < j
      PROVE  Precedes(list[i], list[j])'
  <2>1. /\ i \in 1 .. Len(list) - 1 /\ j \in 1 .. Len(list) - 1
        /\ i + 1 \in 1 .. Len(list) /\ j + 1 \in 1 .. Len(list) /\ i + 1 < j + 1
    BY <1>1, <1>5
  <2>2. Precedes(list[i + 1], list[j + 1])
    BY <2>1 DEF InOrder
  <2>3. list'[i] = list[i + 1] /\ list'[j] = list[j + 1]
    BY <2>1, <1>3
  <2> QED
    BY <2>1, <2>2, <2>3, <1>4 DEF Precedes
<1> QED
  BY <1>2, <1>5 DEF InOrder

\* A step that appends a transfer that comes after all of its request.
LEMMA Lemma_ListAppend ==
  ASSUME TypeOK, QueueWellFormed, InOrder, NEW t \in Xfers, ~ Queued(t),
         list' = Append(list, t),
         \A u \in Xfers : Queued(u)' <=> Queued(u) \/ u = t,
         \A u \in Xfers :
           xfer'[u].off = xfer[u].off /\ xfer'[u].num = xfer[u].num,
         \A u \in Xfers : Queued(u) => Precedes(u, t)
  PROVE  QueueWellFormed' /\ InOrder'
<1>1. /\ list \in Seq(Xfers) /\ IsInjective(list) /\ t \notin ToSet(list)
      /\ Append(list, t) \in Seq(Xfers) /\ IsInjective(Append(list, t))
      /\ ToSet(Append(list, t)) = ToSet(list) \cup {t}
      /\ Len(list) \in Nat /\ Len(Append(list, t)) = Len(list) + 1
  BY Lemma_Listed, ListAppend, ListEntries
<1>2. QueueWellFormed'
  BY <1>1, Lemma_Listed DEF QueueWellFormed, Range, ToSet
<1>3. \A i \in 1 .. Len(list) :
        list'[i] = list[i] /\ list[i] \in Xfers /\ Queued(list[i])
  BY <1>1, Lemma_Listed, ListEntries
<1>4. list'[Len(list) + 1] = t
  BY <1>1
<1>5. ASSUME NEW i \in 1 .. Len(list'), NEW j \in 1 .. Len(list'), i < j
      PROVE  Precedes(list[i], list[j])'
  <2>1. i \in 1 .. Len(list)
    BY <1>1, <1>5
  <2>2. CASE j \in 1 .. Len(list)
    BY <1>3, <1>5, <2>1, <2>2 DEF InOrder, Precedes
  <2>3. CASE j = Len(list) + 1
    BY <1>3, <1>4, <2>1, <2>3 DEF Precedes
  <2> QED
    BY <1>1, <2>2, <2>3
<1> QED
  BY <1>2, <1>5 DEF InOrder

\* A call that a step leaves alone is as it was.
LEMMA Lemma_OtherCalls ==
  ASSUME TypeOK, NEW r \in Calls, pc'[r] = pc[r], req'[r] = req[r],
         \A k \in 0 .. MaxDesc - 1 : xfer'[<<r, k>>] = xfer[<<r, k>>]
  PROVE  /\ Parted(r) => Parted(r)'
         /\ Blocking(r) /\ (desc_lock = r => desc_lock' = r) => Blocking(r)'
<1>1. req[r].tfer \in 0 .. MaxDesc - 1
  BY DEF TypeOK, Requests
<1> QED
  BY <1>1 DEF Parted, Blocking, Queued

\* The request of a call that has nothing queued is freed.
LEMMA Lemma_FreedRow ==
  ASSUME TypeOK, NEW r \in Calls, NEW x, FreeReq(r, x)
  PROVE  /\ \A k \in 0 .. MaxDesc - 1 : xfer'[<<r, k>>] = NoXfer
         /\ \A t \in Xfers : t[1] # r => xfer'[t] = x[t]
         /\ \A t \in Xfers : t[1] = r => xfer'[t] = NoXfer
         /\ req' = [req EXCEPT ![r] = NoReq]
BY Lemma_Xfers DEF FreeReq

\* A call that returned with its request freed has nothing on the list.
LEMMA Lemma_Freed ==
  ASSUME TypeOK, NEW r \in Calls, NEW value, NEW x, Return(r, value), FreeReq(r, x)
  PROVE  Blocking(r)' /\ Parted(r)'
<1>1. pc'[r] = "idle"
  BY DEF Return, TypeOK
<1>2. \A k \in 0 .. MaxDesc - 1 : ~ Queued(<<r, k>>)'
  BY Lemma_FreedRow DEF Queued, NoXfer
<1> QED
  BY <1>1, <1>2 DEF Blocking, Parted

\* Each step of a call keeps the list sound.  A new call has nothing queued.
LEMMA Sound_Submit ==
  ASSUME TypeInv, Sound, NEW r \in Calls, Submit(r)
  PROVE  Sound'
<1> USE DEF TypeInv
<1>1. /\ xfer' = xfer /\ list' = list /\ desc_lock' = desc_lock
      /\ adm' = adm /\ shutdown' = shutdown
  BY DEF Submit, listVars
<1>2. QueueWellFormed' /\ InOrder' /\ Steady'
  BY <1>1, Lemma_ListStays DEF Sound, Queued, Steady
<1>3. /\ pc'[r] \in {"idle", "lock", "init"} /\ (r \in Sync => pc'[r] # "init")
      /\ \A q \in Calls \ {r} : pc'[q] = pc[q] /\ req'[q] = req[q]
  BY DEF Submit, Return, Goto, TypeOK
<1>4. \A q \in Calls \ {r} : /\ Parted(q) => Parted(q)'
                             /\ Blocking(q) => Blocking(q)'
  BY <1>1, <1>3, Lemma_OtherCalls
<1>5. r \in Sync => Blocking(r)'
  BY <1>1, <1>3 DEF Submit, Sound, Blocking, Queued
<1>6. ASSUME r \in Async PROVE Parted(r)'
  <2>1. pc[r] = "idle" /\ req[r] = NoReq
    BY DEF Submit, RequestShape, Shape
  <2>2. ASSUME NEW k \in 0 .. MaxDesc - 1, Queued(<<r, k>>) PROVE FALSE
    <3>1. xfer[<<r, k>>] \in Transfers
      BY Lemma_Xfers DEF TypeOK
    <3>2. xfer[<<r, k>>].num > 0 /\ xfer[<<r, k>>].off + xfer[<<r, k>>].num <= 0
      <4>1. Parted(r) /\ req[r].idx = 0
        BY <1>6, <2>1 DEF Sound, NoReq
      <4> QED
        BY <2>2, <4>1 DEF Parted
    <3> QED
      BY <3>1, <3>2, SizesPositive DEF Transfers
  <2> QED
    BY <1>1, <1>3, <2>2 DEF Parted, Queued
<1> QED
  BY <1>2, <1>4, <1>5, <1>6 DEF Sound, Calls

\* The lock goes to a call that has nothing queued.
LEMMA Sound_LockDesc ==
  ASSUME TypeInv, Sound, NEW r \in Sync, LockDesc(r)
  PROVE  Sound'
<1> USE DEF TypeInv
<1>1. /\ xfer' = xfer /\ list' = list /\ req' = req
      /\ adm' = adm /\ shutdown' = shutdown /\ r \in Calls
      /\ desc_lock = None /\ desc_lock' = r /\ None \notin Calls
  BY CallsDisjoint DEF LockDesc, listVars, Calls
<1>2. QueueWellFormed' /\ InOrder' /\ Steady'
  BY <1>1, Lemma_ListStays DEF Sound, Queued, Steady
<1>3. /\ pc[r] = "lock" /\ pc'[r] = "init"
      /\ \A q \in Calls \ {r} : pc'[q] = pc[q] /\ req'[q] = req[q]
  BY <1>1 DEF LockDesc, Goto, TypeOK
<1>4. \A q \in Calls \ {r} : /\ Parted(q) => Parted(q)'
                             /\ Blocking(q) => Blocking(q)'
  BY <1>1, <1>3, Lemma_OtherCalls
<1>5. Blocking(r)'
  BY <1>1, <1>3 DEF Sound, Blocking, Queued
<1>6. r \notin Async
  BY CallsDisjoint
<1> QED
  BY <1>2, <1>4, <1>5, <1>6 DEF Sound, Calls

\* The transfer that takes its descriptors is not queued, and follows those of
\* its request that are.
LEMMA Sound_TransferInit ==
  ASSUME TypeInv, Sound, NEW r \in Calls, TransferInit(r)
  PROVE  Sound'
<1> USE DEF TypeInv
<1> DEFINE t == Current(r)
           n == InitCount(req[r].cnt - req[r].idx)
           x == [state |-> "NEW", first |-> desc_idx, num |-> n, off |-> req[r].idx]
<1>1. /\ list' = list /\ desc_lock' = desc_lock
      /\ adm' = adm /\ shutdown' = shutdown
      /\ pc[r] = "init"
      /\ xfer' = [xfer EXCEPT ![t] = x]
      /\ req' = [req EXCEPT ![r].idx = @ + n]
      /\ Goto(r, "queue")
  BY DEF TransferInit, listVars
<1>2. /\ req[r] \in Requests /\ req[r].tfer \in 0 .. MaxDesc - 1
      /\ req[r].idx \in Nat /\ req[r].cnt \in Nat /\ req[r].idx < req[r].cnt
  BY <1>1, SizesPositive DEF TypeOK, Requests, RequestShape, Shape
<1>3. n \in Nat /\ n > 0
  BY <1>2, Lemma_InitCount DEF TypeOK
<1>4. /\ pc'[r] = "queue" /\ \A q \in Calls \ {r} : pc'[q] = pc[q]
      /\ \A q \in Calls \ {r} : req'[q] = req[q]
      /\ req'[r] = [req[r] EXCEPT !.idx = @ + n]
  BY <1>1 DEF Goto, TypeOK
<1>5. req'[r].idx = req[r].idx + n /\ req'[r].tfer = req[r].tfer
  BY <1>2, <1>4 DEF Requests
<1>6. /\ t \in Xfers /\ t[1] = r /\ t[2] \in 0 .. MaxDesc - 1
      /\ t = <<r, IF r \in Sync THEN 0 ELSE req[r].tfer>>
  BY <1>2, Lemma_Current, Lemma_Xfers DEF Current
<1>7. xfer'[t] = x /\ \A u \in Xfers : u # t => xfer'[u] = xfer[u]
  BY <1>1, <1>6 DEF TypeOK
<1>8. ~ Queued(t) /\ xfer'[t].state = "NEW"
  <2>1. CASE r \in Sync
    <3>1. Blocking(r) /\ t = <<r, 0>> /\ 0 \in 0 .. MaxDesc - 1
      BY <1>6, <2>1, Lemma_Zero DEF Sound
    <3> QED
      BY <1>1, <1>7, <3>1 DEF Blocking
  <2>2. CASE r \in Async
    <3>1. t = <<r, req[r].tfer>>
      BY <1>6, <2>2, CallsDisjoint
    <3>2. Queued(t) => req[r].tfer < req[r].tfer
      BY <1>1, <1>2, <2>2, <3>1 DEF Sound, Parted
    <3>3. ~ (req[r].tfer < req[r].tfer)
      BY <1>2, SizesPositive
    <3> QED
      BY <1>7, <3>2, <3>3
  <2> QED
    BY <2>1, <2>2 DEF Calls
<1>9. QueueWellFormed' /\ InOrder' /\ Steady'
  BY <1>1, <1>7, <1>8, Lemma_ListStays DEF Sound, Queued, Steady
<1>10. \A q \in Calls \ {r} : /\ Parted(q) => Parted(q)'
                              /\ Blocking(q) => Blocking(q)'
  BY <1>1, <1>4, <1>6, <1>7, Lemma_OtherCalls, Lemma_Xfers
<1>11. r \in Sync => Blocking(r)'
  BY <1>1, <1>4, <1>6, <1>7, <1>8, Lemma_Xfers DEF Sound, Blocking, Queued
<1>12. ASSUME r \in Async PROVE Parted(r)'
  <2>1. t = <<r, req[r].tfer>>
    BY <1>6, <1>12, CallsDisjoint
  <2>2. /\ xfer'[<<r, req'[r].tfer>>].num = n
        /\ xfer'[<<r, req'[r].tfer>>].off = req[r].idx
    BY <1>5, <1>7, <2>1
  <2>3. ASSUME NEW k \in 0 .. MaxDesc - 1, Queued(<<r, k>>)'
        PROVE  LET y == xfer'[<<r, k>>] IN
               y.num > 0 /\ y.off + y.num <= req[r].idx /\ k < req[r].tfer
    <3>1. <<r, k>> \in Xfers /\ <<r, k>> # t
      BY <1>8, <2>3, Lemma_Xfers DEF Queued
    <3>2. xfer'[<<r, k>>] = xfer[<<r, k>>] /\ Queued(<<r, k>>)
      BY <1>7, <2>3, <3>1 DEF Queued
    <3> QED
      BY <1>1, <1>12, <3>2 DEF Sound, Parted
  <2>4. \A k \in 0 .. MaxDesc - 1 : Queued(<<r, k>>)' =>
          LET y == xfer'[<<r, k>>] IN
          /\ y.num > 0 /\ y.off + y.num <= req'[r].idx
          /\ k < req'[r].tfer /\ y.off + y.num <= req[r].idx
    <3>1. ASSUME NEW k \in 0 .. MaxDesc - 1
          PROVE  xfer'[<<r, k>>].off + xfer'[<<r, k>>].num <= req[r].idx =>
                 xfer'[<<r, k>>].off + xfer'[<<r, k>>].num <= req[r].idx + n
      <4>1. xfer'[<<r, k>>].off \in Int /\ xfer'[<<r, k>>].num \in Int
        <5>1. CASE <<r, k>> = t
          BY <1>2, <1>3, <1>7, <5>1
        <5>2. CASE <<r, k>> # t
          <6>1. xfer[<<r, k>>] \in Transfers /\ xfer'[<<r, k>>] = xfer[<<r, k>>]
            BY <1>7, <5>2, Lemma_Xfers DEF TypeOK
          <6> QED
            BY <6>1, SizesPositive DEF Transfers
        <5> QED
          BY <5>1, <5>2
      <4> QED
        BY <1>2, <1>3, <4>1
    <3> QED
      BY <1>5, <2>3, <3>1
  <2> QED
    BY <1>2, <1>3, <1>5, <2>2, <2>4 DEF Parted
<1> QED
  BY <1>9, <1>10, <1>11, <1>12 DEF Sound, Calls

\* A refused call gives up a request of which nothing is queued: where a call
\* can be refused, none has parts that were queued before.
LEMMA Sound_Refuse ==
  ASSUME Undisturbed, TypeInv, Sound, NEW r \in Calls,
         pc[r] \in {"queue", "enqueue"}, offline \/ Closed, Refuse(r),
         list' = list, adm' = adm, shutdown' = shutdown
  PROVE  Sound'
<1> USE DEF TypeInv
<1>1. Async = {} /\ r \in Sync
  BY DEF Undisturbed, Sound, Steady, offline, Closed, Calls
<1>2. /\ \A k \in 0 .. MaxDesc - 1 : ~ Queued(<<r, k>>)
      /\ desc_lock = r /\ desc_lock' = None
  BY <1>1 DEF Sound, Blocking, Refuse
<1>3. PICK value : Return(r, value) /\ FreeReq(r, xfer)
  BY DEF Refuse
<1>4. /\ \A t \in Xfers : t[1] # r => xfer'[t] = xfer[t]
      /\ \A t \in Xfers : t[1] = r => xfer'[t] = NoXfer /\ ~ Queued(t)
  BY <1>2, <1>3, Lemma_FreedRow, Lemma_Xfers
<1>5. \A t \in Xfers : t[1] = r => ~ Queued(t)'
  BY <1>4 DEF Queued, NoXfer
<1>6. QueueWellFormed' /\ InOrder' /\ Steady'
  <2>1. \A t \in Xfers : Queued(t)' <=> Queued(t)
    BY <1>4, <1>5 DEF Queued
  <2>2. \A t \in Xfers : Queued(t) =>
          xfer'[t].off = xfer[t].off /\ xfer'[t].num = xfer[t].num
    BY <1>4
  <2> QED
    BY <2>1, <2>2, Lemma_ListStays DEF Sound, Steady
<1>7. \A q \in Calls \ {r} : Blocking(q) => Blocking(q)'
  <2>1. ASSUME NEW q \in Calls \ {r} PROVE Blocking(q) => Blocking(q)'
    <3>1. pc'[q] = pc[q] /\ req'[q] = req[q]
      BY <1>3 DEF Return, FreeReq, TypeOK
    <3>2. \A k \in 0 .. MaxDesc - 1 : xfer'[<<q, k>>] = xfer[<<q, k>>]
      BY <1>4, Lemma_Xfers
    <3> QED
      BY <1>2, <3>1, <3>2, Lemma_OtherCalls
  <2> QED
    BY <2>1
<1>8. Blocking(r)'
  BY <1>3, Lemma_Freed
<1> QED
  BY <1>1, <1>6, <1>7, <1>8 DEF Sound, Calls

\* A call that meets the device offline is refused, or goes on.
LEMMA Sound_CheckOffline ==
  ASSUME Undisturbed, TypeInv, Sound, NEW r \in Calls, CheckOffline(r)
  PROVE  Sound'
<1> USE DEF TypeInv
<1>1. CASE offline
  BY <1>1, Sound_Refuse DEF CheckOffline, listVars
<1>2. CASE ~ offline
  <2>1. /\ xfer' = xfer /\ list' = list /\ req' = req /\ desc_lock' = desc_lock
        /\ adm' = adm /\ shutdown' = shutdown
        /\ pc[r] = "queue" /\ Goto(r, "enqueue")
    BY <1>2 DEF CheckOffline, listVars
  <2>2. QueueWellFormed' /\ InOrder' /\ Steady'
    BY <2>1, Lemma_ListStays DEF Sound, Queued, Steady
  <2>3. pc'[r] = "enqueue" /\ \A q \in Calls \ {r} : pc'[q] = pc[q]
    BY <2>1 DEF Goto, TypeOK
  <2>4. \A q \in Calls \ {r} : /\ Parted(q) => Parted(q)'
                               /\ Blocking(q) => Blocking(q)'
    BY <2>1, <2>3, Lemma_OtherCalls
  <2>5. /\ Parted(r) => Parted(r)'
        /\ Blocking(r) => Blocking(r)'
    BY <2>1, <2>3 DEF Parted, Blocking, Queued
  <2> QED
    BY <2>2, <2>4, <2>5 DEF Sound, Calls
<1> QED
  BY <1>1, <1>2

\* So is one that the engine refuses.
LEMMA Sound_QueueRefused ==
  ASSUME Undisturbed, TypeInv, Sound, NEW r \in Calls, QueueRefused(r)
  PROVE  Sound'
BY Sound_Refuse DEF QueueRefused, listVars

\* What is appended follows all that is queued of its request.
LEMMA Sound_TransferQueue ==
  ASSUME TypeInv, Sound, NEW r \in Calls, TransferQueue(r)
  PROVE  Sound'
<1> USE DEF TypeInv
<1> DEFINE t == Current(r)
<1>1. /\ pc[r] = "enqueue" /\ desc_lock' = desc_lock /\ adm' = adm
      /\ xfer' = [xfer EXCEPT ![t].state = "SUBMITTED"]
      /\ list' = Append(list, t)
      /\ shutdown' = shutdown \/ shutdown' = FALSE
      /\ Goto(r, IF r \in Sync THEN "wait"
                 ELSE IF req[r].idx < req[r].cnt THEN "init" ELSE "flight")
      /\ req' = IF r \in Async /\ req[r].idx < req[r].cnt
                THEN [req EXCEPT ![r].tfer = @ + 1] ELSE req
  BY DEF TransferQueue, AddTail, engine_start
<1>2. /\ req[r] \in Requests /\ req[r].tfer \in 0 .. MaxDesc - 1
      /\ req[r].tfer \in Nat
  BY SizesPositive DEF TypeOK, Requests
<1>3. /\ t \in Xfers /\ t[1] = r /\ t[2] \in 0 .. MaxDesc - 1
      /\ t = <<r, IF r \in Sync THEN 0 ELSE req[r].tfer>>
  BY <1>2, Lemma_Current, Lemma_Xfers DEF Current
<1>4. /\ xfer[t] \in Transfers /\ xfer'[t] = [xfer[t] EXCEPT !.state = "SUBMITTED"]
      /\ \A u \in Xfers : u # t => xfer'[u] = xfer[u]
  BY <1>1, <1>3 DEF TypeOK
<1>5. /\ xfer'[t].state = "SUBMITTED"
      /\ xfer'[t].off = xfer[t].off /\ xfer'[t].num = xfer[t].num
  BY <1>4 DEF Transfers
<1>6. ASSUME r \in Async
      PROVE  /\ t = <<r, req[r].tfer>>
             /\ \A k \in 0 .. MaxDesc - 1 : Queued(<<r, k>>) =>
                  /\ k < req[r].tfer
                  /\ xfer[<<r, k>>].off + xfer[<<r, k>>].num <= xfer[t].off
             /\ xfer[t].num > 0 /\ xfer[t].off + xfer[t].num = req[r].idx
  BY <1>1, <1>3, <1>6, CallsDisjoint DEF Sound, Parted
<1>7. ~ Queued(t)
  <2>1. CASE r \in Sync
    BY <1>1, <1>3, <2>1 DEF Sound, Blocking
  <2>2. CASE r \in Async
    BY <1>2, <1>6, <2>2
  <2> QED
    BY <2>1, <2>2 DEF Calls
<1>8. QueueWellFormed' /\ InOrder' /\ Steady'
  <2>1. \A u \in Xfers : Queued(u)' <=> Queued(u) \/ u = t
    BY <1>4, <1>5 DEF Queued
  <2>2. \A u \in Xfers : xfer'[u].off = xfer[u].off /\ xfer'[u].num = xfer[u].num
    BY <1>4, <1>5
  <2>3. ASSUME NEW u \in Xfers, Queued(u) PROVE Precedes(u, t)
    <3>1. SUFFICES ASSUME u[1] = r, r \in Async
                   PROVE  xfer[u].off + xfer[u].num <= xfer[t].off
      BY <1>3 DEF Precedes
    <3>2. u = <<r, u[2]>> /\ u[2] \in 0 .. MaxDesc - 1
      BY <3>1, Lemma_Xfers
    <3> QED
      BY <1>6, <2>3, <3>1, <3>2
  <2> QED
    BY <1>1, <1>3, <1>7, <2>1, <2>2, <2>3, Lemma_ListAppend DEF Sound, Steady
<1>9. /\ \A q \in Calls \ {r} : pc'[q] = pc[q] /\ req'[q] = req[q]
      /\ pc'[r] = IF r \in Sync THEN "wait"
                  ELSE IF req[r].idx < req[r].cnt THEN "init" ELSE "flight"
  BY <1>1 DEF Goto, TypeOK
<1>10. \A q \in Calls \ {r} : /\ Parted(q) => Parted(q)'
                              /\ Blocking(q) => Blocking(q)'
  BY <1>1, <1>3, <1>4, <1>9, Lemma_OtherCalls, Lemma_Xfers
<1>11. ASSUME r \in Sync PROVE Blocking(r)'
  <2>1. pc'[r] = "wait" /\ desc_lock' = r
    BY <1>1, <1>9, <1>11 DEF Sound, Blocking
  <2>2. ASSUME NEW k \in 0 .. MaxDesc - 1, k # 0 PROVE ~ Queued(<<r, k>>)'
    <3>1. <<r, k>> \in Xfers /\ <<r, k>> # t /\ ~ Queued(<<r, k>>)
      BY <1>3, <1>11, <2>2, Lemma_Xfers DEF Sound, Blocking
    <3> QED
      BY <1>4, <3>1 DEF Queued
  <2> QED
    BY <2>1, <2>2 DEF Blocking
<1>12. ASSUME r \in Async PROVE Parted(r)'
  <2>1. r \notin Sync
    BY <1>12, CallsDisjoint
  <2>2. /\ pc'[r] \in {"init", "flight"}
        /\ req'[r].idx = req[r].idx
        /\ pc'[r] = "init" => req'[r].tfer = req[r].tfer + 1
    BY <1>1, <1>2, <1>9, <1>12, <2>1 DEF Requests, TypeOK
  <2>3. ASSUME NEW k \in 0 .. MaxDesc - 1, Queued(<<r, k>>)'
        PROVE  /\ xfer'[<<r, k>>].num > 0
               /\ xfer'[<<r, k>>].off + xfer'[<<r, k>>].num <= req[r].idx
               /\ k <= req[r].tfer
    <3>1. CASE <<r, k>> = t
      <4>1. k = req[r].tfer
        BY <1>6, <1>12, <3>1
      <4>2. req[r].idx <= req[r].idx
        BY <1>2, SizesPositive DEF Requests
      <4> QED
        BY <1>2, <1>5, <1>6, <1>12, <3>1, <4>1, <4>2
    <3>2. CASE <<r, k>> # t
      <4>1. xfer'[<<r, k>>] = xfer[<<r, k>>]
        BY <1>4, <3>2, Lemma_Xfers
      <4>2. Queued(<<r, k>>)
        BY <2>3, <4>1 DEF Queued
      <4>3. k < req[r].tfer
        BY <1>6, <1>12, <4>2
      <4> QED
        <5>1. Parted(r)
          BY <1>12 DEF Sound
        <5>2. /\ xfer[<<r, k>>].num > 0
              /\ xfer[<<r, k>>].off + xfer[<<r, k>>].num <= req[r].idx
          BY <4>2, <5>1 DEF Parted
        <5>3. k <= req[r].tfer
          BY <1>2, <4>3, SizesPositive
        <5> QED
          BY <4>1, <5>2, <5>3
    <3> QED
      BY <3>1, <3>2
  <2>4. \A k \in 0 .. MaxDesc - 1 : k <= req[r].tfer => k < req[r].tfer + 1
    BY <1>2, SizesPositive
  <2> QED
    BY <2>2, <2>3, <2>4 DEF Parted
<1> QED
  BY <1>8, <1>10, <1>11, <1>12 DEF Sound, Calls

\* The transfer a wait has ended for is off the list.
LEMMA Sound_SyncDone ==
  ASSUME TypeInv, Sound, NEW r \in Sync, SyncDone(r)
  PROVE  Sound'
<1> USE DEF TypeInv
<1>1. /\ r \in Calls /\ r \notin Async
      /\ list' = list /\ adm' = adm /\ shutdown' = shutdown
      /\ pc[r] = "wait" /\ desc_lock = r
      /\ \A k \in 0 .. MaxDesc - 1 : ~ Queued(<<r, k>>)
  BY CallsDisjoint DEF SyncDone, listVars, Calls, Sound, Blocking, Queued
<1>2. CASE Goto(r, "init") /\ UNCHANGED <<req, xfer, moved, desc_lock>>
  <2>1. QueueWellFormed' /\ InOrder' /\ Steady'
    BY <1>1, <1>2, Lemma_ListStays DEF Sound, Queued, Steady
  <2>2. pc'[r] = "init" /\ \A q \in Calls \ {r} : pc'[q] = pc[q]
    BY <1>1, <1>2 DEF Goto, TypeOK
  <2>3. \A q \in Calls \ {r} : /\ Parted(q) => Parted(q)'
                               /\ Blocking(q) => Blocking(q)'
    BY <1>2, <2>2, Lemma_OtherCalls
  <2>4. Blocking(r)'
    BY <1>1, <1>2, <2>2 DEF Blocking, Queued
  <2> QED
    BY <1>1, <2>1, <2>3, <2>4 DEF Sound, Calls
<1>3. CASE Return(r, SyncResult(xfer[<<r, 0>>])) /\ FreeReq(r, xfer) /\ desc_lock' = None
  <2>1. /\ \A t \in Xfers : t[1] # r => xfer'[t] = xfer[t]
        /\ \A t \in Xfers : t[1] = r => xfer'[t] = NoXfer /\ ~ Queued(t)
    BY <1>1, <1>3, Lemma_FreedRow, Lemma_Xfers
  <2>2. \A t \in Xfers : Queued(t)' <=> Queued(t)
    BY <2>1 DEF Queued, NoXfer
  <2>3. QueueWellFormed' /\ InOrder' /\ Steady'
    BY <1>1, <2>1, <2>2, Lemma_ListStays DEF Sound, Steady
  <2>4. \A q \in Calls \ {r} : pc'[q] = pc[q] /\ req'[q] = req[q]
    BY <1>1, <1>3 DEF Return, FreeReq, TypeOK
  <2>5. \A q \in Calls \ {r} : /\ Parted(q) => Parted(q)'
                               /\ Blocking(q) => Blocking(q)'
    BY <1>1, <2>1, <2>4, Lemma_OtherCalls, Lemma_Xfers
  <2>6. Blocking(r)'
    BY <1>1, <1>3, Lemma_Freed
  <2> QED
    BY <1>1, <2>3, <2>5, <2>6 DEF Sound, Calls
<1> QED
  BY <1>2, <1>3 DEF SyncDone

\* Without asynchronous calls the list has the transfer of the call that holds
\* the lock, or nothing: a transfer that is aborted is its head.
LEMMA Sound_SyncAbort ==
  ASSUME Undisturbed, TypeInv, Sound, NEW r \in Sync, SyncAbort(r)
  PROVE  Sound' /\ list # << >> /\ list' = Tail(list)
<1> USE DEF TypeInv
<1> DEFINE t == <<r, 0>>
<1>1. /\ r \in Calls /\ t \in Xfers /\ t[1] = r /\ Async = {}
      /\ adm' = adm /\ shutdown' = shutdown /\ desc_lock' = None
      /\ pc[r] = "wait" /\ desc_lock = r /\ Queued(t)
      /\ list' = ListWithout(t) /\ FreeReq(r, xfer)
  BY Lemma_Zero, Lemma_Xfers
     DEF SyncAbort, Calls, Sound, Blocking, Queued, Undisturbed
<1>2. PICK value : Return(r, value)
  BY DEF SyncAbort
<1>3. \A u \in Xfers : Queued(u) => u = t
  <2>1. ASSUME NEW u \in Xfers, Queued(u) PROVE u = t
    <3>1. /\ u[1] \in Sync /\ u[2] \in 0 .. MaxDesc - 1 /\ u = <<u[1], u[2]>>
      BY <1>1, Lemma_Xfers DEF Calls
    <3>2. u[2] = 0 /\ pc[u[1]] = "wait" /\ desc_lock = u[1]
      BY <2>1, <3>1 DEF Sound, Blocking
    <3> QED
      BY <1>1, <3>1, <3>2
  <2> QED
    BY <2>1
<1>4. list # << >> /\ Head(list) = t /\ list' = Tail(list)
  <2>1. list \in Seq(Xfers) /\ t \in ToSet(list)
    BY <1>1, Lemma_Listed DEF Sound
  <2>2. list # << >>
    BY <2>1, ListEntries
  <2>3. Head(list) \in ToSet(list)
    BY <2>1, <2>2, ListTail
  <2>4. Head(list) = t
    BY <1>3, <2>3, Lemma_Listed DEF Sound
  <2> QED
    BY <1>1, <2>2, <2>4 DEF ListWithout
<1>5. /\ \A u \in Xfers : u[1] # r => xfer'[u] = xfer[u]
      /\ \A u \in Xfers : u[1] = r => xfer'[u] = NoXfer
  BY <1>1, Lemma_FreedRow
<1>6. \A u \in Xfers : ~ Queued(u)'
  BY <1>1, <1>3, <1>5 DEF Queued, NoXfer
<1>7. QueueWellFormed' /\ InOrder' /\ Steady'
  <2>1. \A u \in Xfers : Queued(u)' <=> Queued(u) /\ u # Head(list)
    BY <1>3, <1>4, <1>6
  <2>2. \A u \in Xfers : ~ (Queued(u) /\ u # Head(list))
    BY <1>3, <1>4
  <2> QED
    BY <1>1, <1>4, <2>1, <2>2, Lemma_ListTail DEF Sound, Steady
<1>8. \A q \in Calls \ {r} : pc'[q] = pc[q] /\ req'[q] = req[q]
  BY <1>1, <1>2 DEF Return, FreeReq, TypeOK
<1>9. \A q \in Calls \ {r} : Blocking(q) => Blocking(q)'
  BY <1>1, <1>5, <1>8, Lemma_OtherCalls, Lemma_Xfers
<1>10. Blocking(r)'
  BY <1>1, <1>2, Lemma_Freed
<1> QED
  BY <1>1, <1>4, <1>7, <1>9, <1>10 DEF Sound, Calls

\* The head of the list is finished: when it is the last of its request, none
\* of the request is on the list with it.
LEMMA Sound_Finish ==
  ASSUME TypeInv, Sound, list # << >>, list' = Tail(list),
         NEW state \in {"COMPLETED", "FAILED"}, Finish(Head(list), state),
         desc_lock' = desc_lock, Steady'
  PROVE  Sound'
<1> USE DEF TypeInv
<1>t. PICK t : t = Head(list)
  OBVIOUS
<1>a. PICK a : a = t[1]
  OBVIOUS
<1>x. PICK x : x = [xfer EXCEPT ![t].state = state]
  OBVIOUS
<1>f. Finish(t, state)
  BY <1>t
<1>1. /\ list \in Seq(Xfers) /\ IsInjective(list) /\ t = list[1]
      /\ t \in Xfers /\ Queued(t) /\ a \in Calls /\ t[2] \in 0 .. MaxDesc - 1
      /\ t = <<a, t[2]>> /\ Len(list) \in Nat \ {0}
  <2>1. list \in Seq(Xfers) /\ IsInjective(list)
    BY Lemma_Listed DEF Sound
  <2>2. t = list[1] /\ t \in ToSet(list) /\ Len(list) \in Nat \ {0}
    BY <1>t, <2>1, ListTail, ListEntries
  <2>3. t \in Xfers /\ Queued(t)
    BY <2>2, Lemma_Listed DEF Sound
  <2> QED
    BY <1>a, <2>1, <2>2, <2>3, Lemma_Xfers
<1>2. /\ \A u \in Xfers : u # t => x[u] = xfer[u]
      /\ x[t] = [xfer[t] EXCEPT !.state = state] /\ xfer[t] \in Transfers
  BY <1>1, <1>x DEF TypeOK
<1>3. x[t].state = state /\ x[t].off = xfer[t].off /\ x[t].num = xfer[t].num
  BY <1>2 DEF Transfers
<1>4. CASE ~ LastInRequest(t)
  <2>1. xfer' = x /\ pc' = pc /\ req' = req
    BY <1>4, <1>f, <1>x DEF Finish, callVars
  <2>2. \A u \in Xfers : Queued(u)' <=> Queued(u) /\ u # t
    BY <1>2, <1>3, <2>1 DEF Queued
  <2>3. \A u \in Xfers : xfer'[u].off = xfer[u].off /\ xfer'[u].num = xfer[u].num
    BY <1>2, <1>3, <2>1
  <2>4. QueueWellFormed' /\ InOrder'
    BY <1>t, <2>2, <2>3, Lemma_ListTail DEF Sound
  <2>5. \A q \in Calls, k \in 0 .. MaxDesc - 1 :
          /\ Queued(<<q, k>>)' => Queued(<<q, k>>)
          /\ xfer'[<<q, k>>].off = xfer[<<q, k>>].off
          /\ xfer'[<<q, k>>].num = xfer[<<q, k>>].num
    BY <2>2, <2>3, Lemma_Xfers
  <2>6. ASSUME NEW q \in Sync PROVE Blocking(q)'
    BY <2>1, <2>5 DEF Sound, Blocking, Calls
  <2>7. ASSUME NEW q \in Async PROVE Parted(q)'
    <3>1. q \in Calls /\ req[q].tfer \in 0 .. MaxDesc - 1 /\ Parted(q)
      BY DEF Calls, TypeOK, Requests, Sound
    <3> QED
      BY <2>1, <2>5, <3>1 DEF Parted
  <2> QED
    BY <2>4, <2>6, <2>7 DEF Sound
<1>5. CASE LastInRequest(t)
  <2>1. a \in Async /\ xfer[t].off + xfer[t].num = req[a].cnt
    BY <1>5, <1>a DEF LastInRequest
  <2>2. PICK value : Return(a, value) /\ FreeReq(a, x)
    BY <1>5, <1>a, <1>f, <1>x DEF Finish, IoDone
  <2>3. /\ \A u \in Xfers : u[1] # a => xfer'[u] = xfer[u]
        /\ \A u \in Xfers : u[1] = a => xfer'[u] = NoXfer
    <3>1. /\ \A u \in Xfers : u[1] # a => xfer'[u] = x[u]
          /\ \A u \in Xfers : u[1] = a => xfer'[u] = NoXfer
      BY <1>1, <2>2, Lemma_FreedRow
    <3> QED
      BY <1>2, <1>a, <3>1
  <2>4. req[a] \in Requests /\ req[a].idx <= req[a].cnt
    <3>1. req[a] \in Requests /\ pc[a] \in Places /\ Shape(pc[a], req[a])
      BY <1>1 DEF TypeOK, RequestShape
    <3> QED
      BY <3>1, SizesPositive DEF Shape, Places, Requests, NoReq
  <2>5. ASSUME NEW u \in Xfers, Queued(u), u[1] = a PROVE u = t
    <3>1. SUFFICES ASSUME u # t PROVE FALSE
      OBVIOUS
    <3>2. PICK i \in 1 .. Len(list) : list[i] = u
      BY <1>1, <2>5, Lemma_Listed, ListEntries DEF Sound
    <3>3. i \in 2 .. Len(list) /\ 1 \in 1 .. Len(list) /\ 1 < i
      BY <1>1, <3>1, <3>2
    <3>4. xfer[t].off + xfer[t].num <= xfer[u].off
      BY <1>1, <2>1, <2>5, <3>2, <3>3 DEF Sound, InOrder, Precedes
    <3>5. u = <<a, u[2]>> /\ u[2] \in 0 .. MaxDesc - 1
      BY <2>5, Lemma_Xfers
    <3>6. xfer[u].num > 0 /\ xfer[u].off + xfer[u].num <= req[a].idx
      BY <2>1, <2>5, <3>5 DEF Sound, Parted
    <3>7. xfer[u].off \in Int /\ xfer[u].num \in Int
      BY SizesPositive DEF TypeOK, Transfers
    <3>8. req[a].idx \in Int /\ req[a].cnt \in Int
      BY <2>4, SizesPositive DEF Requests
    <3> QED
      BY <2>1, <2>4, <3>4, <3>6, <3>7, <3>8
  <2>6. \A u \in Xfers : Queued(u)' <=> Queued(u) /\ u # t
    <3>1. \A u \in Xfers : u[1] = a => ~ Queued(u)'
      BY <2>3 DEF Queued, NoXfer
    <3>2. \A u \in Xfers : u[1] # a => (Queued(u)' <=> Queued(u)) /\ u # t
      BY <1>a, <2>3 DEF Queued
    <3> QED
      BY <2>5, <3>1, <3>2
  <2>7. \A u \in Xfers : Queued(u) /\ u # t =>
          xfer'[u].off = xfer[u].off /\ xfer'[u].num = xfer[u].num
    BY <2>3, <2>5
  <2>8. QueueWellFormed' /\ InOrder'
    BY <1>t, <2>6, <2>7, Lemma_ListTail DEF Sound
  <2>9. \A q \in Calls \ {a} : pc'[q] = pc[q] /\ req'[q] = req[q]
    BY <1>1, <2>2 DEF Return, FreeReq, TypeOK
  <2>10. \A q \in Calls \ {a} : /\ Parted(q) => Parted(q)'
                                /\ Blocking(q) => Blocking(q)'
    BY <2>3, <2>9, Lemma_OtherCalls, Lemma_Xfers
  <2>11. Blocking(a)' /\ Parted(a)'
    BY <1>1, <2>2, Lemma_Freed
  <2> QED
    BY <2>8, <2>10, <2>11 DEF Sound, Calls
<1> QED
  BY <1>4, <1>5

\* A step that is not a call's and finishes nothing.
LEMMA Sound_Elsewhere ==
  ASSUME TypeInv, Sound, UNCHANGED <<pc, req, xfer, list, desc_lock>>, Steady'
  PROVE  Sound'
<1>1. TypeOK /\ QueueWellFormed /\ InOrder
  BY DEF TypeInv, Sound
<1>2. QueueWellFormed' /\ InOrder'
  BY <1>1, Lemma_ListStays DEF Queued
<1>3. \A r \in Calls : /\ Parted(r) => Parted(r)'
                       /\ Blocking(r) => Blocking(r)'
  BY <1>1, Lemma_OtherCalls
<1> QED
  BY <1>2, <1>3 DEF Sound, Calls

\* The device stays online when it is never taken offline.
LEMMA Sound_Steady ==
  ASSUME Steady, [Next]_vars
  PROVE  Steady'
<1> USE DEF Steady, Online
<1>1. ASSUME NEW r \in Calls, Step(r) PROVE Steady'
  BY <1>1 DEF Step, Submit, TransferInit, Queue, CheckOffline, QueueRefused,
     TransferQueue, engine_start, listVars
<1>2. ASSUME NEW r \in Sync, SyncStep(r) PROVE Steady'
  BY <1>2 DEF SyncStep, LockDesc, SyncDone, SyncAbort, listVars
<1>3. CASE Hardware \/ ChannelIrq
  BY <1>3 DEF Hardware, HwStep, HwFault, HwHalt, ChannelIrq, listVars
<1>4. CASE Service
  BY <1>4 DEF Service, ServiceStatus, ServiceCount, ServiceTransferList,
     ServiceFinal, ServiceNothing, Resume, engine_start, listVars
<1>5. CASE Hotplug
  BY <1>5 DEF Hotplug, OfflineFlag, OfflineEngine, OfflineIrq, OnlineEngine,
     OnlineIrq, OnlineFlag, AdmStep
<1>6. CASE UNCHANGED vars
  BY <1>6 DEF vars, listVars
<1> QED
  BY <1>1, <1>2, <1>3, <1>4, <1>5, <1>6 DEF Next

\* What a step does to the list: nothing, or it is a step of the abstract
\* service.
LEMMA Lemma_SoundStep ==
  ASSUME Undisturbed, TypeInv, Sound, [Next]_vars
  PROVE  Sound' /\ [Fifo!Next]_list
<1>1. Steady'
  BY Sound_Steady DEF Sound
<1>2. ASSUME NEW r \in Calls, Step(r) PROVE Sound' /\ [Fifo!Next]_list
  <2>1. CASE Submit(r) \/ TransferInit(r) \/ CheckOffline(r) \/ QueueRefused(r)
    <3>1. Sound'
      BY <2>1, Sound_Submit, Sound_TransferInit, Sound_CheckOffline,
         Sound_QueueRefused
    <3>2. list' = list
      BY <2>1 DEF Submit, TransferInit, CheckOffline, QueueRefused, listVars
    <3> QED
      BY <3>1, <3>2
  <2>2. CASE TransferQueue(r)
    <3>1. Sound'
      BY <2>2, Sound_TransferQueue
    <3>2. list' = Append(list, Current(r)) /\ Current(r) \in Xfers
      BY <2>2, Lemma_Current DEF TransferQueue, AddTail, TypeInv
    <3>3. Current(r) \notin Range(list)
      <4>1. list \in Seq(Xfers) /\ list' \in Seq(Xfers) /\ IsInjective(list')
        BY <3>1, Lemma_Step DEF TypeInv, TypeOK, Sound, QueueWellFormed
      <4>2. /\ Len(list) \in Nat /\ DOMAIN list = 1 .. Len(list)
            /\ DOMAIN list' = 1 .. Len(list) + 1
            /\ list'[Len(list) + 1] = Current(r)
            /\ \A i \in 1 .. Len(list) : list'[i] = list[i]
        BY <3>2, <4>1
      <4>3. \A i \in 1 .. Len(list) :
              list[i] = Current(r) => i = Len(list) + 1
        BY <4>1, <4>2 DEF IsInjective
      <4> QED
        BY <4>2, <4>3 DEF Range
    <3> QED
      BY <3>1, <3>2, <3>3 DEF Fifo!Next, Fifo!Enqueue, Fifo!Range, Range
  <2> QED
    BY <1>2, <2>1, <2>2 DEF Step, Queue
<1>3. ASSUME NEW r \in Sync, SyncStep(r) PROVE Sound' /\ [Fifo!Next]_list
  <2>1. CASE LockDesc(r) \/ SyncDone(r)
    <3>1. Sound'
      BY <2>1, Sound_LockDesc, Sound_SyncDone
    <3>2. list' = list
      BY <2>1 DEF LockDesc, SyncDone, listVars
    <3> QED
      BY <3>1, <3>2
  <2>2. CASE SyncAbort(r)
    BY <2>2, Sound_SyncAbort DEF Fifo!Next, Fifo!Finish
  <2> QED
    BY <1>3, <2>1, <2>2 DEF SyncStep
<1>4. CASE Hardware \/ ChannelIrq \/ Hotplug
  <2>1. UNCHANGED <<pc, req, xfer, list, desc_lock>>
    BY <1>4 DEF Hardware, HwStep, HwFault, HwHalt, ChannelIrq, Hotplug,
       OfflineFlag, OfflineEngine, OfflineIrq, OnlineEngine, OnlineIrq,
       OnlineFlag, callVars, listVars
  <2> QED
    BY <1>1, <2>1, Sound_Elsewhere
<1>5. CASE ServiceStatus \/ ServiceCount \/ ServiceNothing
  <2>1. UNCHANGED <<pc, req, xfer, list, desc_lock>>
    BY <1>5 DEF ServiceStatus, ServiceCount, ServiceNothing, callVars, listVars
  <2> QED
    BY <1>1, <2>1, Sound_Elsewhere
<1>6. CASE ServiceTransferList
  <2>1. /\ list # << >> /\ list' = Tail(list) /\ desc_lock' = desc_lock
        /\ Finish(Head(list), "COMPLETED")
    BY <1>6 DEF ServiceTransferList
  <2> QED
    BY <1>1, <2>1, Sound_Finish DEF Fifo!Next, Fifo!Finish
<1>7. CASE ServiceFinal
  <2> DEFINE state == IF Whole(Head(list)) /\ ~ svc.err THEN "COMPLETED" ELSE "FAILED"
  <2>1. /\ list # << >> /\ list' = Tail(list) /\ desc_lock' = desc_lock
        /\ Finish(Head(list), state)
    BY <1>7 DEF ServiceFinal
  <2>2. state \in {"COMPLETED", "FAILED"}
    OBVIOUS
  <2> HIDE DEF state
  <2> QED
    BY <1>1, <2>1, <2>2, Sound_Finish DEF Fifo!Next, Fifo!Finish
<1>8. CASE UNCHANGED vars
  <2>1. UNCHANGED <<pc, req, xfer, list, desc_lock>>
    BY <1>8 DEF vars, callVars, listVars
  <2> QED
    BY <1>1, <2>1, Sound_Elsewhere
<1> QED
  BY <1>2, <1>3, <1>4, <1>5, <1>6, <1>7, <1>8 DEF Next, Service

\* At first no call is under way and the list is empty.
LEMMA Lemma_SoundInit == Init => Sound /\ Fifo!Init
<1> SUFFICES ASSUME Init PROVE Sound /\ Fifo!Init
  OBVIOUS
<1>1. /\ list = << >> /\ pc = [r \in Calls |-> "idle"]
      /\ xfer = [t \in Xfers |-> NoXfer] /\ adm = Online /\ shutdown = FALSE
  BY DEF Init
<1>2. \A t \in Xfers : ~ Queued(t)
  BY <1>1 DEF Queued, NoXfer
<1>3. QueueWellFormed
  <2>1. IsInjective(list) /\ Range(list) = {}
    BY <1>1 DEF IsInjective, Range
  <2> QED
    BY <1>2, <2>1 DEF QueueWellFormed
<1>4. InOrder /\ Steady
  BY <1>1 DEF InOrder, Steady
<1>5. \A r \in Calls : Blocking(r) /\ Parted(r)
  BY <1>1, <1>2, Lemma_Xfers DEF Blocking, Parted
<1> QED
  BY <1>1, <1>3, <1>4, <1>5 DEF Sound, Calls, Fifo!Init

\* The transfer list has each submitted transfer, once, and nothing else, for
\* every number of callers, every ring and every split of requests: no waiter
\* misses its transfer and the service never follows the list into a request
\* that was freed.
THEOREM ListSound ==
  ASSUME Undisturbed
  PROVE  Spec => []QueueWellFormed
<1>1. TypeInv /\ Sound /\ [Next]_vars => TypeInv' /\ Sound'
  BY Lemma_Step, Lemma_SoundStep
<1>2. Init => TypeInv /\ Sound
  BY Lemma_Init, Lemma_SoundInit
<1>3. TypeInv /\ Sound => QueueWellFormed
  BY DEF Sound
<1> QED
  BY <1>1, <1>2, <1>3, PTL DEF Spec

\* Every step of the engine is one of the abstract queue or leaves it alone:
\* transfers leave in the order they were queued in, each once.
THEOREM ServedInOrder ==
  ASSUME Undisturbed
  PROVE  Spec => FifoOrder
<1>1. TypeInv /\ Sound /\ [Next]_vars => TypeInv' /\ Sound'
  BY Lemma_Step, Lemma_SoundStep
<1>2. Init => TypeInv /\ Sound
  BY Lemma_Init, Lemma_SoundInit
<1>3. Init => Fifo!Init
  BY Lemma_SoundInit
<1>4. TypeInv /\ Sound /\ [Next]_vars => [Fifo!Next]_list
  BY Lemma_SoundStep
<1> QED
  BY <1>1, <1>2, <1>3, <1>4, PTL DEF Spec, FifoOrder
-----------------------------------------------------------------------------
(* The ring.  A descriptor stays as it was written while its transfer is     *)
(* queued, when the ring has room for every call at once.  Blocking calls    *)
(* have it one at a time.  Asynchronous ones take it in turns: what they     *)
(* hold is a window that ends at desc_idx, and they leave it in the order    *)
(* they entered it.                                                          *)

Roomy ==
  \/ Async = {}
  \/ /\ Sync = {} /\ IsFiniteSet(Async)
     /\ MaxDesc * Cardinality(Async) <= RingSize

\* The transfers that are queued, or about to be.
Held(t) ==
  Queued(t) \/ (pc[t[1]] \in {"queue", "enqueue"} /\ t = Current(t[1]))

\* The chain of a transfer, as transfer_init writes it.
Link(t, x, s) ==
  [t |-> t, i |-> s - x.first, stop |-> s = x.first + x.num - 1]
Chained(t) ==
  LET x == xfer[t] IN
  /\ x.num \in 1 .. MaxDesc /\ x.first + x.num <= RingSize
  /\ \A s \in SlotsOf(x) : ring[s] = Link(t, x, s)
Chain == \A t \in Xfers : Held(t) => Chained(t)

\* How far a slot lies before the index d, in the ring.
Back(d, s) == IF s < d THEN d - s ELSE d + RingSize - s

\* Where the descriptors of a request begin.
Reach(a) == Back(desc_idx, xfer[<<a, 0>>].first)

Building(a) == pc[a] \in {"init", "queue", "enqueue"}
Flying(a) == pc[a] = "flight"

\* The parts of a request lie one after the other.
Laid(a) ==
  /\ pc[a] \notin {"lock", "wait"}
  /\ \A k \in 0 .. MaxDesc - 1 : xfer[<<a, k>>].num > 0 =>
       LET x == xfer[<<a, k>>] IN
       /\ x.first + x.num <= RingSize /\ x.off + x.num <= req[a].idx
       /\ Back(desc_idx, x.first) = Reach(a) - x.off
  /\ req[a].idx > 0 =>
       /\ xfer[<<a, 0>>].num > 0 /\ xfer[<<a, 0>>].off = 0
       /\ req[a].idx <= Reach(a)
  /\ Building(a) /\ req[a].idx > 0 => Reach(a) = req[a].idx

\* They have been taken in order.
Numbered(a) ==
  \A k \in 0 .. MaxDesc - 1 : xfer[<<a, k>>].num > 0 =>
    /\ pc[a] = "init" => k < req[a].tfer
    /\ pc[a] \in {"queue", "enqueue"} => k <= req[a].tfer

\* A request that was queued has its last part on the list.
Ending(a) == \E k \in 0 .. MaxDesc - 1 :
  Queued(<<a, k>>) /\ xfer[<<a, k>>].off + xfer[<<a, k>>].num = req[a].cnt

\* The requests lie one after the other, the one that is built last.
Newest(c) == \A a \in Async : Flying(a) => Reach(a) - req[a].idx >= req[c].idx
Before(a, b) == Reach(a) - req[a].idx >= Reach(b)
Apart ==
  /\ \A a, c \in Async : Building(a) /\ Building(c) => a = c
  /\ \A c \in Async : Building(c) => Newest(c)
  /\ \A a, b \in Async :
       a # b /\ Flying(a) /\ Flying(b) => Before(a, b) \/ Before(b, a)

\* They leave in the order they came in.
Aged ==
  \A i, j \in 1 .. Len(list) :
    i < j /\ list[i][1] # list[j][1] /\ list[i][1] \in Async /\ list[j][1] \in Async =>
      Reach(list[j][1]) < Reach(list[i][1])

\* Each takes no more than the largest request, counted from the last.
Rank(a) == {b \in Async : Flying(b) /\ Reach(b) <= Reach(a)}
Room(a) == MaxDesc * Cardinality(Rank(a))
Filled(a) ==
  /\ \A c \in Async : Building(c) => Reach(a) <= Room(a) + req[c].idx
  /\ (\A c \in Async : ~ Building(c)) => Reach(a) <= Room(a)

Window ==
  /\ Apart /\ Aged
  /\ \A a \in Async : Laid(a) /\ Numbered(a)
  /\ \A a \in Async : Flying(a) => Ending(a) /\ Filled(a)

RingInv == TypeInv /\ Sound /\ Chain /\ Window

\* The index moves past the descriptors that were taken; everything else is as
\* much farther back, and was no farther than the rest of the ring.
LEMMA Lemma_NextIndex ==
  ASSUME NEW d \in Slots, NEW n \in Nat \ {0}, d + n <= RingSize
  PROVE  (d + n) % RingSize = IF d + n = RingSize THEN 0 ELSE d + n
<1>1. RingSize \in Nat \ {0} /\ d \in Nat
  BY SizesPositive DEF Slots
<1>2. \A x \in Nat : x < RingSize => x % RingSize = x
  BY <1>1
<1>3. RingSize % RingSize = 0
  BY <1>1
<1> QED
  BY <1>1, <1>2, <1>3

\* How far back places of the ring are after it was advanced by n.
LEMMA Lemma_Back ==
  ASSUME NEW d \in Slots, NEW s \in Slots, NEW n \in Nat \ {0},
         d + n <= RingSize, NEW e, e = (d + n) % RingSize
  PROVE  /\ Back(d, s) \in 1 .. RingSize
         /\ s \in d .. d + n - 1 =>
              Back(e, s) = n - (s - d) /\ Back(d, s) > RingSize - n
         /\ s \notin d .. d + n - 1 =>
              Back(e, s) = Back(d, s) + n /\ Back(d, s) <= RingSize - n
<1>1. RingSize \in Nat \ {0} /\ d \in 0 .. RingSize - 1 /\ s \in 0 .. RingSize - 1
  BY SizesPositive DEF Slots
<1>2. e = IF d + n = RingSize THEN 0 ELSE d + n
  BY Lemma_NextIndex
<1> QED
  BY <1>1, <1>2 DEF Back

\* Slots one after the other.
LEMMA Lemma_BackNext ==
  ASSUME NEW d \in Slots, NEW f \in Slots, NEW i \in Nat, f + i < RingSize,
         i < Back(d, f)
  PROVE  f + i \in Slots /\ Back(d, f + i) = Back(d, f) - i
BY SizesPositive DEF Back, Slots

\* The slots of a part lie in the stretch of its request.
LEMMA Lemma_Stretch ==
  ASSUME TypeOK, NEW a \in Async, Laid(a), NEW k \in 0 .. MaxDesc - 1,
         NEW s \in SlotsOf(xfer[<<a, k>>])
  PROVE  /\ s \in Slots /\ Reach(a) \in 1 .. RingSize
         /\ Back(desc_idx, s) <= Reach(a)
         /\ Back(desc_idx, s) > Reach(a) - req[a].idx
         /\ req[a].idx > 0
<1> DEFINE x == xfer[<<a, k>>]
<1>1. /\ a \in Calls /\ x \in Transfers /\ xfer[<<a, 0>>].first \in Slots
      /\ req[a].idx \in Nat /\ desc_idx \in Slots
  BY Lemma_Xfers, Lemma_Zero, SizesPositive DEF TypeOK, Calls, Transfers, Requests
<1>2. /\ x.first \in Slots /\ x.first \in Nat /\ x.num \in Nat /\ x.off \in Nat
      /\ RingSize \in Nat \ {0}
  BY <1>1, SizesPositive DEF Transfers, Slots
<1>3. s \in x.first .. x.first + x.num - 1
  BY DEF SlotsOf
<1>4. x.num > 0
  BY <1>2, <1>3
<1>5. Reach(a) \in 1 .. RingSize
  BY <1>1, <1>2 DEF Reach, Back, Slots
<1>6. /\ x.first + x.num <= RingSize /\ x.off + x.num <= req[a].idx
      /\ Back(desc_idx, x.first) = Reach(a) - x.off
      /\ req[a].idx > 0 => req[a].idx <= Reach(a)
  BY <1>4 DEF Laid
<1>7. PICK i \in Nat : s = x.first + i /\ i < x.num
  <2>1. s - x.first \in Nat /\ s = x.first + (s - x.first) /\ s - x.first < x.num
    BY <1>2, <1>3
  <2> QED
    BY <2>1
<1>8. req[a].idx > 0
  BY <1>1, <1>2, <1>4, <1>6
<1>9. x.first + i < RingSize /\ i < Back(desc_idx, x.first)
  BY <1>1, <1>2, <1>4, <1>5, <1>6, <1>7, <1>8
<1>10. s \in Slots /\ Back(desc_idx, s) = Reach(a) - x.off - i
  BY <1>1, <1>2, <1>6, <1>7, <1>9, Lemma_BackNext
<1> QED
  BY <1>1, <1>2, <1>5, <1>6, <1>7, <1>8, <1>10

\* Two requests have no slot in common.
LEMMA Lemma_Disjoint ==
  ASSUME TypeOK, NEW a \in Async, NEW b \in Async, a # b, Laid(a), Laid(b), Apart,
         Flying(a), Flying(b) \/ Building(b),
         NEW k \in 0 .. MaxDesc - 1, NEW s \in SlotsOf(xfer[<<a, k>>]),
         NEW j \in 0 .. MaxDesc - 1
  PROVE  s \notin SlotsOf(xfer[<<b, j>>])
<1> SUFFICES ASSUME s \in SlotsOf(xfer[<<b, j>>]) PROVE FALSE
  OBVIOUS
<1>0. req[a].idx \in Nat /\ req[b].idx \in Nat /\ 1 .. RingSize \subseteq Nat
  BY SizesPositive DEF TypeOK, Requests, Calls
<1>1. /\ s \in Slots /\ Reach(a) \in Nat /\ req[a].idx \in Nat
      /\ Back(desc_idx, s) <= Reach(a)
      /\ Back(desc_idx, s) > Reach(a) - req[a].idx
  BY <1>0, Lemma_Stretch
<1>2. /\ Reach(b) \in Nat /\ req[b].idx \in Nat /\ req[b].idx > 0
      /\ Back(desc_idx, s) <= Reach(b)
      /\ Back(desc_idx, s) > Reach(b) - req[b].idx
  BY <1>0, Lemma_Stretch
<1>3. Back(desc_idx, s) \in Int
  BY <1>1, SizesPositive DEF TypeOK, Slots, Back
<1>4. CASE Flying(b)
  BY <1>1, <1>2, <1>3, <1>4 DEF Apart, Before
<1>5. CASE Building(b)
  <2>1. Reach(b) = req[b].idx /\ Reach(a) - req[a].idx >= req[b].idx
    BY <1>2, <1>5 DEF Apart, Newest, Laid
  <2> QED
    BY <1>1, <1>2, <1>3, <2>1
<1> QED
  BY <1>4, <1>5

\* What transfer_init does.
Takes(r, t, n) ==
  /\ t = Current(r) /\ t[1] = r /\ n <= req[r].cnt - req[r].idx
  /\ r \in Async => r \notin Sync /\ t = <<r, req[r].tfer>>
  /\ desc_idx \in Slots /\ desc_idx + n <= RingSize
  /\ desc_idx' = (desc_idx + n) % RingSize
  /\ pc[r] = "init" /\ pc'[r] = "queue"
  /\ \A q \in Calls \ {r} : pc'[q] = pc[q] /\ req'[q] = req[q]
  /\ req'[r].idx = req[r].idx + n /\ req'[r].tfer = req[r].tfer
  /\ req'[r].cnt = req[r].cnt
  /\ xfer'[t] = [state |-> "NEW", first |-> desc_idx, num |-> n,
                 off |-> req[r].idx]
  /\ \A u \in Xfers : u # t => xfer'[u] = xfer[u]
  /\ moved'[t] = {} /\ \A u \in Xfers : u # t => moved'[u] = moved[u]
  /\ \A s \in Slots : s \notin desc_idx .. desc_idx + n - 1 =>
       ring'[s] = ring[s]
  /\ \A s \in desc_idx .. desc_idx + n - 1 :
       ring'[s] = [t |-> t, i |-> s - desc_idx,
                   stop |-> s = desc_idx + n - 1]

\* What the construction of a transfer takes from the ring.
LEMMA Lemma_InitFacts ==
  ASSUME TypeInv, NEW r \in Calls, TransferInit(r)
  PROVE  \E t \in Xfers : \E n \in Nat \ {0} : Takes(r, t, n)
<1> USE DEF TypeInv
<1>t. PICK t : t = Current(r)
  OBVIOUS
<1>n. PICK n : n = InitCount(req[r].cnt - req[r].idx)
  OBVIOUS
<1>1. /\ pc[r] = "init"
      /\ xfer' = [xfer EXCEPT ![t] = [state |-> "NEW", first |-> desc_idx,
                                      num |-> n, off |-> req[r].idx]]
      /\ moved' = [moved EXCEPT ![t] = {}]
      /\ ring' = [s \in Slots |->
                    IF s \in desc_idx .. desc_idx + n - 1
                    THEN [t |-> t, i |-> s - desc_idx,
                          stop |-> s = desc_idx + n - 1]
                    ELSE ring[s]]
      /\ desc_idx' = (desc_idx + n) % RingSize
      /\ req' = [req EXCEPT ![r].idx = @ + n]
      /\ Goto(r, "queue")
  BY <1>t, <1>n DEF TransferInit, DescIdxAfter
<1>2. /\ req[r] \in Requests /\ req[r].tfer \in 0 .. MaxDesc - 1
      /\ req[r].idx \in Nat /\ req[r].cnt \in Nat /\ req[r].idx < req[r].cnt
      /\ desc_idx \in Slots
  BY <1>1, SizesPositive DEF TypeOK, Requests, RequestShape, Shape
<1>3. n \in 1 .. (req[r].cnt - req[r].idx) /\ desc_idx + n <= RingSize
  <2>1. req[r].cnt - req[r].idx \in Nat \ {0}
    BY <1>2
  <2> QED
    BY <1>n, <1>2, <2>1, Lemma_InitCount
<1>4. n \in Nat \ {0} /\ n <= req[r].cnt - req[r].idx
  BY <1>2, <1>3
<1>5. /\ t \in Xfers /\ t[1] = r
      /\ r \in Async => r \notin Sync /\ t = <<r, req[r].tfer>>
  BY <1>t, Lemma_Current, Lemma_Xfers, CallsDisjoint DEF Current
<1>6. /\ pc'[r] = "queue"
      /\ \A q \in Calls \ {r} : pc'[q] = pc[q] /\ req'[q] = req[q]
      /\ req'[r] = [req[r] EXCEPT !.idx = @ + n]
  BY <1>1 DEF Goto, TypeOK
<1>7. /\ req'[r].idx = req[r].idx + n /\ req'[r].tfer = req[r].tfer
      /\ req'[r].cnt = req[r].cnt
  BY <1>2, <1>6 DEF Requests
<1>8. /\ xfer'[t] = [state |-> "NEW", first |-> desc_idx, num |-> n,
                     off |-> req[r].idx]
      /\ \A u \in Xfers : u # t => xfer'[u] = xfer[u]
      /\ moved'[t] = {} /\ \A u \in Xfers : u # t => moved'[u] = moved[u]
  BY <1>1, <1>5 DEF TypeOK
<1>9. /\ \A s \in Slots : s \notin desc_idx .. desc_idx + n - 1 =>
           ring'[s] = ring[s]
      /\ \A s \in desc_idx .. desc_idx + n - 1 : s \in Slots
  BY <1>1, <1>2, <1>3, SizesPositive DEF Slots
<1>10. \A s \in desc_idx .. desc_idx + n - 1 :
         ring'[s] = [t |-> t, i |-> s - desc_idx, stop |-> s = desc_idx + n - 1]
  BY <1>1, <1>9
<1> QED
  BY <1>1, <1>2, <1>3, <1>4, <1>5, <1>6, <1>7, <1>8, <1>9, <1>10, <1>t DEF Takes

\* As many requests as there are other calls leave room for one.
LEMMA Lemma_Times ==
  /\ \A n \in Nat : MaxDesc * (n + 1) = MaxDesc * n + MaxDesc
  /\ \A n, m \in Nat : n <= m => MaxDesc * n <= MaxDesc * m
  /\ \A n \in Nat : MaxDesc * n \in Nat
BY SizesPositive

\* There is room for one call more, each with as many descriptors as it may
\* take.
LEMMA Lemma_Room ==
  ASSUME IsFiniteSet(Async), MaxDesc * Cardinality(Async) <= RingSize,
         NEW c \in Async, NEW S \in SUBSET Async, c \notin S
  PROVE  /\ IsFiniteSet(S) /\ Cardinality(S) \in Nat
         /\ IsFiniteSet(S \cup {c})
         /\ Cardinality(S \cup {c}) = Cardinality(S) + 1
         /\ MaxDesc * Cardinality(S) + MaxDesc <= RingSize
<1>1. IsFiniteSet(S) /\ Cardinality(S) \in Nat
  BY FS_Subset, FS_CardinalityType
<1>2. /\ IsFiniteSet(S \cup {c})
      /\ Cardinality(S \cup {c}) = Cardinality(S) + 1
  BY <1>1, FS_AddElement
<1>3. S \cup {c} \subseteq Async
  OBVIOUS
<1>4. /\ Cardinality(Async) \in Nat
      /\ Cardinality(S \cup {c}) <= Cardinality(Async)
  BY <1>3, FS_Subset, FS_CardinalityType
<1>5. MaxDesc * (Cardinality(S) + 1) <= MaxDesc * Cardinality(Async)
  BY <1>1, <1>2, <1>4, Lemma_Times
<1>6. MaxDesc * (Cardinality(S) + 1) = MaxDesc * Cardinality(S) + MaxDesc
  BY <1>1, Lemma_Times
<1>7. MaxDesc * Cardinality(S) \in Nat /\ MaxDesc * Cardinality(Async) \in Nat
  BY <1>1, <1>4, Lemma_Times
<1> QED
  BY <1>1, <1>2, <1>5, <1>6, <1>7, SizesPositive

\* An asynchronous call with a part on the list is being queued, or is.
LEMMA Lemma_HeldCalls ==
  ASSUME TypeInv, Sound, NEW u \in Xfers, Held(u), u[1] \in Async, Laid(u[1])
  PROVE  Building(u[1]) \/ Flying(u[1])
<1> USE DEF TypeInv
<1>1. PICK a, k : a = u[1] /\ k = u[2]
  OBVIOUS
<1>2. /\ a \in Async /\ a \in Calls /\ k \in 0 .. MaxDesc - 1 /\ u = <<a, k>>
      /\ pc[a] \in Places
  BY <1>1, Lemma_Xfers DEF TypeOK
<1>3. CASE pc[a] \in {"queue", "enqueue"}
  BY <1>1, <1>3 DEF Building
<1>4. CASE Queued(u) /\ pc[a] = "idle"
  <2>1. req[a].idx = 0 /\ Parted(a) /\ xfer[<<a, k>>] \in Transfers
    BY <1>2, <1>4, Lemma_Xfers DEF RequestShape, Shape, NoReq, Sound, TypeOK
  <2>2. xfer[<<a, k>>].num > 0 /\ xfer[<<a, k>>].off + xfer[<<a, k>>].num <= 0
    BY <1>2, <1>4, <2>1 DEF Parted
  <2> QED
    BY <2>1, <2>2, SizesPositive DEF Transfers
<1>5. pc[a] \notin {"lock", "wait"}
  BY <1>1 DEF Laid
<1>6. Held(u) => Queued(u) \/ pc[a] \in {"queue", "enqueue"}
  BY <1>1 DEF Held
<1> QED
  BY <1>1, <1>2, <1>3, <1>4, <1>5, <1>6 DEF Building, Flying, Places

\* There is room for what a call takes next beside what others hold.
LEMMA Lemma_Fits ==
  ASSUME Roomy, TypeInv, Window, NEW r \in Async, pc[r] = "init",
         NEW n \in Nat \ {0}, n <= req[r].cnt - req[r].idx,
         NEW a \in Async, req[a].idx > 0, a = r \/ Flying(a)
  PROVE  Reach(a) + n <= RingSize
<1> USE DEF TypeInv
<1>1. /\ IsFiniteSet(Async) /\ MaxDesc * Cardinality(Async) <= RingSize
      /\ r \in Calls /\ a \in Calls
  BY DEF Roomy, Calls
<1>2. /\ req[r].idx \in Nat /\ req[r].cnt \in Nat /\ req[r].cnt <= MaxDesc
      /\ RingSize \in Nat /\ MaxDesc \in Nat /\ Reach(a) \in Nat
  <2>1. /\ req[r] \in Requests /\ desc_idx \in Slots
        /\ xfer[<<a, 0>>].first \in Slots
    BY <1>1, Lemma_Xfers, Lemma_Zero DEF TypeOK, Transfers
  <2> QED
    BY <2>1, SizesPositive DEF Requests, Slots, Reach, Back
<1>3. CASE a = r
  <2>1. Reach(a) = req[r].idx
    BY <1>3 DEF Window, Laid, Building
  <2>2. MaxDesc * Cardinality({}) + MaxDesc <= RingSize
    BY <1>1, Lemma_Room
  <2>3. MaxDesc * Cardinality({}) = 0
    BY FS_EmptySet, SizesPositive
  <2> QED
    BY <1>2, <2>1, <2>2, <2>3
<1>4. CASE Flying(a)
  <2>1. Reach(a) <= Room(a) + req[r].idx
    BY <1>4 DEF Window, Filled, Building
  <2>2. r \notin Rank(a) /\ Rank(a) \in SUBSET Async
    BY DEF Rank, Flying
  <2>3. Room(a) + MaxDesc <= RingSize /\ Cardinality(Rank(a)) \in Nat
    BY <1>1, <2>2, Lemma_Room DEF Room
  <2>4. Room(a) \in Nat
    BY <2>3, Lemma_Times DEF Room
  <2> QED
    BY <1>2, <2>1, <2>3, <2>4
<1> QED
  BY <1>3, <1>4

\* What a call takes next of the ring is not part of a chain that is in use.
LEMMA Lemma_Unused ==
  ASSUME Roomy, RingInv, NEW r \in Calls, pc[r] = "init",
         NEW n \in Nat \ {0}, n <= req[r].cnt - req[r].idx, desc_idx + n <= RingSize,
         NEW u \in Xfers, Held(u),
         NEW s \in SlotsOf(xfer[u])
  PROVE  s \notin desc_idx .. desc_idx + n - 1
<1> USE DEF TypeInv, RingInv
<1>1. PICK a, k : a = u[1] /\ k = u[2]
  OBVIOUS
<1>2. /\ a \in Calls /\ k \in 0 .. MaxDesc - 1 /\ u = <<a, k>>
  BY <1>1, Lemma_Xfers
<1>3. CASE Async = {}
  <2>1. a \in Sync /\ r \in Sync /\ Blocking(a) /\ Blocking(r)
    BY <1>2, <1>3 DEF Calls, Sound
  <2>2. pc[a] \in {"queue", "enqueue", "wait"}
    BY <1>1, <1>2, <2>1 DEF Held, Blocking
  <2>3. desc_lock = a /\ desc_lock = r
    BY <2>1, <2>2 DEF Blocking
  <2> QED
    BY <2>2, <2>3
<1>4. CASE Async # {}
  <2>1. /\ Sync = {} /\ IsFiniteSet(Async) /\ a \in Async /\ r \in Async
        /\ MaxDesc * Cardinality(Async) <= RingSize
    BY <1>2, <1>4 DEF Roomy, Calls
  <2>2. /\ Laid(a) /\ Laid(r) /\ Apart /\ Building(r)
    BY <2>1 DEF Window, Building
  <2>3. /\ s \in Slots /\ Reach(a) \in 1 .. RingSize
        /\ Back(desc_idx, s) <= Reach(a) /\ req[a].idx > 0
    BY <1>2, <2>1, <2>2, Lemma_Stretch
  <2>4. /\ req[r].idx \in Nat /\ req[r].cnt \in Nat /\ req[r].cnt <= MaxDesc
        /\ desc_idx \in Slots /\ RingSize \in Nat /\ MaxDesc \in Nat
    BY SizesPositive DEF TypeOK, Requests
  <2>5. Reach(a) + n <= RingSize
    <3>1. Building(a) \/ Flying(a)
      BY <1>1, <2>1, <2>2, Lemma_HeldCalls
    <3>2. a = r \/ Flying(a)
      BY <2>1, <2>2, <3>1 DEF Apart
    <3> QED
      BY <2>1, <2>3, <3>2, Lemma_Fits
  <2>6. s \in desc_idx .. desc_idx + n - 1 => Back(desc_idx, s) > RingSize - n
    BY <2>3, <2>4, Lemma_Back
  <2>7. Back(desc_idx, s) \in Int
    BY <2>3, <2>4 DEF Back, Slots
  <2> QED
    BY <2>3, <2>4, <2>5, <2>6, <2>7
<1> QED
  BY <1>3, <1>4

\* A chain stays when no one becomes its holder and nobody writes its slots.
LEMMA Lemma_ChainStays ==
  ASSUME TypeOK, Chain,
         \A u \in Xfers : Held(u)' =>
           /\ Held(u)
           /\ xfer'[u].first = xfer[u].first /\ xfer'[u].num = xfer[u].num
           /\ \A s \in SlotsOf(xfer[u]) : ring'[s] = ring[s]
  PROVE  Chain'
<1>1. ASSUME NEW u \in Xfers, Held(u)' PROVE Chained(u)'
  <2>1. /\ Chained(u) /\ xfer'[u].first = xfer[u].first
        /\ xfer'[u].num = xfer[u].num
        /\ \A s \in SlotsOf(xfer[u]) : ring'[s] = ring[s]
    BY <1>1 DEF Chain
  <2>2. SlotsOf(xfer'[u]) = SlotsOf(xfer[u])
    BY <2>1 DEF SlotsOf
  <2>3. \A s : Link(u, xfer'[u], s) = Link(u, xfer[u], s)
    BY <2>1 DEF Link
  <2> QED
    BY <2>1, <2>2, <2>3 DEF Chained
<1> QED
  BY <1>1 DEF Chain

\* A step that leaves requests, transfers and ring alone and brings no call to
\* a place where it holds one.
LEMMA Chain_Elsewhere ==
  ASSUME TypeOK, Chain, ring' = ring, xfer' = xfer,
         \A q \in Calls : pc'[q] \in {"queue", "enqueue"} =>
           pc[q] \in {"queue", "enqueue"} /\ req'[q] = req[q]
  PROVE  Chain'
<1>1. ASSUME NEW u \in Xfers, Held(u)' PROVE Held(u)
  <2>1. u[1] \in Calls
    BY Lemma_Xfers
  <2> QED
    BY <1>1, <2>1 DEF Held, Queued, Current
<1> QED
  BY <1>1, Lemma_ChainStays

\* A new transfer is a chain, and those there are stay chains.
LEMMA Chain_TransferInit ==
  ASSUME Roomy, RingInv, NEW r \in Calls, TransferInit(r)
  PROVE  Chain'
<1> USE DEF TypeInv, RingInv
<1>1. PICK t \in Xfers, n \in Nat \ {0} : Takes(r, t, n)
  BY Lemma_InitFacts
<1> USE DEF Takes
<1>2. /\ req[r].idx \in Nat /\ req[r].cnt \in Nat /\ req[r].cnt <= MaxDesc
      /\ MaxDesc \in Nat
  BY SizesPositive DEF TypeOK, Requests
<1>3. Chained(t)'
  <2>1. xfer'[t].num = n /\ xfer'[t].first = desc_idx
    BY <1>1
  <2>2. n \in 1 .. MaxDesc
    BY <1>1, <1>2
  <2>3. \A s \in SlotsOf(xfer'[t]) : ring'[s] = Link(t, xfer'[t], s)
    BY <1>1, <2>1 DEF SlotsOf, Link
  <2> QED
    BY <1>1, <2>1, <2>2, <2>3 DEF Chained
<1>4. ASSUME NEW u \in Xfers, Held(u)', u # t PROVE Chained(u)'
  <2>1. u[1] \in Calls /\ xfer'[u] = xfer[u]
    BY <1>1, <1>4, Lemma_Xfers
  <2>2. Current(r)' = t
    BY <1>1 DEF Current
  <2>3. Held(u)
    <3>1. CASE u[1] = r
      BY <1>4, <2>1, <2>2, <3>1 DEF Held, Queued
    <3>2. CASE u[1] # r
      BY <1>1, <1>4, <2>1, <3>2 DEF Held, Queued, Current
    <3> QED
      BY <3>1, <3>2
  <2>4. Chained(u)
    BY <2>3 DEF Chain
  <2>5. \A s \in SlotsOf(xfer[u]) : s \in Slots
    BY <2>4, SizesPositive DEF Chained, SlotsOf, Slots, TypeOK, Transfers
  <2>6. \A s \in SlotsOf(xfer[u]) : ring'[s] = ring[s]
    BY <1>1, <2>3, <2>5, Lemma_Unused
  <2> QED
    BY <2>1, <2>4, <2>6 DEF Chained, Link
<1> QED
  BY <1>3, <1>4 DEF Chain

\* A blocking call is done with its transfer: nobody else has one.
LEMMA Chain_Blocking ==
  ASSUME Roomy, RingInv, NEW r \in Sync,
         pc[r] \in {"queue", "enqueue", "wait"},
         pc'[r] \in {"init", "idle"},
         \A q \in Calls \ {r} : pc'[q] = pc[q] /\ req'[q] = req[q],
         \A k \in 0 .. MaxDesc - 1 : ~ Queued(<<r, k>>)',
         \A u \in Xfers : u[1] # r => xfer'[u] = xfer[u]
  PROVE  Chain'
<1> USE DEF TypeInv, RingInv
<1>1. Async = {} /\ desc_lock = r
  BY DEF Roomy, Sound, Blocking
<1>2. ASSUME NEW u \in Xfers, Held(u)' PROVE FALSE
  <2>1. u[1] \in Sync /\ u[2] \in 0 .. MaxDesc - 1 /\ u = <<u[1], u[2]>>
    BY <1>1, Lemma_Xfers DEF Calls
  <2>2. CASE u[1] = r
    BY <1>2, <2>1, <2>2 DEF Held
  <2>3. CASE u[1] # r
    <3>1. u[1] \in Calls \ {r}
      BY <2>1, <2>3 DEF Calls
    <3>2. Held(u)
      BY <1>2, <2>3, <3>1 DEF Held, Queued, Current
    <3>3. desc_lock = u[1]
      BY <2>1, <3>2 DEF Held, Sound, Blocking
    <3> QED
      BY <1>1, <2>3, <3>3
  <2> QED
    BY <2>2, <2>3
<1> QED
  BY <1>2 DEF Chain

\* What a refusal is: only a blocking call meets one.
LEMMA Lemma_NoRefusal ==
  ASSUME Undisturbed, Sound, Async # {}
  PROVE  ~ offline /\ ~ Closed /\ Timeouts = {}
BY DEF Undisturbed, Sound, Steady, offline, Closed

\* A call that is refused leaves the chains of the others.
LEMMA Chain_Refuse ==
  ASSUME Undisturbed, Roomy, RingInv, NEW r \in Calls,
         pc[r] \in {"queue", "enqueue"}, offline \/ Closed, Refuse(r)
  PROVE  Chain'
<1> USE DEF TypeInv, RingInv
<1>1. r \in Sync
  BY Lemma_NoRefusal DEF Calls
<1>2. PICK value : Return(r, value) /\ FreeReq(r, xfer)
  BY DEF Refuse
<1>3. /\ \A u \in Xfers : u[1] # r => xfer'[u] = xfer[u]
      /\ \A k \in 0 .. MaxDesc - 1 : ~ Queued(<<r, k>>)'
  BY <1>2, Lemma_FreedRow DEF Queued, NoXfer
<1>4. /\ pc'[r] = "idle"
      /\ \A q \in Calls \ {r} : pc'[q] = pc[q] /\ req'[q] = req[q]
  BY <1>2 DEF Return, FreeReq, TypeOK
<1> QED
  BY <1>1, <1>3, <1>4, Chain_Blocking

\* A transfer that is appended keeps its chain.
LEMMA Chain_TransferQueue ==
  ASSUME RingInv, NEW r \in Calls, TransferQueue(r)
  PROVE  Chain'
<1> USE DEF TypeInv, RingInv
<1>1. PICK t : t = Current(r)
  OBVIOUS
<1>2. /\ t \in Xfers /\ t[1] = r /\ pc[r] = "enqueue" /\ ring' = ring
      /\ xfer' = [xfer EXCEPT ![t].state = "SUBMITTED"]
      /\ xfer[t] \in Transfers
      /\ pc'[r] \in {"wait", "init", "flight"}
      /\ \A q \in Calls \ {r} : pc'[q] = pc[q] /\ req'[q] = req[q]
  BY <1>1, Lemma_Current DEF TransferQueue, Goto, TypeOK, Current, ringVars
<1>3. \A u \in Xfers : xfer'[u].first = xfer[u].first /\ xfer'[u].num = xfer[u].num
  BY <1>2 DEF TypeOK, Transfers
<1>4. ASSUME NEW u \in Xfers, Held(u)' PROVE Held(u)
  <2>1. CASE u = t
    BY <1>1, <1>2, <2>1 DEF Held
  <2>2. CASE u # t
    <3>1. Queued(u)' => Queued(u)
      BY <1>2, <2>2 DEF Queued, TypeOK
    <3>2. u[1] \in Calls
      BY Lemma_Xfers
    <3> QED
      BY <1>2, <1>4, <3>1, <3>2 DEF Held, Current
  <2> QED
    BY <2>1, <2>2
<1> QED
  BY <1>2, <1>3, <1>4, Lemma_ChainStays

\* The last transfer of a request: its call has queued all of it.
LEMMA Lemma_Last ==
  ASSUME TypeInv, Sound, NEW t \in Xfers, Queued(t), LastInRequest(t)
  PROVE  Flying(t[1]) \/ pc[t[1]] \in {"lock", "wait"}
<1> USE DEF TypeInv
<1>1. PICK a, k : a = t[1] /\ k = t[2]
  OBVIOUS
<1>2. /\ a \in Async /\ a \in Calls /\ k \in 0 .. MaxDesc - 1 /\ t = <<a, k>>
      /\ pc[a] \in Places /\ req[a] \in Requests /\ Shape(pc[a], req[a])
      /\ xfer[t] \in Transfers /\ xfer[t].off + xfer[t].num = req[a].cnt
  BY <1>1, Lemma_Xfers DEF TypeOK, RequestShape, LastInRequest
<1>3. /\ req[a].idx \in Nat /\ req[a].cnt \in Nat /\ xfer[t].num \in Nat
      /\ xfer[t].off \in Nat
  BY <1>2, SizesPositive DEF Requests, Transfers
<1>4. Parted(a) /\ xfer[<<a, req[a].tfer>>] \in Transfers
  BY <1>2, Lemma_Xfers DEF Sound, TypeOK, Requests
<1>5. xfer[t].num > 0 /\ xfer[t].off + xfer[t].num <= req[a].idx
  BY <1>2, <1>4 DEF Parted
<1>6. pc[a] # "idle"
  BY <1>2, <1>3, <1>5 DEF Shape, NoReq
<1>7. pc[a] # "init"
  BY <1>2, <1>3, <1>5 DEF Shape
<1>8. pc[a] \notin {"queue", "enqueue"}
  <2>1. SUFFICES ASSUME pc[a] \in {"queue", "enqueue"} PROVE FALSE
    OBVIOUS
  <2>2. PICK now : now = xfer[<<a, req[a].tfer>>]
    OBVIOUS
  <2>3. /\ now.num > 0 /\ now.off + now.num = req[a].idx
        /\ xfer[t].off + xfer[t].num <= now.off
    BY <1>2, <1>4, <2>1, <2>2 DEF Parted
  <2>4. now.off \in Nat /\ now.num \in Nat
    BY <1>4, <2>2, SizesPositive DEF Transfers
  <2>5. req[a].idx <= req[a].cnt
    BY <1>2, <2>1 DEF Shape
  <2> QED
    BY <1>2, <1>3, <2>3, <2>4, <2>5
<1> QED
  BY <1>1, <1>2, <1>6, <1>7, <1>8 DEF Flying, Places
\* What becomes of the head of the list when it is finished.
Leaves(t, state) ==
  /\ t = Head(list) /\ Queued(t)
  /\ \/ /\ ~ LastInRequest(t) /\ UNCHANGED <<pc, req, ret, moved, ring>>
        /\ \A u \in Xfers : u # t => xfer'[u] = xfer[u]
        /\ xfer'[t] = [xfer[t] EXCEPT !.state = state]
     \/ /\ LastInRequest(t)
        /\ pc'[t[1]] = "idle" /\ req'[t[1]] = NoReq
        /\ \A q \in Calls \ {t[1]} :
             pc'[q] = pc[q] /\ req'[q] = req[q] /\ ret'[q] = ret[q]
        /\ \A u \in Xfers : u[1] # t[1] =>
             xfer'[u] = xfer[u] /\ moved'[u] = moved[u]
        /\ \A u \in Xfers : u[1] = t[1] => xfer'[u] = NoXfer /\ moved'[u] = {}
        /\ \A s \in Slots :
             (\A k \in 0 .. MaxDesc - 1 : s \notin SlotsOf(xfer[<<t[1], k>>]))
               => ring'[s] = ring[s]

\* What is left of a transfer that has ended.
LEMMA Lemma_FinishFacts ==
  ASSUME TypeInv, QueueWellFormed, list # << >>,
         NEW state \in {"COMPLETED", "FAILED"}, Finish(Head(list), state)
  PROVE  \E t \in Xfers : Leaves(t, state)
<1> USE DEF TypeInv
<1>t. PICK t : t = Head(list)
  OBVIOUS
<1>a. PICK a : a = t[1]
  OBVIOUS
<1>x. PICK x : x = [xfer EXCEPT ![t].state = state]
  OBVIOUS
<1>f. Finish(t, state)
  BY <1>t
<1>1. /\ t \in Xfers /\ Queued(t) /\ a \in Calls /\ xfer[t] \in Transfers
  <2>1. list \in Seq(Xfers) /\ t \in ToSet(list)
    BY <1>t, Lemma_Listed, ListTail
  <2> QED
    BY <1>a, <2>1, Lemma_Listed, Lemma_Xfers DEF TypeOK
<1>2. /\ \A u \in Xfers : u # t => x[u] = xfer[u]
      /\ x[t] = [xfer[t] EXCEPT !.state = state]
  BY <1>1, <1>x DEF TypeOK
<1>3. CASE ~ LastInRequest(t)
  BY <1>t, <1>1, <1>2, <1>3, <1>f, <1>x DEF Finish, callVars, Leaves
<1>4. CASE LastInRequest(t)
  <2>1. IoDone(a, x) /\ FreeReq(a, x)
    <3>1. IoDone(a, x)
      BY <1>4, <1>a, <1>f, <1>x DEF Finish
    <3> QED
      BY <3>1 DEF IoDone
  <2>2. PICK value : Return(a, value)
    BY <2>1 DEF IoDone
  <2>3. PICK last : last \in 0 .. req[a].tfer /\ ring' = Wiped({x[<<a, k>>] : k \in 0 .. last})
    <3>1. req[a].tfer \in 0 .. req[a].tfer
      BY <1>1, SizesPositive DEF TypeOK, Requests
    <3> QED
      BY <2>1, <3>1 DEF IoDone
  <2>4. /\ pc'[a] = "idle" /\ req'[a] = NoReq
        /\ \A q \in Calls \ {a} :
             pc'[q] = pc[q] /\ req'[q] = req[q] /\ ret'[q] = ret[q]
    BY <1>1, <2>1, <2>2 DEF Return, FreeReq, TypeOK
  <2>5. /\ \A u \in Xfers : u[1] # a => xfer'[u] = xfer[u] /\ moved'[u] = moved[u]
        /\ \A u \in Xfers : u[1] = a => xfer'[u] = NoXfer /\ moved'[u] = {}
    BY <1>1, <1>2, <1>a, <2>1 DEF FreeReq
  <2>6. ASSUME NEW s \in Slots,
               \A k \in 0 .. MaxDesc - 1 : s \notin SlotsOf(xfer[<<a, k>>])
        PROVE  ring'[s] = ring[s]
    <3>1. 0 .. last \subseteq 0 .. MaxDesc - 1
      BY <1>1, <2>3, SizesPositive DEF TypeOK, Requests
    <3>2. ASSUME NEW k \in 0 .. last PROVE SlotsOf(x[<<a, k>>]) = SlotsOf(xfer[<<a, k>>])
      <4>1. <<a, k>> \in Xfers
        BY <1>1, <3>1, Lemma_Xfers
      <4> QED
        BY <1>1, <1>2, <4>1 DEF SlotsOf, Transfers
    <3>3. \A k \in 0 .. last : s \notin SlotsOf(x[<<a, k>>])
      BY <2>6, <3>1, <3>2
    <3> QED
      BY <2>3, <3>3 DEF Wiped
  <2> QED
    BY <1>t, <1>a, <1>1, <1>4, <2>4, <2>5, <2>6 DEF Leaves
<1> QED
  BY <1>3, <1>4

\* Those that are left when one has ended keep theirs.
LEMMA Chain_Finish ==
  ASSUME Roomy, RingInv, list # << >>,
         NEW state \in {"COMPLETED", "FAILED"}, Finish(Head(list), state)
  PROVE  Chain'
<1> USE DEF TypeInv, RingInv
<1>1. PICK t \in Xfers : Leaves(t, state)
  BY Lemma_FinishFacts DEF Sound
<1> USE DEF Leaves
<1>2. CASE ~ LastInRequest(t)
  <2>1. xfer[t] \in Transfers
    BY DEF TypeOK
  <2>2. \A u \in Xfers : /\ Queued(u)' => Queued(u)
                         /\ xfer'[u].first = xfer[u].first /\ xfer'[u].num = xfer[u].num
    BY <1>1, <1>2, <2>1 DEF Queued, Transfers
  <2> QED
    BY <1>1, <1>2, <2>2, Lemma_ChainStays, Lemma_Xfers DEF Held, Current
<1>3. CASE LastInRequest(t)
  <2>1. PICK a : a = t[1]
    OBVIOUS
  <2>2. a \in Async /\ Sync = {} /\ Laid(a) /\ Apart /\ Flying(a)
    <3>1. a \in Async /\ Sync = {}
      BY <1>3, <2>1 DEF LastInRequest, Roomy
    <3>2. Laid(a) /\ Apart
      BY <3>1 DEF Window
    <3> QED
      BY <1>1, <1>3, <2>1, <3>1, <3>2, Lemma_Last DEF Laid
  <2>3. ASSUME NEW u \in Xfers, Held(u)'
        PROVE  /\ Held(u)
               /\ xfer'[u].first = xfer[u].first /\ xfer'[u].num = xfer[u].num
               /\ \A s \in SlotsOf(xfer[u]) : ring'[s] = ring[s]
    <3>1. PICK b, j : b = u[1] /\ j = u[2]
      OBVIOUS
    <3>2. b \in Async /\ b \in Calls /\ j \in 0 .. MaxDesc - 1 /\ u = <<b, j>>
      BY <2>2, <3>1, Lemma_Xfers DEF Calls
    <3>3. b # a
      <4>1. SUFFICES ASSUME b = a PROVE FALSE
        OBVIOUS
      <4>2. xfer'[u] = NoXfer /\ pc'[a] = "idle"
        BY <1>1, <1>3, <2>1, <3>1, <4>1
      <4> QED
        BY <2>3, <3>1, <4>1, <4>2 DEF Held, Queued, NoXfer
    <3>4. xfer'[u] = xfer[u] /\ pc'[b] = pc[b] /\ req'[b] = req[b]
      BY <1>1, <1>3, <2>1, <3>1, <3>2, <3>3
    <3>5. Held(u)
      BY <2>3, <3>1, <3>4 DEF Held, Queued, Current
    <3>6. Laid(b) /\ (Building(b) \/ Flying(b))
      <4>1. Laid(b)
        BY <3>2 DEF Window
      <4> QED
        BY <3>1, <3>2, <3>5, <4>1, Lemma_HeldCalls
    <3>7. Chained(u)
      BY <3>5 DEF Chain
    <3>8. \A s \in SlotsOf(xfer[u]) : s \in Slots
      <4>1. /\ xfer[u].first \in Nat /\ xfer[u].num \in Nat /\ RingSize \in Nat
            /\ xfer[u].first + xfer[u].num <= RingSize
        BY <3>7, SizesPositive DEF Chained, Slots, TypeOK, Transfers
      <4>2. SlotsOf(xfer[u]) = xfer[u].first .. xfer[u].first + xfer[u].num - 1
        BY DEF SlotsOf
      <4> QED
        BY <4>1, <4>2 DEF Slots
    <3>9. ASSUME NEW s \in SlotsOf(xfer[u]), NEW k \in 0 .. MaxDesc - 1
          PROVE  s \notin SlotsOf(xfer[<<a, k>>])
      BY <2>2, <3>2, <3>3, <3>6, Lemma_Disjoint
    <3>10. \A s \in SlotsOf(xfer[u]) : ring'[s] = ring[s]
      BY <1>1, <1>3, <2>1, <3>8, <3>9
    <3> QED
      BY <3>4, <3>5, <3>10
  <2> QED
    BY <2>3, Lemma_ChainStays
<1> QED
  BY <1>2, <1>3

\* Every step keeps the chains.
LEMMA Lemma_ChainStep ==
  ASSUME Undisturbed, Roomy, RingInv, [Next]_vars
  PROVE  Chain'
<1> USE DEF TypeInv, RingInv
<1>1. ASSUME NEW r \in Calls, Step(r) PROVE Chain'
  <2>1. CASE Submit(r)
    <3>1. /\ pc'[r] \in {"idle", "lock", "init"}
          /\ \A q \in Calls \ {r} : pc'[q] = pc[q] /\ req'[q] = req[q]
          /\ ring' = ring /\ xfer' = xfer
      BY <2>1 DEF Submit, Return, Goto, TypeOK, ringVars
    <3> QED
      BY <3>1, Chain_Elsewhere
  <2>2. CASE TransferInit(r)
    BY <2>2, Chain_TransferInit
  <2>3. CASE CheckOffline(r)
    <3>1. CASE offline
      BY <2>3, <3>1, Chain_Refuse DEF CheckOffline
    <3>2. CASE ~ offline
      <4>1. /\ pc[r] = "queue" /\ \A q \in Calls \ {r} : pc'[q] = pc[q]
            /\ ring' = ring /\ xfer' = xfer /\ req' = req
        BY <2>3, <3>2 DEF CheckOffline, Goto, TypeOK, ringVars
      <4> QED
        BY <4>1, Chain_Elsewhere
    <3> QED
      BY <3>1, <3>2
  <2>4. CASE QueueRefused(r)
    BY <2>4, Chain_Refuse DEF QueueRefused
  <2>5. CASE TransferQueue(r)
    BY <2>5, Chain_TransferQueue
  <2> QED
    BY <1>1, <2>1, <2>2, <2>3, <2>4, <2>5 DEF Step, Queue
<1>2. ASSUME NEW r \in Sync, SyncStep(r) PROVE Chain'
  <2>0. r \in Calls
    BY DEF Calls
  <2>1. CASE LockDesc(r)
    <3>1. /\ pc'[r] = "init" /\ \A q \in Calls \ {r} : pc'[q] = pc[q]
          /\ ring' = ring /\ xfer' = xfer /\ req' = req
      BY <2>0, <2>1 DEF LockDesc, Goto, TypeOK, ringVars
    <3> QED
      BY <3>1, Chain_Elsewhere
  <2>2. CASE SyncDone(r)
    <3>1. /\ pc[r] = "wait" /\ pc'[r] \in {"init", "idle"}
          /\ \A q \in Calls \ {r} : pc'[q] = pc[q] /\ req'[q] = req[q]
      BY <2>0, <2>2 DEF SyncDone, Goto, Return, FreeReq, TypeOK
    <3>2. \A k \in 0 .. MaxDesc - 1 : ~ Queued(<<r, k>>)
      BY <2>2 DEF SyncDone, Sound, Blocking, Queued
    <3>3. xfer' = xfer \/ FreeReq(r, xfer)
      BY <2>2 DEF SyncDone
    <3>4. /\ \A u \in Xfers : u[1] # r => xfer'[u] = xfer[u]
          /\ \A k \in 0 .. MaxDesc - 1 : ~ Queued(<<r, k>>)'
      BY <2>0, <3>2, <3>3, Lemma_FreedRow DEF Queued, NoXfer
    <3> QED
      BY <3>1, <3>4, Chain_Blocking
  <2>3. CASE SyncAbort(r)
    <3>1. PICK value : Return(r, value) /\ FreeReq(r, xfer) /\ pc[r] = "wait"
      BY <2>3 DEF SyncAbort
    <3>2. /\ pc'[r] = "idle"
          /\ \A q \in Calls \ {r} : pc'[q] = pc[q] /\ req'[q] = req[q]
      BY <2>0, <3>1 DEF Return, FreeReq, TypeOK
    <3>3. /\ \A u \in Xfers : u[1] # r => xfer'[u] = xfer[u]
          /\ \A k \in 0 .. MaxDesc - 1 : ~ Queued(<<r, k>>)'
      BY <2>0, <3>1, Lemma_FreedRow DEF Queued, NoXfer
    <3> QED
      BY <3>1, <3>2, <3>3, Chain_Blocking
  <2> QED
    BY <1>2, <2>1, <2>2, <2>3 DEF SyncStep
<1>3. CASE ServiceTransferList
  BY <1>3, Chain_Finish DEF ServiceTransferList
<1>4. CASE ServiceFinal
  <2> DEFINE state == IF Whole(Head(list)) /\ ~ svc.err THEN "COMPLETED" ELSE "FAILED"
  <2>1. list # << >> /\ Finish(Head(list), state)
    BY <1>4 DEF ServiceFinal
  <2>2. state \in {"COMPLETED", "FAILED"}
    OBVIOUS
  <2> HIDE DEF state
  <2> QED
    BY <2>1, <2>2, Chain_Finish
<1>5. CASE \/ Hardware \/ ChannelIrq \/ Hotplug
           \/ ServiceStatus \/ ServiceCount \/ ServiceNothing \/ UNCHANGED vars
  <2>1. UNCHANGED <<pc, req, xfer, ring>>
    BY <1>5 DEF Hardware, HwStep, HwFault, HwHalt, ChannelIrq, Hotplug,
       OfflineFlag, OfflineEngine, OfflineIrq, OnlineEngine, OnlineIrq,
       OnlineFlag, ServiceStatus, ServiceCount, ServiceNothing, vars, callVars,
       ringVars
  <2> QED
    BY <2>1, Chain_Elsewhere
<1> QED
  BY <1>1, <1>2, <1>3, <1>4, <1>5 DEF Next, Service

\* Nothing moves in the ring when the index and the transfers stay.
LEMMA Lemma_Reaches ==
  ASSUME desc_idx' = desc_idx, NEW a \in Async,
         xfer'[<<a, 0>>].first = xfer[<<a, 0>>].first
  PROVE  Reach(a)' = Reach(a)
BY DEF Reach, Back

\* What a request takes is counted in numbers.
LEMMA Lemma_Numbers ==
  ASSUME TypeOK, NEW a \in Async
  PROVE  /\ a \in Calls /\ req[a].idx \in Nat /\ req[a].cnt \in Nat
         /\ req[a].tfer \in Nat /\ req[a].cnt <= MaxDesc
         /\ Reach(a) \in Nat /\ Reach(a) > 0 /\ Reach(a) <= RingSize
         /\ MaxDesc \in Nat /\ RingSize \in Nat
         /\ \A k \in 0 .. MaxDesc - 1 :
              /\ xfer[<<a, k>>].num \in Nat /\ xfer[<<a, k>>].off \in Nat
              /\ xfer[<<a, k>>].first \in Slots
<1>1. a \in Calls /\ req[a] \in Requests /\ desc_idx \in Slots
  BY DEF TypeOK, Calls
<1>2. \A k \in 0 .. MaxDesc - 1 : xfer[<<a, k>>] \in Transfers
  BY <1>1, Lemma_Xfers DEF TypeOK
<1>3. xfer[<<a, 0>>].first \in Slots
  BY <1>2, Lemma_Zero DEF Transfers
<1> QED
  BY <1>1, <1>2, <1>3, SizesPositive DEF Requests, Transfers, Slots, Reach, Back

\* A step that leaves every request where it is in the ring.
LEMMA Window_Still ==
  ASSUME TypeOK, Window, desc_idx' = desc_idx,
         \A a \in Async, k \in 0 .. MaxDesc - 1 :
           /\ xfer'[<<a, k>>].first = xfer[<<a, k>>].first
           /\ xfer'[<<a, k>>].num = xfer[<<a, k>>].num
           /\ xfer'[<<a, k>>].off = xfer[<<a, k>>].off,
         \A a \in Async :
           /\ req'[a].idx = req[a].idx
           /\ (Building(a)' <=> Building(a)) /\ (Flying(a)' <=> Flying(a))
           /\ pc'[a] \notin {"lock", "wait"} /\ Numbered(a)'
           /\ Flying(a) => Ending(a)',
         Aged'
  PROVE  Window'
<1>1. \A a \in Async : Reach(a)' = Reach(a)
  BY Lemma_Reaches, Lemma_Zero
<1>2. \A a \in Async : Room(a)' = Room(a)
  <2>1. ASSUME NEW a \in Async PROVE Rank(a)' = Rank(a)
    BY <1>1 DEF Rank
  <2> QED
    BY <2>1 DEF Room
<1>3. \A a \in Async : Laid(a)'
  <2> SUFFICES ASSUME NEW a \in Async PROVE Laid(a)'
    OBVIOUS
  <2>1. Laid(a) /\ Reach(a)' = Reach(a)
    BY <1>1 DEF Window
  <2>2. \A f : Back(desc_idx, f)' = Back(desc_idx, f)
    BY DEF Back
  <2> QED
    BY <2>1, <2>2, Lemma_Zero DEF Laid, Back
<1>4. Apart'
  BY <1>1 DEF Window, Apart, Newest, Before
<1>5. \A a \in Async : Flying(a)' => Filled(a)'
  BY <1>1, <1>2 DEF Window, Filled
<1> QED
  BY <1>3, <1>4, <1>5 DEF Window

\* The list leaves the requests in their order when it loses its head.
LEMMA Lemma_AgedTail ==
  ASSUME list \in Seq(Xfers), list # << >>, list' = Tail(list), Aged,
         \A a \in Async : (\E i \in 1 .. Len(list) - 1 : list'[i][1] = a) =>
           Reach(a)' = Reach(a)
  PROVE  Aged'
<1>1. /\ Len(list) \in Nat \ {0} /\ Len(list') = Len(list) - 1
      /\ \A i \in 1 .. Len(list) - 1 : list'[i] = list[i + 1]
  BY ListEntries
<1>2. ASSUME NEW i \in 1 .. Len(list'), NEW j \in 1 .. Len(list'), i < j,
             NEW a \in Async, NEW b \in Async, a # b,
             a = list'[i][1], b = list'[j][1]
      PROVE  Reach(b)' < Reach(a)'
  <2>1. /\ i + 1 \in 1 .. Len(list) /\ j + 1 \in 1 .. Len(list) /\ i + 1 < j + 1
        /\ i \in 1 .. Len(list) - 1 /\ j \in 1 .. Len(list) - 1
    BY <1>1, <1>2
  <2>2. /\ a = list[i + 1][1] /\ b = list[j + 1][1]
        /\ Reach(a)' = Reach(a) /\ Reach(b)' = Reach(b)
    BY <1>1, <1>2, <2>1
  <2>3. Reach(b) < Reach(a)
    BY <1>2, <2>1, <2>2 DEF Aged
  <2> QED
    BY <2>2, <2>3
<1> QED
  BY <1>2 DEF Aged, Reach, Back

\* The list leaves the requests in their order when it gains the newest.
LEMMA Lemma_AgedAppend ==
  ASSUME list \in Seq(Xfers), NEW t, list' = Append(list, t), Aged,
         \A a \in Async : Reach(a)' = Reach(a),
         \A i \in 1 .. Len(list) :
           list[i][1] \in Async /\ list[i][1] # t[1] => Reach(t[1]) < Reach(list[i][1])
  PROVE  Aged'
<1>1. /\ Len(list) \in Nat /\ Len(list') = Len(list) + 1
      /\ \A i \in 1 .. Len(list) : list'[i] = list[i]
      /\ list'[Len(list) + 1] = t
  BY ListEntries
<1>2. ASSUME NEW i \in 1 .. Len(list'), NEW j \in 1 .. Len(list'), i < j,
             NEW a \in Async, NEW b \in Async, a # b,
             a = list'[i][1], b = list'[j][1]
      PROVE  Reach(b)' < Reach(a)'
  <2>1. i \in 1 .. Len(list) /\ a = list[i][1]
    BY <1>1, <1>2
  <2>2. Reach(a)' = Reach(a) /\ Reach(b)' = Reach(b)
    BY <1>2
  <2>3. CASE j \in 1 .. Len(list)
    <3>1. b = list[j][1]
      BY <1>1, <1>2, <2>3
    <3> QED
      BY <1>2, <2>1, <2>2, <2>3, <3>1 DEF Aged
  <2>4. CASE j = Len(list) + 1
    <3>1. b = t[1]
      BY <1>1, <1>2, <2>4
    <3> QED
      BY <1>2, <2>1, <2>2, <3>1
  <2> QED
    BY <1>1, <1>2, <2>3, <2>4
<1> QED
  BY <1>2 DEF Aged, Reach, Back

\* A step that is not a call's and finishes nothing.
LEMMA Window_Elsewhere ==
  ASSUME TypeOK, Window, UNCHANGED <<pc, req, xfer, list, desc_idx>>
  PROVE  Window'
<1>1. \A a \in Async : Reach(a)' = Reach(a)
  BY DEF Reach, Back
<1>2. Aged'
  BY <1>1 DEF Window, Aged
<1>3. \A a \in Async : /\ pc'[a] \notin {"lock", "wait"} /\ Numbered(a)'
                       /\ Building(a)' <=> Building(a)
                       /\ Flying(a)' <=> Flying(a)
                       /\ Flying(a) => Ending(a)'
  BY DEF Window, Laid, Numbered, Building, Flying, Ending, Queued
<1> QED
  BY <1>2, <1>3, Window_Still

\* The room of the requests before one is a number.
LEMMA Lemma_RoomNat ==
  ASSUME IsFiniteSet(Async), NEW a \in Async
  PROVE  /\ IsFiniteSet(Rank(a)) /\ Cardinality(Rank(a)) \in Nat
         /\ Room(a) \in Nat
<1>1. Rank(a) \in SUBSET Async
  BY DEF Rank
<1> QED
  BY <1>1, FS_Subset, FS_CardinalityType, Lemma_Times DEF Room

\* A new request has nothing in the ring.
LEMMA Window_Submit ==
  ASSUME TypeOK, RequestShape, Window, NEW r \in Async, Submit(r), ~ offline,
         Sync = {}, IsFiniteSet(Async)
  PROVE  Window'
<1>1. /\ pc[r] = "idle" /\ pc'[r] = "init" /\ req[r] = NoReq
      /\ \A a \in Async : ~ Building(a)
      /\ \A a \in Async : a # r => pc'[a] = pc[a] /\ req'[a] = req[a]
      /\ req'[r].idx = req[r].idx /\ r \in Calls
      /\ xfer' = xfer /\ list' = list /\ desc_idx' = desc_idx
  <2>1. r \in Calls /\ pc[r] = "idle" /\ SubmitterFree /\ Goto(r, "init")
    BY DEF Submit, Calls
  <2>2. PICK n : req' = [req EXCEPT ![r].cnt = n]
    BY DEF Submit
  <2>3. req[r] = NoReq /\ req[r] \in Requests
    BY <2>1 DEF RequestShape, Shape, TypeOK
  <2>4. req'[r].idx = req[r].idx /\ \A a \in Async : a # r => req'[a] = req[a]
    BY <2>1, <2>2, <2>3 DEF TypeOK, Requests, Calls
  <2>5. pc'[r] = "init" /\ \A a \in Async : a # r => pc'[a] = pc[a]
    BY <2>1 DEF Goto, TypeOK, Calls
  <2> QED
    BY <2>1, <2>3, <2>4, <2>5 DEF Submit, SubmitterFree, Building, listVars, ringVars
<1>2. req[r].idx = 0
  BY <1>1 DEF NoReq
<1>3. \A k \in 0 .. MaxDesc - 1 : xfer[<<r, k>>].num = 0
  <2>1. ASSUME NEW k \in 0 .. MaxDesc - 1, xfer[<<r, k>>].num # 0 PROVE FALSE
    <3>1. xfer[<<r, k>>].num \in Nat /\ xfer[<<r, k>>].off \in Nat
      BY Lemma_Numbers
    <3>2. xfer[<<r, k>>].off + xfer[<<r, k>>].num <= 0
      <4>1. Laid(r) /\ xfer[<<r, k>>].num > 0
        BY <2>1, <3>1 DEF Window
      <4> QED
        BY <1>2, <4>1 DEF Laid
    <3> QED
      BY <2>1, <3>1, <3>2
  <2> QED
    BY <2>1
<1>4. \A a \in Async : Reach(a)' = Reach(a)
  BY <1>1, Lemma_Reaches
<1>5. \A a \in Async : (Flying(a)' <=> Flying(a)) /\ req'[a].idx = req[a].idx
  BY <1>1 DEF Flying
<1>6. \A a \in Async : Room(a)' = Room(a)
  <2>1. ASSUME NEW a \in Async PROVE Rank(a)' = Rank(a)
    BY <1>4, <1>5 DEF Rank
  <2> QED
    BY <2>1 DEF Room
<1>7. \A a \in Async : Building(a)' <=> a = r
  BY <1>1 DEF Building
<1>8. \A a \in Async : Flying(a) => Reach(a) - req[a].idx >= 0
  <2>1. ASSUME NEW a \in Async PROVE Reach(a) - req[a].idx >= 0
    <3>1. req[a].idx > 0 => req[a].idx <= Reach(a)
      BY DEF Window, Laid
    <3>2. req[a].idx \in Nat /\ Reach(a) \in Nat
      BY Lemma_Numbers
    <3> QED
      BY <3>1, <3>2
  <2> QED
    BY <2>1
<1>9. Apart'
  <2>1. Newest(r)'
    BY <1>2, <1>4, <1>5, <1>8 DEF Newest
  <2>2. \A a, b \in Async : a # b /\ Flying(a)' /\ Flying(b)' =>
          Before(a, b)' \/ Before(b, a)'
    BY <1>4, <1>5 DEF Window, Apart, Before
  <2> QED
    BY <1>7, <2>1, <2>2 DEF Apart
<1>10. Aged'
  BY <1>1, <1>4 DEF Window, Aged
<1>11. \A a \in Async : Laid(a)' /\ Numbered(a)'
  <2> SUFFICES ASSUME NEW a \in Async PROVE Laid(a)' /\ Numbered(a)'
    OBVIOUS
  <2>1. CASE a = r
    BY <1>1, <1>2, <1>3, <2>1, SizesPositive DEF Laid, Numbered
  <2>2. CASE a # r
    <3>1. Laid(a) /\ Numbered(a) /\ Reach(a)' = Reach(a) /\ xfer' = xfer /\ pc'[a] = pc[a]
          /\ req'[a] = req[a]
      BY <1>1, <1>4, <2>2 DEF Window
    <3>2. \A f : Back(desc_idx, f)' = Back(desc_idx, f)
      BY <1>1 DEF Back
    <3> QED
      BY <1>1, <3>1, <3>2 DEF Laid, Numbered, Building, Back
  <2> QED
    BY <2>1, <2>2
<1>12. ASSUME NEW a \in Async, Flying(a)' PROVE Ending(a)' /\ Filled(a)'
  <2>1. Flying(a) /\ a # r /\ Ending(a) /\ Filled(a)
    BY <1>1, <1>5, <1>12 DEF Window, Flying
  <2>2. Ending(a)'
    BY <1>1, <2>1 DEF Ending, Queued
  <2>3. Reach(a) <= Room(a)
    BY <1>1, <2>1 DEF Filled
  <2>4. Reach(a)' <= Room(a)' + req'[r].idx
    BY <1>1, <1>2, <1>4, <1>6, <2>3, Lemma_RoomNat
  <2> QED
    BY <1>7, <2>2, <2>4 DEF Filled
<1> QED
  BY <1>9, <1>10, <1>11, <1>12 DEF Window

\* What it takes for a request to be laid out after a step.
LEMMA Lemma_LaidNext ==
  ASSUME NEW a,
         pc'[a] \notin {"lock", "wait"},
         req'[a].idx > 0 =>
           /\ xfer'[<<a, 0>>].num > 0 /\ xfer'[<<a, 0>>].off = 0
           /\ req'[a].idx <= Reach(a)',
         Building(a)' /\ req'[a].idx > 0 => Reach(a)' = req'[a].idx,
         \A k \in 0 .. MaxDesc - 1 : xfer'[<<a, k>>].num > 0 =>
           /\ xfer'[<<a, k>>].first + xfer'[<<a, k>>].num <= RingSize
           /\ xfer'[<<a, k>>].off + xfer'[<<a, k>>].num <= req'[a].idx
           /\ Back(desc_idx', xfer'[<<a, k>>].first)
                = Reach(a)' - xfer'[<<a, k>>].off
  PROVE  Laid(a)'
BY DEF Laid

\* The transfer that takes the next descriptors moves all others back by as
\* many.
LEMMA Window_TransferInit ==
  ASSUME Roomy, RingInv, NEW r \in Async, TransferInit(r)
  PROVE  Window'
<1> USE DEF TypeInv, RingInv
<1>1. PICK t \in Xfers, n \in Nat \ {0} : Takes(r, t, n)
  <2>1. r \in Calls
    BY DEF Calls
  <2> QED
    BY <2>1, Lemma_InitFacts
<1> USE DEF Takes
<1>2. /\ list' = list /\ r \in Calls /\ Building(r) /\ Building(r)'
      /\ Apart /\ IsFiniteSet(Async) /\ Sync = {}
      /\ req[r].tfer \in 0 .. MaxDesc - 1 /\ req[r].tfer <= req[r].idx
  <2>1. r \in Calls /\ req[r] \in Requests /\ pc[r] = "init"
    BY <1>1 DEF Calls, TypeOK
  <2>2. req[r].tfer \in 0 .. MaxDesc - 1 /\ req[r].tfer <= req[r].idx
    BY <2>1 DEF Requests, RequestShape, Shape
  <2> QED
    BY <1>1, <2>1, <2>2 DEF TransferInit, listVars, Building, Window, Roomy
<1>3. \A a \in Async : a # r =>
        /\ ~ Building(a) /\ ~ Building(a)' /\ (Flying(a)' <=> Flying(a))
        /\ pc'[a] = pc[a] /\ req'[a] = req[a]
        /\ \A k \in 0 .. MaxDesc - 1 : xfer'[<<a, k>>] = xfer[<<a, k>>]
  <2>1. ASSUME NEW a \in Async, a # r
        PROVE  /\ ~ Building(a) /\ pc'[a] = pc[a] /\ req'[a] = req[a]
               /\ \A k \in 0 .. MaxDesc - 1 : xfer'[<<a, k>>] = xfer[<<a, k>>]
    <3>1. a \in Calls \ {r} /\ \A k \in 0 .. MaxDesc - 1 :
                                 <<a, k>> \in Xfers /\ <<a, k>> # t
      BY <1>1, <2>1, Lemma_Xfers DEF Calls
    <3> QED
      BY <1>1, <1>2, <2>1, <3>1 DEF Apart
  <2> QED
    BY <2>1 DEF Building, Flying
<1>4. \A a \in Async : (Flying(a)' <=> Flying(a)) /\ (Flying(a) => a # r)
  BY <1>1, <1>3 DEF Flying
<1>5. ASSUME NEW a \in Async, req[a].idx > 0, a = r \/ Flying(a)
      PROVE  /\ Reach(a) + n <= RingSize
             /\ \A f \in Slots : Back(desc_idx, f) <= Reach(a) =>
                  Back(desc_idx', f) = Back(desc_idx, f) + n
  <2>1. Reach(a) + n <= RingSize
    BY <1>1, <1>5, Lemma_Fits
  <2>2. ASSUME NEW f \in Slots, Back(desc_idx, f) <= Reach(a)
        PROVE  Back(desc_idx', f) = Back(desc_idx, f) + n
    <3>1. /\ Back(desc_idx, f) \in 1 .. RingSize
          /\ f \in desc_idx .. desc_idx + n - 1 => Back(desc_idx, f) > RingSize - n
          /\ f \notin desc_idx .. desc_idx + n - 1 =>
               Back(desc_idx', f) = Back(desc_idx, f) + n
      BY <1>1, Lemma_Back
    <3>2. Reach(a) \in Nat /\ RingSize \in Nat
      BY Lemma_Numbers
    <3> QED
      BY <2>1, <2>2, <3>1, <3>2
  <2> QED
    BY <2>1, <2>2
<1>6. ASSUME NEW a \in Async, req[a].idx > 0, a = r \/ Flying(a)
      PROVE  /\ Reach(a)' = Reach(a) + n /\ xfer'[<<a, 0>>] = xfer[<<a, 0>>]
             /\ \A k \in 0 .. MaxDesc - 1 :
                  xfer[<<a, k>>].num > 0 /\ <<a, k>> # t =>
                    Back(desc_idx', xfer[<<a, k>>].first)
                      = Back(desc_idx, xfer[<<a, k>>].first) + n
  <2>1. xfer'[<<a, 0>>] = xfer[<<a, 0>>]
    <3>1. CASE a = r
      <4>1. xfer[<<r, 0>>].num > 0 /\ Numbered(r)
        BY <1>6, <3>1 DEF Window, Laid
      <4>2. 0 < req[r].tfer
        BY <1>1, <4>1, Lemma_Zero DEF Numbered
      <4> QED
        BY <1>1, <1>2, <3>1, <4>2, Lemma_Xfers, Lemma_Zero
    <3>2. CASE a # r
      BY <1>3, <3>2, Lemma_Zero
    <3> QED
      BY <3>1, <3>2
  <2>2. Reach(a)' = Reach(a) + n
    <3>1. xfer[<<a, 0>>].first \in Slots /\ Reach(a) \in Nat
      BY Lemma_Numbers, Lemma_Zero
    <3>2. Back(desc_idx', xfer[<<a, 0>>].first) = Reach(a) + n
      BY <1>5, <1>6, <3>1 DEF Reach
    <3> QED
      BY <2>1, <3>2 DEF Reach, Back
  <2>3. ASSUME NEW k \in 0 .. MaxDesc - 1, xfer[<<a, k>>].num > 0
        PROVE  Back(desc_idx', xfer[<<a, k>>].first)
                 = Back(desc_idx, xfer[<<a, k>>].first) + n
    <3>1. Back(desc_idx, xfer[<<a, k>>].first) = Reach(a) - xfer[<<a, k>>].off
      BY <2>3 DEF Window, Laid
    <3>2. /\ xfer[<<a, k>>].first \in Slots /\ xfer[<<a, k>>].off \in Nat
          /\ Reach(a) \in Nat
      BY Lemma_Numbers
    <3> QED
      BY <1>5, <1>6, <3>1, <3>2
  <2> QED
    BY <2>1, <2>2, <2>3
<1>7. \A a \in Async : /\ req[a].idx \in Nat /\ Reach(a) \in Nat /\ Reach(a) > 0
                       /\ Room(a) \in Nat
  BY <1>2, Lemma_Numbers, Lemma_RoomNat
<1>8. \A a \in Async : Flying(a) => req[a].idx > 0 /\ Reach(a)' = Reach(a) + n
  <2>1. ASSUME NEW a \in Async, Flying(a) PROVE req[a].idx > 0
    <3>1. a \in Calls /\ req[a].tfer \in Nat
      BY Lemma_Numbers
    <3> QED
      BY <1>7, <2>1, <3>1 DEF Flying, RequestShape, Shape
  <2> QED
    BY <1>6, <2>1
<1>9. /\ Reach(r)' = req[r].idx + n
      /\ req[r].idx > 0 => Reach(r) = req[r].idx
  <2>1. CASE req[r].idx > 0
    <3>1. Reach(r) = req[r].idx
      BY <1>2, <2>1 DEF Window, Laid
    <3> QED
      BY <1>6, <2>1, <3>1
  <2>2. CASE req[r].idx = 0
    <3>1. t = <<r, 0>>
      BY <1>1, <1>2, <2>2
    <3>2. xfer'[<<r, 0>>].first = desc_idx
      BY <1>1, <3>1
    <3>3. Back(desc_idx', desc_idx) = n
      <4>1. desc_idx \in desc_idx .. desc_idx + n - 1 /\ desc_idx - desc_idx = 0
            /\ n - 0 = n
        BY <1>1 DEF Slots
      <4>2. Back(desc_idx', desc_idx) = n - (desc_idx - desc_idx)
        BY <1>1, <4>1, Lemma_Back
      <4> QED
        BY <4>1, <4>2
    <3>4. Reach(r)' = n
      BY <3>2, <3>3 DEF Reach, Back
    <3> QED
      BY <2>2, <3>4
  <2> QED
    BY <1>7, <2>1, <2>2
<1>10. Apart'
  <2>1. \A c \in Async : Building(c)' <=> c = r
    BY <1>2, <1>3
  <2>2. Newest(r)'
    <3>1. ASSUME NEW a \in Async, Flying(a)'
          PROVE  Reach(a)' - req'[a].idx >= req'[r].idx
      <4>1. /\ Flying(a) /\ a # r /\ req'[a] = req[a] /\ Reach(a)' = Reach(a) + n
            /\ Reach(a) - req[a].idx >= req[r].idx
        BY <1>2, <1>3, <1>4, <1>8, <3>1 DEF Apart, Newest
      <4> QED
        BY <1>1, <1>7, <4>1
    <3> QED
      BY <3>1 DEF Newest
  <2>3. ASSUME NEW a \in Async, NEW b \in Async, a # b, Flying(a)', Flying(b)'
        PROVE  Before(a, b)' \/ Before(b, a)'
    <3>1. /\ Reach(a)' = Reach(a) + n /\ Reach(b)' = Reach(b) + n
          /\ req'[a] = req[a] /\ req'[b] = req[b]
          /\ Before(a, b) \/ Before(b, a)
      BY <1>2, <1>3, <1>4, <1>8, <2>3 DEF Apart
    <3> QED
      BY <1>1, <1>7, <3>1 DEF Before
  <2> QED
    BY <2>1, <2>2, <2>3 DEF Apart
<1>11. Aged'
  <2>1. ASSUME NEW i \in 1 .. Len(list), NEW a \in Async, a = list[i][1]
        PROVE  Reach(a)' = Reach(a) + n
    <3>1. list[i] \in Xfers /\ Queued(list[i])
      BY Lemma_Listed, ListEntries DEF Sound
    <3>2. PICK k : k = list[i][2]
      OBVIOUS
    <3>3. k \in 0 .. MaxDesc - 1 /\ list[i] = <<a, k>>
      BY <2>1, <3>1, <3>2, Lemma_Xfers
    <3>4. xfer[<<a, k>>].num > 0 /\ xfer[<<a, k>>].off + xfer[<<a, k>>].num <= req[a].idx
      BY <3>1, <3>3 DEF Sound, Parted
    <3>5. xfer[<<a, k>>].num \in Nat /\ xfer[<<a, k>>].off \in Nat
      BY <3>3, Lemma_Numbers
    <3>6. req[a].idx > 0
      <4>1. req[a].idx \in Nat
        BY <1>7
      <4> QED
        BY <3>4, <3>5, <4>1
    <3>7. Building(a) \/ Flying(a)
      <4>1. Held(list[i]) /\ list[i][1] = a /\ Laid(a)
        BY <2>1, <3>1 DEF Held, Window
      <4> QED
        BY <3>1, <4>1, Lemma_HeldCalls
    <3> QED
      BY <1>3, <1>6, <3>6, <3>7
  <2>2. ASSUME NEW i \in 1 .. Len(list), NEW j \in 1 .. Len(list), i < j,
               NEW a \in Async, NEW b \in Async, a # b,
               a = list[i][1], b = list[j][1]
        PROVE  Reach(b)' < Reach(a)'
    <3>1. Reach(b) < Reach(a)
      BY <2>2 DEF Window, Aged
    <3>2. Reach(a)' = Reach(a) + n /\ Reach(b)' = Reach(b) + n
      BY <2>1, <2>2
    <3> QED
      BY <1>1, <1>7, <3>1, <3>2
  <2> QED
    BY <1>2, <2>2 DEF Aged, Reach, Back
<1>12. ASSUME NEW a \in Async PROVE Laid(a)' /\ Numbered(a)'
  <2>0. Laid(a) /\ Numbered(a)
    BY DEF Window
  <2>1. CASE a # r /\ ~ Flying(a)
    <3>1. pc[a] = "idle"
      <4>1. pc[a] \in Places /\ pc[a] \notin {"lock", "wait"} /\ ~ Building(a)
        BY <1>3, <2>0, <2>1 DEF Laid, TypeOK, Calls
      <4> QED
        BY <2>1, <4>1 DEF Building, Flying, Places
    <3>2. req[a].idx = 0
      BY <1>7, <3>1, Lemma_Numbers DEF RequestShape, Shape, NoReq
    <3>3. \A k \in 0 .. MaxDesc - 1 : ~ (xfer[<<a, k>>].num > 0)
      <4>1. ASSUME NEW k \in 0 .. MaxDesc - 1, xfer[<<a, k>>].num > 0 PROVE FALSE
        <5>1. xfer[<<a, k>>].num \in Nat /\ xfer[<<a, k>>].off \in Nat
          BY Lemma_Numbers
        <5>2. xfer[<<a, k>>].off + xfer[<<a, k>>].num <= 0
          BY <2>0, <3>2, <4>1 DEF Laid
        <5> QED
          BY <4>1, <5>1, <5>2
      <4> QED
        BY <4>1
    <3> QED
      BY <1>3, <2>1, <3>1, <3>2, <3>3 DEF Laid, Numbered
  <2>2. CASE Flying(a)
    <3>1. /\ a # r /\ req'[a] = req[a] /\ pc'[a] = pc[a] /\ ~ Building(a)'
          /\ \A k \in 0 .. MaxDesc - 1 : xfer'[<<a, k>>] = xfer[<<a, k>>]
          /\ Reach(a)' = Reach(a) + n /\ req[a].idx > 0
      BY <1>3, <1>4, <1>8, <2>2
    <3>2. \A k \in 0 .. MaxDesc - 1 : xfer[<<a, k>>].num > 0 =>
            /\ xfer[<<a, k>>].first + xfer[<<a, k>>].num <= RingSize
            /\ xfer[<<a, k>>].off + xfer[<<a, k>>].num <= req[a].idx
            /\ Back(desc_idx', xfer[<<a, k>>].first)
                 = Reach(a)' - xfer[<<a, k>>].off
      <4>1. ASSUME NEW k \in 0 .. MaxDesc - 1, xfer[<<a, k>>].num > 0
            PROVE  Back(desc_idx', xfer[<<a, k>>].first)
                     = Reach(a)' - xfer[<<a, k>>].off
        <5>1. /\ Back(desc_idx, xfer[<<a, k>>].first) = Reach(a) - xfer[<<a, k>>].off
              /\ <<a, k>> # t
          BY <1>1, <2>0, <3>1, <4>1 DEF Laid
        <5>2. Back(desc_idx', xfer[<<a, k>>].first)
                = Back(desc_idx, xfer[<<a, k>>].first) + n
          BY <1>6, <2>2, <3>1, <4>1, <5>1
        <5>3. xfer[<<a, k>>].off \in Nat
          BY Lemma_Numbers
        <5> QED
          BY <1>1, <1>7, <3>1, <5>1, <5>2, <5>3
      <4> QED
        BY <2>0, <4>1 DEF Laid
    <3>3. /\ xfer[<<a, 0>>].num > 0 /\ xfer[<<a, 0>>].off = 0
          /\ req[a].idx <= Reach(a) + n
      BY <1>1, <1>7, <2>0, <3>1 DEF Laid
    <3>4. Laid(a)'
      <4>1. pc'[a] \notin {"lock", "wait"} /\ ~ (Building(a)' /\ req'[a].idx > 0)
        BY <2>2, <3>1 DEF Flying
      <4>2. req'[a].idx > 0 =>
              xfer'[<<a, 0>>].num > 0 /\ xfer'[<<a, 0>>].off = 0
                /\ req'[a].idx <= Reach(a)'
        BY <3>1, <3>3, Lemma_Zero
      <4>3. \A k \in 0 .. MaxDesc - 1 : xfer'[<<a, k>>].num > 0 =>
              /\ xfer'[<<a, k>>].first + xfer'[<<a, k>>].num <= RingSize
              /\ xfer'[<<a, k>>].off + xfer'[<<a, k>>].num <= req'[a].idx
              /\ Back(desc_idx', xfer'[<<a, k>>].first)
                   = Reach(a)' - xfer'[<<a, k>>].off
        <5>1. ASSUME NEW k \in 0 .. MaxDesc - 1
              PROVE  xfer'[<<a, k>>] = xfer[<<a, k>>]
          BY <3>1
        <5> QED
          BY <3>1, <3>2, <5>1
      <4> QED
        BY <4>1, <4>2, <4>3, Lemma_LaidNext
    <3>5. Numbered(a)'
      BY <2>0, <3>1 DEF Numbered
    <3> QED
      BY <3>4, <3>5
  <2>3. CASE a = r
    <3>1. ASSUME NEW k \in 0 .. MaxDesc - 1, xfer'[<<r, k>>].num > 0
          PROVE  /\ xfer'[<<r, k>>].first + xfer'[<<r, k>>].num <= RingSize
                 /\ xfer'[<<r, k>>].off + xfer'[<<r, k>>].num <= req'[r].idx
                 /\ Back(desc_idx', xfer'[<<r, k>>].first)
                      = Reach(r)' - xfer'[<<r, k>>].off
                 /\ k <= req[r].tfer
      <4>1. CASE <<r, k>> = t
        <5>1. /\ xfer'[<<r, k>>].first = desc_idx /\ xfer'[<<r, k>>].num = n
              /\ xfer'[<<r, k>>].off = req[r].idx /\ k = req[r].tfer
          BY <1>1, <4>1
        <5>2. Back(desc_idx', desc_idx) = n
          <6>1. desc_idx \in desc_idx .. desc_idx + n - 1 /\ desc_idx - desc_idx = 0
                /\ n - 0 = n
            BY <1>1 DEF Slots
          <6>2. Back(desc_idx', desc_idx) = n - (desc_idx - desc_idx)
            BY <1>1, <6>1, Lemma_Back
          <6> QED
            BY <6>1, <6>2
        <5>3. desc_idx \in Nat /\ req[r].tfer \in Nat /\ req[r].idx \in Nat
          BY <1>1, SizesPositive, Lemma_Numbers DEF Slots
        <5> QED
          BY <1>1, <1>9, <5>1, <5>2, <5>3
      <4>2. CASE <<r, k>> # t
        <5>1. xfer'[<<r, k>>] = xfer[<<r, k>>] /\ xfer[<<r, k>>].num > 0
          BY <1>1, <1>2, <3>1, <4>2, Lemma_Xfers
        <5>2. /\ xfer[<<r, k>>].first + xfer[<<r, k>>].num <= RingSize
              /\ xfer[<<r, k>>].off + xfer[<<r, k>>].num <= req[r].idx
              /\ Back(desc_idx, xfer[<<r, k>>].first) = Reach(r) - xfer[<<r, k>>].off
              /\ k < req[r].tfer
          BY <1>1, <2>0, <2>3, <5>1 DEF Laid, Numbered
        <5>3. /\ xfer[<<r, k>>].num \in Nat /\ xfer[<<r, k>>].off \in Nat
              /\ req[r].idx \in Nat /\ req[r].tfer \in Nat /\ Reach(r) \in Nat
          BY Lemma_Numbers
        <5>4. req[r].idx > 0
          BY <5>1, <5>2, <5>3
        <5>5. Back(desc_idx', xfer[<<r, k>>].first)
                = Back(desc_idx, xfer[<<r, k>>].first) + n
          BY <1>6, <4>2, <5>1, <5>4
        <5>6. Reach(r) = req[r].idx
          BY <1>9, <5>4
        <5> QED
          BY <1>1, <1>9, <5>1, <5>2, <5>3, <5>5, <5>6
      <4> QED
        BY <4>1, <4>2
    <3>2. xfer'[<<r, 0>>].num > 0 /\ xfer'[<<r, 0>>].off = 0
      <4>1. CASE req[r].idx = 0
        <5>1. t = <<r, 0>>
          BY <1>1, <1>2, <4>1
        <5> QED
          BY <1>1, <4>1, <5>1
      <4>2. CASE req[r].idx > 0
        <5>1. xfer'[<<r, 0>>] = xfer[<<r, 0>>]
          BY <1>6, <4>2
        <5> QED
          BY <2>0, <2>3, <4>2, <5>1 DEF Laid
      <4> QED
        BY <1>7, <4>1, <4>2
    <3>3. Laid(r)'
      <4>1. /\ Reach(r)' = req'[r].idx /\ req'[r].idx = req[r].idx + n
            /\ req'[r].idx \in Nat
        BY <1>1, <1>7, <1>9
      <4> QED
        <5>1. \A k \in 0 .. MaxDesc - 1 : xfer'[<<r, k>>].num > 0 =>
                /\ xfer'[<<r, k>>].first + xfer'[<<r, k>>].num <= RingSize
                /\ xfer'[<<r, k>>].off + xfer'[<<r, k>>].num <= req'[r].idx
                /\ Back(desc_idx', xfer'[<<r, k>>].first)
                     = Reach(r)' - xfer'[<<r, k>>].off
          BY <3>1
        <5>2. pc'[r] \notin {"lock", "wait"} /\ req'[r].idx <= Reach(r)'
          BY <1>1, <4>1
        <5> QED
          BY <3>2, <4>1, <5>1, <5>2, Lemma_LaidNext
    <3>4. Numbered(r)'
      BY <1>1, <3>1 DEF Numbered
    <3> QED
      BY <2>3, <3>3, <3>4
  <2> QED
    BY <2>1, <2>2, <2>3
<1>13. ASSUME NEW a \in Async, Flying(a)' PROVE Ending(a)' /\ Filled(a)'
  <2>1. /\ Flying(a) /\ a # r /\ req'[a] = req[a]
        /\ \A k \in 0 .. MaxDesc - 1 : xfer'[<<a, k>>] = xfer[<<a, k>>]
        /\ Reach(a)' = Reach(a) + n /\ Ending(a) /\ Filled(a)
    BY <1>3, <1>4, <1>8, <1>13 DEF Window
  <2>2. Ending(a)'
    BY <2>1 DEF Ending, Queued
  <2>3. Rank(a)' = Rank(a)
    <3>1. \A b \in Async : Flying(b) =>
            (Reach(b)' <= Reach(a)' <=> Reach(b) <= Reach(a))
      BY <1>1, <1>7, <1>8, <2>1
    <3> QED
      BY <1>4, <3>1 DEF Rank
  <2>4. Reach(a) <= Room(a) + req[r].idx
    BY <1>2, <2>1 DEF Filled
  <2>5. Room(a)' = Room(a)
    BY <2>3 DEF Room
  <2>6. Reach(a)' <= Room(a)' + req'[r].idx
    BY <1>1, <1>7, <2>1, <2>4, <2>5
  <2>7. \A c \in Async : Building(c)' <=> c = r
    BY <1>2, <1>3
  <2> QED
    BY <2>2, <2>6, <2>7 DEF Filled
<1> QED
  BY <1>10, <1>11, <1>12, <1>13 DEF Window

\* A transfer that is queued is one of a request in the ring.
LEMMA Lemma_QueuedCalls ==
  ASSUME TypeInv, Sound, Window, NEW u \in Xfers, Queued(u), u[1] \in Async
  PROVE  /\ Building(u[1]) \/ Flying(u[1])
         /\ req[u[1]].idx > 0
<1> USE DEF TypeInv
<1>1. PICK a, k : a = u[1] /\ k = u[2]
  OBVIOUS
<1>2. /\ k \in 0 .. MaxDesc - 1 /\ u = <<a, k>> /\ a \in Async
      /\ Laid(a) /\ Parted(a)
  BY <1>1, Lemma_Xfers DEF Window, Sound
<1>3. xfer[<<a, k>>].num > 0 /\ xfer[<<a, k>>].off + xfer[<<a, k>>].num <= req[a].idx
  BY <1>2 DEF Parted
<1>4. /\ xfer[<<a, k>>].num \in Nat /\ xfer[<<a, k>>].off \in Nat
      /\ req[a].idx \in Nat
  BY <1>2, Lemma_Numbers
<1>5. req[a].idx > 0
  BY <1>3, <1>4
<1>6. Held(u)
  BY DEF Held
<1> QED
  BY <1>1, <1>2, <1>5, <1>6, Lemma_HeldCalls

\* The request that goes on the list is the newest; with its last part it
\* joins the others.
LEMMA Window_TransferQueue ==
  ASSUME Roomy, RingInv, NEW r \in Async, TransferQueue(r)
  PROVE  Window'
<1> USE DEF TypeInv, RingInv
<1>1. PICK t : t = <<r, req[r].tfer>>
  OBVIOUS
<1>2. /\ r \in Calls /\ r \notin Sync /\ t \in Xfers /\ t = Current(r)
      /\ IsFiniteSet(Async) /\ Sync = {} /\ Apart
      /\ req[r] \in Requests /\ req[r].tfer \in 0 .. MaxDesc - 1
      /\ xfer[t] \in Transfers
  <2>1. r \in Calls /\ r \notin Sync /\ req[r] \in Requests
    BY CallsDisjoint DEF Calls, TypeOK
  <2>2. t \in Xfers /\ t = Current(r)
    BY <1>1, <2>1, Lemma_Current DEF Current
  <2> QED
    BY <2>1, <2>2 DEF Requests, Window, Roomy, TypeOK
<1>3. /\ pc[r] = "enqueue" /\ desc_idx' = desc_idx
      /\ xfer' = [xfer EXCEPT ![t].state = "SUBMITTED"] /\ list' = Append(list, t)
      /\ Goto(r, IF req[r].idx < req[r].cnt THEN "init" ELSE "flight")
      /\ req' = IF req[r].idx < req[r].cnt THEN [req EXCEPT ![r].tfer = @ + 1]
                ELSE req
  BY <1>2 DEF TransferQueue, AddTail, ringVars
<1>4. \A a \in Async, k \in 0 .. MaxDesc - 1 :
        /\ xfer'[<<a, k>>].first = xfer[<<a, k>>].first
        /\ xfer'[<<a, k>>].num = xfer[<<a, k>>].num
        /\ xfer'[<<a, k>>].off = xfer[<<a, k>>].off
        /\ Queued(<<a, k>>) => Queued(<<a, k>>)'
  <2>1. /\ xfer'[t] = [xfer[t] EXCEPT !.state = "SUBMITTED"]
        /\ \A u \in Xfers : u # t => xfer'[u] = xfer[u]
    BY <1>2, <1>3 DEF TypeOK
  <2>2. \A u \in Xfers : /\ xfer'[u].first = xfer[u].first
                         /\ xfer'[u].num = xfer[u].num
                         /\ xfer'[u].off = xfer[u].off
                         /\ Queued(u) => Queued(u)'
    BY <1>2, <2>1 DEF Transfers, Queued
  <2> QED
    BY <2>2, Lemma_Xfers DEF Calls
<1>5. /\ \A a \in Async : a # r => pc'[a] = pc[a] /\ req'[a] = req[a]
      /\ req'[r].idx = req[r].idx /\ req'[r].cnt = req[r].cnt
      /\ pc'[r] = IF req[r].idx < req[r].cnt THEN "init" ELSE "flight"
      /\ req[r].idx < req[r].cnt => req'[r].tfer = req[r].tfer + 1
  <2>1. \A a \in Async : a \in Calls
    BY DEF Calls
  <2>2. req'[r] = IF req[r].idx < req[r].cnt THEN [req[r] EXCEPT !.tfer = @ + 1]
                  ELSE req[r]
    BY <1>2, <1>3 DEF TypeOK
  <2> QED
    BY <1>2, <1>3, <2>1, <2>2 DEF Requests, Goto, TypeOK
<1>6. /\ Building(r) /\ ~ Flying(r)
      /\ \A a \in Async : a # r =>
           /\ ~ Building(a) /\ ~ Building(a)' /\ (Flying(a)' <=> Flying(a))
  BY <1>2, <1>3, <1>5 DEF Building, Flying, Apart
<1>7. \A a \in Async : Reach(a)' = Reach(a)
  BY <1>3, <1>4, Lemma_Reaches, Lemma_Zero
<1>8. \A a \in Async : /\ req[a].idx \in Nat /\ req[a].cnt \in Nat
                       /\ req[a].cnt <= MaxDesc /\ MaxDesc \in Nat
                       /\ Reach(a) \in Nat /\ Room(a) \in Nat
  BY <1>2, Lemma_Numbers, Lemma_RoomNat
<1>9. req[r].idx > 0 /\ Reach(r) = req[r].idx /\ req[r].idx <= req[r].cnt
  <2>1. req[r].idx > 0 /\ req[r].idx <= req[r].cnt
    BY <1>2, <1>3 DEF RequestShape, Shape, Requests
  <2> QED
    BY <1>6, <2>1 DEF Window, Laid
<1>10. Aged'
  <2>1. ASSUME NEW i \in 1 .. Len(list), list[i][1] \in Async, list[i][1] # r
        PROVE  Reach(r) < Reach(list[i][1])
    <3>1. list[i] \in Xfers /\ Queued(list[i])
      BY Lemma_Listed, ListEntries DEF Sound
    <3>2. PICK a : a = list[i][1]
      OBVIOUS
    <3>3. Flying(a) /\ req[a].idx > 0
      BY <1>6, <2>1, <3>1, <3>2, Lemma_QueuedCalls
    <3>4. Reach(a) - req[a].idx >= req[r].idx
      BY <1>2, <1>6, <2>1, <3>2, <3>3 DEF Apart, Newest
    <3>5. Reach(r) < Reach(a)
      BY <1>8, <1>9, <2>1, <3>2, <3>3, <3>4
    <3> QED
      BY <3>2, <3>5
  <2>2. Aged /\ list \in Seq(Xfers) /\ t[1] = r
    BY <1>1 DEF Window, TypeOK
  <2> QED
    BY <1>3, <1>7, <2>1, <2>2, Lemma_AgedAppend
<1>11. \A a \in Async : Laid(a) /\ Numbered(a) /\ (Flying(a) => Ending(a)')
  BY <1>4, <1>5, <1>6 DEF Window, Ending
<1>12. CASE req[r].idx < req[r].cnt
  <2>1. /\ Building(r)' /\ ~ Flying(r)' /\ pc'[r] = "init"
        /\ req'[r].tfer = req[r].tfer + 1
    BY <1>5, <1>12 DEF Building, Flying
  <2>2. Numbered(r)'
    <3>1. \A k \in 0 .. MaxDesc - 1 : k <= req[r].tfer => k < req[r].tfer + 1
      BY <1>2, SizesPositive
    <3> QED
      BY <1>3, <1>4, <1>11, <2>1, <3>1 DEF Numbered
  <2>3. \A a \in Async : a # r => Numbered(a)'
    BY <1>4, <1>5, <1>11 DEF Numbered
  <2>4. \A a \in Async : pc'[a] \notin {"lock", "wait"} /\ req'[a].idx = req[a].idx
    BY <1>5, <1>11, <2>1 DEF Laid
  <2> QED
    BY <1>3, <1>4, <1>6, <1>10, <1>11, <2>1, <2>2, <2>3, <2>4, Window_Still
<1>13. CASE ~ (req[r].idx < req[r].cnt)
  <2>1. /\ Flying(r)' /\ pc'[r] = "flight" /\ req' = req /\ req[r].idx = req[r].cnt
        /\ \A a \in Async : ~ Building(a)'
    BY <1>3, <1>5, <1>6, <1>8, <1>9, <1>13 DEF Building, Flying
  <2>2. \A a \in Async : Flying(a)' <=> Flying(a) \/ a = r
    BY <1>6, <2>1
  <2>3. Apart'
    <3>1. ASSUME NEW a \in Async, NEW b \in Async, a # b, Flying(a)', Flying(b)'
          PROVE  Before(a, b)' \/ Before(b, a)'
      <4>1. CASE a = r
        <5>1. Reach(b) - req[b].idx >= req[r].idx
          BY <1>2, <1>6, <2>2, <3>1, <4>1 DEF Apart, Newest
        <5> QED
          BY <1>7, <1>9, <2>1, <4>1, <5>1 DEF Before
      <4>2. CASE b = r
        <5>1. Reach(a) - req[a].idx >= req[r].idx
          BY <1>2, <1>6, <2>2, <3>1, <4>2 DEF Apart, Newest
        <5> QED
          BY <1>7, <1>9, <2>1, <4>2, <5>1 DEF Before
      <4>3. CASE a # r /\ b # r
        BY <1>2, <1>7, <2>1, <2>2, <3>1, <4>3 DEF Apart, Before
      <4> QED
        BY <4>1, <4>2, <4>3
    <3> QED
      BY <2>1, <3>1 DEF Apart
  <2>4. ASSUME NEW a \in Async PROVE Laid(a)' /\ Numbered(a)'
    <3>1. Laid(a) /\ Reach(a)' = Reach(a)
      BY <1>7, <1>11
    <3>2. Numbered(a)'
      BY <1>4, <1>5, <1>11, <2>1 DEF Numbered
    <3>3. pc'[a] \notin {"lock", "wait"}
      BY <1>5, <1>11, <2>1 DEF Laid
    <3> QED
      BY <1>3, <1>4, <2>1, <3>1, <3>2, <3>3, Lemma_Zero DEF Laid, Back
  <2>5. Ending(r)'
    <3>1. xfer'[t].state = "SUBMITTED"
      BY <1>2, <1>3 DEF TypeOK
    <3>2. xfer[t].off + xfer[t].num = req[r].cnt
      BY <1>1, <1>3, <2>1 DEF Sound, Parted
    <3> QED
      BY <1>1, <1>2, <1>4, <2>1, <3>1, <3>2 DEF Ending, Queued
  <2>6. ASSUME NEW a \in Async, Flying(a)' PROVE Filled(a)'
    <3>1. CASE a = r
      <4>1. r \in Rank(r)'
        BY <1>7, <1>8, <2>1 DEF Rank
      <4>2. Rank(r)' \in SUBSET Async
        BY DEF Rank
      <4>3. PICK S : S = Rank(r)'
        OBVIOUS
      <4>4. IsFiniteSet(S) /\ Cardinality(S) \in Nat /\ Cardinality(S) # 0
        BY <1>2, <4>1, <4>2, <4>3, FS_Subset, FS_CardinalityType, FS_EmptySet
      <4>5. MaxDesc * 1 <= MaxDesc * Cardinality(S)
        BY <4>4, Lemma_Times
      <4>6. Room(r)' = MaxDesc * Cardinality(S)
        BY <4>3 DEF Room
      <4>7. MaxDesc * Cardinality(S) \in Nat /\ MaxDesc * 1 = MaxDesc
        BY <1>8, <4>4, Lemma_Times
      <4>8. Reach(r)' <= Room(r)'
        BY <1>7, <1>8, <1>9, <4>5, <4>6, <4>7
      <4> QED
        BY <2>1, <3>1, <4>8 DEF Filled
    <3>2. CASE a # r
      <4>1. Flying(a) /\ Filled(a)
        BY <2>2, <2>6, <3>2 DEF Window
      <4>2. Reach(a) <= Room(a) + req[r].idx
        BY <1>6, <4>1 DEF Filled
      <4>3. Reach(r) <= Reach(a)
        <5>1. Reach(a) - req[a].idx >= req[r].idx
          BY <1>2, <1>6, <4>1 DEF Apart, Newest
        <5> QED
          BY <1>8, <1>9, <5>1
      <4>4. Rank(a)' = Rank(a) \cup {r}
        BY <1>7, <2>2, <4>3 DEF Rank
      <4>5. r \notin Rank(a) /\ Rank(a) \in SUBSET Async
        BY <1>6 DEF Rank
      <4>6. Cardinality(Rank(a) \cup {r}) = Cardinality(Rank(a)) + 1
        BY <1>2, <4>5, FS_AddElement, Lemma_RoomNat
      <4>7. Room(a)' = Room(a) + MaxDesc
        BY <1>2, <4>4, <4>6, Lemma_RoomNat, Lemma_Times DEF Room
      <4>8. Reach(a)' <= Room(a)'
        BY <1>7, <1>8, <1>9, <4>2, <4>7
      <4> QED
        BY <2>1, <4>8 DEF Filled
    <3> QED
      BY <3>1, <3>2
  <2>7. ASSUME NEW a \in Async, Flying(a)' PROVE Ending(a)'
    BY <1>11, <2>2, <2>5, <2>7
  <2> QED
    BY <1>10, <2>3, <2>4, <2>6, <2>7 DEF Window
<1> QED
  BY <1>12, <1>13

\* A finished transfer leaves its request where it is; with its last part the
\* request leaves the ring, which is the oldest.
LEMMA Window_Finish ==
  ASSUME Roomy, RingInv, Sound', TypeInv', list # << >>, list' = Tail(list),
         NEW state \in {"COMPLETED", "FAILED"}, Finish(Head(list), state),
         desc_idx' = desc_idx, Async # {}
  PROVE  Window'
<1> USE DEF TypeInv, RingInv
<1>0. Sync = {} /\ IsFiniteSet(Async)
  BY DEF Roomy
<1>1. PICK t \in Xfers : Leaves(t, state)
  BY Lemma_FinishFacts DEF Sound
<1> USE DEF Leaves
<1>2. /\ t[1] \in Async /\ xfer[t] \in Transfers /\ list \in Seq(Xfers) /\ Aged
      /\ t = list[1] /\ Len(list) \in Nat \ {0}
      /\ \A a \in Async : a \in Calls
  <2>1. t[1] \in Async /\ \A a \in Async : a \in Calls
    BY <1>0, Lemma_Xfers DEF Calls
  <2>2. list \in Seq(Xfers) /\ t = list[1] /\ Len(list) \in Nat \ {0}
    BY <1>1, Lemma_Listed, ListEntries, ListTail DEF Sound
  <2> QED
    BY <2>1, <2>2 DEF TypeOK, Window
<1>3. CASE ~ LastInRequest(t)
  <2>1. /\ pc' = pc /\ req' = req
        /\ \A u \in Xfers : /\ xfer'[u].first = xfer[u].first
                            /\ xfer'[u].num = xfer[u].num
                            /\ xfer'[u].off = xfer[u].off
                            /\ u # t => xfer'[u] = xfer[u]
    BY <1>1, <1>2, <1>3 DEF Transfers
  <2>2. \A a \in Async, k \in 0 .. MaxDesc - 1 :
          /\ <<a, k>> \in Xfers
          /\ xfer'[<<a, k>>].first = xfer[<<a, k>>].first
          /\ xfer'[<<a, k>>].num = xfer[<<a, k>>].num
          /\ xfer'[<<a, k>>].off = xfer[<<a, k>>].off
    BY <1>2, <2>1, Lemma_Xfers
  <2>3. \A a \in Async : Reach(a)' = Reach(a)
    BY <2>2, Lemma_Reaches, Lemma_Zero
  <2>4. Aged'
    BY <1>2, <2>3, Lemma_AgedTail
  <2>5. ASSUME NEW a \in Async, Flying(a) PROVE Ending(a)'
    <3>1. PICK k \in 0 .. MaxDesc - 1 :
            Queued(<<a, k>>) /\ xfer[<<a, k>>].off + xfer[<<a, k>>].num = req[a].cnt
      BY <2>5 DEF Window, Ending
    <3>2. <<a, k>> \in Xfers /\ <<a, k>>[1] = a
      BY <2>2
    <3>3. <<a, k>> # t
      BY <1>3, <3>1, <3>2 DEF LastInRequest
    <3>4. Queued(<<a, k>>)'
      BY <2>1, <3>1, <3>2, <3>3 DEF Queued
    <3> QED
      BY <2>1, <2>2, <3>1, <3>4 DEF Ending
  <2>6. \A a \in Async : /\ pc'[a] \notin {"lock", "wait"}
                         /\ (Building(a)' <=> Building(a)) /\ (Flying(a)' <=> Flying(a))
    BY <2>1 DEF Window, Laid, Building, Flying
  <2>7. \A a \in Async : Numbered(a)'
    BY <2>1, <2>2 DEF Window, Numbered
  <2> QED
    BY <2>1, <2>2, <2>4, <2>5, <2>6, <2>7, Window_Still
<1>4. CASE LastInRequest(t)
  <2>1. PICK a : a = t[1]
    OBVIOUS
  <2>2. /\ a \in Async /\ a \in Calls /\ Flying(a) /\ Laid(a) /\ Apart
    <3>1. a \in Async /\ a \in Calls /\ Laid(a) /\ Apart
      BY <1>2, <2>1 DEF Window
    <3> QED
      BY <1>1, <1>4, <2>1, <3>1, Lemma_Last DEF Laid
  <2>3. /\ pc'[a] = "idle" /\ req'[a] = NoReq
        /\ \A k \in 0 .. MaxDesc - 1 : xfer'[<<a, k>>] = NoXfer
        /\ \A b \in Async : b # a =>
             /\ pc'[b] = pc[b] /\ req'[b] = req[b]
             /\ \A k \in 0 .. MaxDesc - 1 : xfer'[<<b, k>>] = xfer[<<b, k>>]
    BY <1>1, <1>2, <1>4, <2>1, <2>2, Lemma_Xfers
  <2>4. \A b \in Async : b # a => Reach(b)' = Reach(b)
    BY <2>3, Lemma_Reaches, Lemma_Zero
  <2>5. /\ ~ Building(a)' /\ ~ Flying(a)' /\ ~ Building(a)
        /\ \A b \in Async : b # a =>
             (Building(b)' <=> Building(b)) /\ (Flying(b)' <=> Flying(b))
    BY <2>2, <2>3 DEF Building, Flying
  <2>6. Apart'
    <3>1. \A b, c \in Async : Building(b)' /\ Building(c)' => b = c
      BY <2>2, <2>5 DEF Apart
    <3>2. ASSUME NEW c \in Async, Building(c)' PROVE Newest(c)'
      <4>1. c # a /\ Newest(c)
        BY <2>2, <2>5, <3>2 DEF Apart
      <4> QED
        BY <2>3, <2>4, <2>5, <4>1 DEF Newest
    <3>3. ASSUME NEW b \in Async, NEW c \in Async, b # c, Flying(b)', Flying(c)'
          PROVE  Before(b, c)' \/ Before(c, b)'
      <4>1. b # a /\ c # a /\ (Before(b, c) \/ Before(c, b))
        BY <2>2, <2>5, <3>3 DEF Apart
      <4> QED
        BY <2>3, <2>4, <4>1 DEF Before
    <3> QED
      BY <3>1, <3>2, <3>3 DEF Apart
  <2>7. Aged'
    <3>1. ASSUME NEW i \in 1 .. Len(list) - 1, list'[i][1] \in Async
          PROVE  list'[i][1] # a
      <4>1. list' \in Seq(Xfers) /\ Len(list') = Len(list) - 1 /\ i \in 1 .. Len(list')
        BY <1>2, <3>1, ListEntries
      <4>2. list'[i] \in Range(list') /\ list'[i] \in Xfers
        BY <4>1 DEF Range
      <4>3. xfer'[list'[i]].state = "SUBMITTED"
        BY <4>2 DEF Sound, QueueWellFormed, Queued
      <4>4. list'[i][1] = a => xfer'[list'[i]] = NoXfer
        BY <1>1, <1>4, <2>1, <4>2
      <4> QED
        BY <4>3, <4>4 DEF NoXfer
    <3> QED
      BY <1>2, <2>4, <3>1, Lemma_AgedTail
  <2>8. ASSUME NEW b \in Async PROVE Laid(b)' /\ Numbered(b)'
    <3>1. CASE b = a
      BY <2>3, <2>5, <3>1, SizesPositive DEF Laid, Numbered, NoReq, NoXfer
    <3>2. CASE b # a
      <4>1. /\ Laid(b) /\ Numbered(b) /\ Reach(b)' = Reach(b)
            /\ pc'[b] = pc[b] /\ req'[b] = req[b]
            /\ \A k \in 0 .. MaxDesc - 1 : xfer'[<<b, k>>] = xfer[<<b, k>>]
        BY <2>3, <2>4, <3>2 DEF Window
      <4>2. Numbered(b)'
        BY <4>1 DEF Numbered
      <4>3. Laid(b)'
        BY <2>5, <3>2, <4>1, Lemma_Zero DEF Laid, Back
      <4> QED
        BY <4>2, <4>3
    <3> QED
      BY <3>1, <3>2
  <2>9. ASSUME NEW b \in Async, Flying(b)' PROVE Ending(b)' /\ Filled(b)'
    <3>1. /\ b # a /\ Flying(b) /\ Ending(b) /\ Filled(b)
          /\ req'[b] = req[b] /\ Reach(b)' = Reach(b)
          /\ \A k \in 0 .. MaxDesc - 1 : xfer'[<<b, k>>] = xfer[<<b, k>>]
      BY <2>3, <2>4, <2>5, <2>9 DEF Window
    <3>2. Ending(b)'
      BY <3>1 DEF Ending, Queued
    <3>3. Reach(b) < Reach(a)
      <4>1. PICK k \in 0 .. MaxDesc - 1 : Queued(<<b, k>>)
        BY <3>1 DEF Ending
      <4>2. <<b, k>> \in Xfers /\ <<b, k>>[1] = b
        BY <1>2, Lemma_Xfers
      <4>3. PICK j \in 1 .. Len(list) : list[j] = <<b, k>>
        <5>1. <<b, k>> \in ToSet(list)
          BY <4>1, <4>2, Lemma_Listed DEF Sound
        <5> QED
          BY <1>2, <5>1, ListEntries
      <4>4. j # 1
        BY <1>2, <2>1, <3>1, <4>2, <4>3
      <4>5. 1 \in 1 .. Len(list) /\ 1 < j
        BY <1>2, <4>3, <4>4
      <4> QED
        BY <1>2, <2>1, <2>2, <3>1, <4>2, <4>3, <4>5 DEF Aged
    <3>4. Rank(b)' = Rank(b)
      <4>1. ~ (Reach(a) <= Reach(b))
        BY <2>2, <3>3, Lemma_Numbers
      <4>2. \A c \in Async : c # a =>
              (Flying(c)' /\ Reach(c)' <= Reach(b)' <=> Flying(c) /\ Reach(c) <= Reach(b))
        BY <2>4, <2>5, <3>1
      <4> QED
        BY <2>5, <4>1, <4>2 DEF Rank
    <3>5. Room(b)' = Room(b)
      BY <3>4 DEF Room
    <3>6. \A c \in Async : Building(c)' <=> Building(c)
      BY <2>5
    <3>7. \A c \in Async : Building(c) => req'[c] = req[c]
      BY <2>3, <2>5
    <3>8. Filled(b)'
      BY <3>1, <3>5, <3>6, <3>7 DEF Filled
    <3> QED
      BY <3>2, <3>8
  <2> QED
    BY <2>6, <2>7, <2>8, <2>9 DEF Window
<1> QED
  BY <1>3, <1>4

\* Every step keeps the window.
LEMMA Lemma_WindowStep ==
  ASSUME Undisturbed, Roomy, RingInv, Sound', TypeInv', [Next]_vars
  PROVE  Window'
<1> USE DEF TypeInv, RingInv
<1>1. CASE Async = {}
  <2>1. TypeOK /\ TypeOK'
    OBVIOUS
  <2> QED
    BY <1>1, <2>1 DEF Window, Apart, Aged
<1>2. CASE Async # {}
  <2>1. Sync = {} /\ ~ offline /\ ~ Closed /\ Calls = Async /\ IsFiniteSet(Async)
    BY <1>2, Lemma_NoRefusal DEF Roomy, Calls
  <2>2. ASSUME NEW r \in Calls, Step(r) PROVE Window'
    <3>1. r \in Async
      BY <2>1
    <3>2. CASE Submit(r)
      BY <2>1, <3>1, <3>2, Window_Submit
    <3>3. CASE TransferInit(r)
      BY <3>1, <3>3, Window_TransferInit
    <3>4. CASE CheckOffline(r)
      <4>1. /\ pc[r] = "queue" /\ pc'[r] = "enqueue"
            /\ \A a \in Async : a # r => pc'[a] = pc[a]
            /\ UNCHANGED <<req, xfer, list, desc_idx>>
        BY <2>1, <3>1, <3>4
           DEF CheckOffline, Goto, TypeOK, listVars, ringVars
      <4>2. \A a \in Async : Reach(a)' = Reach(a)
        BY <4>1 DEF Reach, Back
      <4>3. Aged'
        BY <4>1, <4>2 DEF Window, Aged
      <4>4. \A a \in Async : /\ Building(a)' <=> Building(a)
                             /\ Flying(a)' <=> Flying(a)
                             /\ pc'[a] \notin {"lock", "wait"}
        BY <4>1 DEF Window, Laid, Building, Flying
      <4>5. \A a \in Async : Numbered(a)' /\ (Flying(a) => Ending(a)')
        BY <4>1 DEF Window, Numbered, Ending, Queued
      <4> QED
        BY <4>1, <4>3, <4>4, <4>5, Window_Still
    <3>5. CASE QueueRefused(r)
      BY <2>1, <3>5 DEF QueueRefused
    <3>6. CASE TransferQueue(r)
      BY <3>1, <3>6, Window_TransferQueue
    <3> QED
      BY <2>2, <3>2, <3>3, <3>4, <3>5, <3>6 DEF Step, Queue
  <2>3. ASSUME NEW r \in Sync, SyncStep(r) PROVE Window'
    BY <2>1
  <2>4. CASE ServiceTransferList
    BY <1>2, <2>4, Window_Finish DEF ServiceTransferList
  <2>5. CASE ServiceFinal
    <3> DEFINE state == IF Whole(Head(list)) /\ ~ svc.err THEN "COMPLETED" ELSE "FAILED"
    <3>1. /\ list # << >> /\ Finish(Head(list), state)
          /\ list' = Tail(list) /\ desc_idx' = desc_idx
      BY <2>5 DEF ServiceFinal
    <3>2. state \in {"COMPLETED", "FAILED"}
      OBVIOUS
    <3> HIDE DEF state
    <3> QED
      BY <1>2, <3>1, <3>2, Window_Finish
  <2>6. CASE \/ Hardware \/ ChannelIrq \/ Hotplug
             \/ ServiceStatus \/ ServiceCount \/ ServiceNothing \/ UNCHANGED vars
    <3>1. UNCHANGED <<pc, req, xfer, list, desc_idx>>
      BY <2>6 DEF Hardware, HwStep, HwFault, HwHalt, ChannelIrq, Hotplug,
         OfflineFlag, OfflineEngine, OfflineIrq, OnlineEngine, OnlineIrq,
         OnlineFlag, ServiceStatus, ServiceCount, ServiceNothing, vars, callVars,
         listVars, ringVars
    <3> QED
      BY <3>1, Window_Elsewhere
  <2> QED
    BY <2>2, <2>3, <2>4, <2>5, <2>6 DEF Next, Service
<1> QED
  BY <1>1, <1>2

\* At first nothing is taken.
LEMMA Lemma_RingInit == Init => RingInv
<1> SUFFICES ASSUME Init PROVE RingInv
  OBVIOUS
<1>1. TypeInv /\ Sound
  BY Lemma_Init, Lemma_SoundInit
<1>2. /\ pc = [r \in Calls |-> "idle"] /\ req = [r \in Calls |-> NoReq]
      /\ xfer = [t \in Xfers |-> NoXfer] /\ list = << >>
  BY DEF Init
<1>3. \A t \in Xfers : ~ Held(t)
  BY <1>2, Lemma_Xfers DEF Held, Queued, NoXfer
<1>4. \A a \in Async : /\ ~ Building(a) /\ ~ Flying(a)
                       /\ Laid(a) /\ Numbered(a)
  <2>1. ASSUME NEW a \in Async
        PROVE  /\ a \in Calls /\ pc[a] = "idle" /\ req[a].idx = 0
               /\ \A k \in 0 .. MaxDesc - 1 : xfer[<<a, k>>].num = 0
    BY <1>2, Lemma_Xfers DEF Calls, NoReq, NoXfer
  <2> QED
    BY <2>1, SizesPositive DEF Building, Flying, Laid, Numbered
<1>5. Aged
  BY <1>2 DEF Aged
<1> QED
  BY <1>1, <1>3, <1>4, <1>5 DEF RingInv, Chain, Window, Apart

\* No step disturbs the list, the chain or the window.
LEMMA Lemma_RingStep ==
  ASSUME Undisturbed, Roomy, RingInv, [Next]_vars
  PROVE  RingInv'
<1>1. TypeInv' /\ Sound'
  BY Lemma_Step, Lemma_SoundStep DEF RingInv
<1>2. Chain' /\ Window'
  BY <1>1, Lemma_ChainStep, Lemma_WindowStep
<1> QED
  BY <1>1, <1>2 DEF RingInv

\* The descriptors of a queued transfer stay its own, for every ring that has
\* room for the largest request of every buffer at once, and for every ring
\* when calls wait for their transfers: no later transfer takes its slots.
THEOREM ChainKept ==
  ASSUME Undisturbed, Roomy
  PROVE  Spec => []ChainIntact
<1>1. RingInv /\ [Next]_vars => RingInv'
  BY Lemma_RingStep
<1>2. RingInv => ChainIntact
  <2> SUFFICES ASSUME RingInv, NEW t \in Xfers, Queued(t), NEW s \in SlotsOf(xfer[t])
               PROVE  ring[s] # None /\ ring[s].t = t
    BY DEF ChainIntact
  <2>1. ring[s] = Link(t, xfer[t], s)
    BY DEF RingInv, Chain, Chained, Held
  <2>2. s \in Slots
    <3>1. xfer[t].first + xfer[t].num <= RingSize /\ xfer[t] \in Transfers
      BY DEF RingInv, Chain, Chained, Held, TypeInv, TypeOK
    <3> QED
      BY <3>1, SizesPositive DEF SlotsOf, Slots, Transfers
  <2>3. ring[s].t = t
    BY <2>1 DEF Link
  <2>4. ring[s] \in Descriptors
    <3>1. /\ xfer[t].first \in Nat /\ xfer[t].num \in 1 .. MaxDesc
          /\ s \in xfer[t].first .. xfer[t].first + xfer[t].num - 1
      BY SizesPositive DEF RingInv, Chain, Chained, Held, TypeInv, TypeOK, Transfers,
         Slots, SlotsOf
    <3>2. s - xfer[t].first \in 0 .. MaxDesc - 1
      BY <3>1, SizesPositive
    <3> QED
      BY <2>1, <3>2 DEF Link, Descriptors
  <2> QED
    BY <2>3, <2>4, ZeroedHasNoMagic
<1> QED
  BY <1>1, <1>2, Lemma_RingInit, PTL DEF Spec

-----------------------------------------------------------------------------
(* The engine.  Where nothing is aborted and the device stays online it goes *)
(* through four phases, and what engine_service reads of the registers is    *)
(* about the head of the list.                                               *)

\* No wait ends early, the device stays online and no count reaches the width
\* of the counters.
Calm == Timeouts = {} /\ ~ HotPlug /\ MaxDesc < Wrap

HeadXfer == xfer[Head(list)]
Quiet == ~ hw.busy /\ hw.stat = "clear" /\ ~ work

\* A run that failed left descriptors of the head to do, one that did not left
\* none.
Counted(err) ==
  /\ hw.count \in Nat /\ (EarlyErrors \/ hw.count > 0)
  /\ IF err THEN hw.count < HeadXfer.num ELSE hw.count = HeadXfer.num

\* Nothing to do.
Resting == list = << >> /\ ~ running /\ Quiet /\ irq_mask

\* The hardware goes through the chain of the head.
AtWork ==
  /\ list # << >> /\ running /\ desc_dequeued = 0 /\ ~ work /\ irq_mask
  /\ hw.busy /\ hw.run /\ hw.stat = "clear"
  /\ hw.count \in Nat /\ hw.count < HeadXfer.num
  /\ hw.pos = HeadXfer.first + hw.count
  /\ hw.cur = Link(Head(list), HeadXfer, hw.pos)

\* It has stopped and nobody has looked at the status yet.
Ended ==
  /\ list # << >> /\ running /\ desc_dequeued = 0
  /\ ~ hw.busy /\ hw.stat # "clear" /\ work = ~ irq_mask
  /\ Counted(hw.stat = "error")

\* It has failed before its first descriptor, which the service overlooks.
Stuck ==
  /\ EarlyErrors /\ list # << >> /\ ~ running /\ Quiet /\ irq_mask
  /\ hw.count = 0

\* The service has read the status.
Serviced ==
  /\ list # << >> /\ ~ running /\ desc_dequeued = 0 /\ Quiet /\ ~ irq_mask
  /\ Counted(svc.err)

Engine ==
  /\ irq_on
  /\ svc.at = "idle" => Resting \/ AtWork \/ Ended \/ Stuck
  /\ svc.at # "idle" => Serviced
  /\ svc.at = "list" => svc.cnt = hw.count /\ hw.count > 0

EngineInv == RingInv /\ Engine

\* The head of the list has its chain in the ring.
LEMMA Lemma_HeadChain ==
  ASSUME RingInv, list # << >>
  PROVE  /\ list \in Seq(Xfers) /\ Head(list) \in Xfers /\ Queued(Head(list))
         /\ HeadXfer.num \in Nat \ {0} /\ HeadXfer.num <= MaxDesc
         /\ HeadXfer.first \in Nat /\ HeadXfer.first + HeadXfer.num <= RingSize
         /\ \A s \in SlotsOf(HeadXfer) : ring[s] = Link(Head(list), HeadXfer, s)
<1>1. list \in Seq(Xfers) /\ Head(list) \in ToSet(list)
  BY Lemma_Listed, ListTail DEF RingInv, TypeInv, Sound
<1>2. Head(list) \in Xfers /\ Queued(Head(list))
  BY <1>1, Lemma_Listed DEF RingInv, TypeInv, Sound
<1>3. Chained(Head(list)) /\ xfer[Head(list)] \in Transfers
  BY <1>2 DEF RingInv, Chain, Held, TypeInv, TypeOK
<1> QED
  BY <1>1, <1>2, <1>3, SizesPositive DEF Chained, HeadXfer, Transfers, Slots

\* A part of a chain is a descriptor that was written.
LEMMA Lemma_Link ==
  ASSUME NEW t \in Xfers, NEW x \in Transfers, x.num <= MaxDesc,
         NEW s \in SlotsOf(x)
  PROVE  Link(t, x, s) \in Descriptors /\ Link(t, x, s) # None
<1>1. x.first \in Nat /\ x.num \in Nat /\ s \in x.first .. x.first + x.num - 1
  BY SizesPositive DEF Transfers, Slots, SlotsOf
<1>2. s - x.first \in 0 .. MaxDesc - 1
  BY <1>1, SizesPositive
<1>3. Link(t, x, s) \in Descriptors
  BY <1>2 DEF Link, Descriptors
<1> QED
  BY <1>3, ZeroedHasNoMagic

\* What the service read is about the head, so it is done with the head.
LEMMA Lemma_ListEnds ==
  ASSUME EngineInv
  PROVE  ~ ServiceTransferList /\ ~ ServiceNothing
<1> SUFFICES ASSUME ServiceTransferList \/ ServiceNothing PROVE FALSE
  OBVIOUS
<1> USE DEF EngineInv
<1>1. svc.at = "list" /\ Serviced /\ svc.cnt = hw.count
  BY DEF ServiceTransferList, ServiceNothing, Engine
<1>2. list # << >> /\ Counted(svc.err)
  BY <1>1 DEF Serviced
<1>3. HeadXfer.num \in Nat /\ hw.count \in Nat /\ hw.count <= HeadXfer.num
  BY <1>2, Lemma_HeadChain DEF Counted
<1>4. ServiceTransferList => svc.cnt > HeadXfer.num
  BY DEF ServiceTransferList, HeadXfer
<1> QED
  BY <1>1, <1>2, <1>3, <1>4 DEF ServiceNothing

engineVars == <<running, desc_dequeued, hw, irqVars, svc>>

\* A transfer on the list keeps its descriptors while it stays there.
LEMMA Lemma_FrontStays ==
  ASSUME TypeOK, RingInv', list # << >>, list' # << >>, Head(list') = Head(list),
         \A u \in Xfers : xfer'[u].state = "SUBMITTED" =>
           xfer'[u].first = xfer[u].first /\ xfer'[u].num = xfer[u].num
  PROVE  HeadXfer'.first = HeadXfer.first /\ HeadXfer'.num = HeadXfer.num
<1>1. Head(list') \in Xfers /\ xfer'[Head(list')].state = "SUBMITTED"
  <2>1. list' \in Seq(Xfers) /\ Head(list') \in Range(list')
    <3>1. list' \in Seq(Xfers)
      BY DEF RingInv, TypeInv, TypeOK
    <3>2. Head(list') = list'[1] /\ 1 \in DOMAIN list'
      BY <3>1
    <3> QED
      BY <3>1, <3>2 DEF Range
  <2> QED
    BY <2>1 DEF RingInv, Sound, QueueWellFormed, Queued
<1> QED
  BY <1>1 DEF HeadXfer

\* A step that is not the engine's and leaves the head of the list.
LEMMA Engine_Elsewhere ==
  ASSUME TypeOK, Engine, UNCHANGED engineVars,
         list # << >> =>
           /\ list' # << >> /\ Head(list') = Head(list)
           /\ HeadXfer'.first = HeadXfer.first /\ HeadXfer'.num = HeadXfer.num,
         list = << >> => list' = << >>
  PROVE  Engine'
<1>1. /\ running' = running /\ desc_dequeued' = desc_dequeued /\ hw' = hw
      /\ irq_on' = irq_on /\ irq_mask' = irq_mask /\ work' = work /\ svc' = svc
  BY DEF engineVars, irqVars
<1>2. Quiet' <=> Quiet
  BY <1>1 DEF Quiet
<1>3. Resting => Resting'
  BY <1>1, <1>2 DEF Resting
<1>4. list # << >> => \A err \in BOOLEAN : Counted(err) => Counted(err)'
  BY <1>1 DEF Counted
<1>5. AtWork => AtWork'
  BY <1>1 DEF AtWork, Link
<1>6. Ended => Ended'
  BY <1>1, <1>4 DEF Ended
<1>7. Stuck => Stuck'
  BY <1>1, <1>2 DEF Stuck
<1>8. svc.err \in BOOLEAN
  BY DEF TypeOK, Services
<1>9. Serviced => Serviced'
  BY <1>1, <1>2, <1>4, <1>8 DEF Serviced
<1> QED
  BY <1>1, <1>3, <1>5, <1>6, <1>7, <1>9 DEF Engine

\* A step that leaves the list alone.
LEMMA Engine_ListStays ==
  ASSUME TypeOK, RingInv', Engine, UNCHANGED engineVars, list' = list,
         \A u \in Xfers : xfer'[u].state = "SUBMITTED" =>
           xfer'[u].first = xfer[u].first /\ xfer'[u].num = xfer[u].num
  PROVE  Engine'
<1>1. list # << >> => HeadXfer'.first = HeadXfer.first /\ HeadXfer'.num = HeadXfer.num
  BY Lemma_FrontStays
<1> QED
  BY <1>1, Engine_Elsewhere

\* The engine is started on the head of a list.
LEMMA Lemma_Start ==
  ASSUME TypeOK, NEW q \in Seq(Xfers), q # << >>, list' = q, Chained(Head(q)),
         NEW h \in EngineStates, h.stat = "clear",
         engine_start(q, xfer, h), work' = FALSE, irq_mask' = TRUE,
         xfer'[Head(q)].first = xfer[Head(q)].first,
         xfer'[Head(q)].num = xfer[Head(q)].num
  PROVE  AtWork'
<1>1. PICK t \in Xfers : t = Head(q)
  OBVIOUS
<1>2. PICK x : x = xfer[t]
  OBVIOUS
<1>3. /\ HeadXfer'.first = x.first /\ HeadXfer'.num = x.num
      /\ x.num \in Nat \ {0} /\ x.first \in Nat
  BY <1>1, <1>2, SizesPositive DEF HeadXfer, TypeOK, Transfers, Slots, Chained
<1>4. x.first \in SlotsOf(x)
  BY <1>3 DEF SlotsOf
<1>5. ring[x.first] = Link(t, x, x.first)
  BY <1>1, <1>2, <1>4 DEF Chained
<1>6. /\ hw'.busy = TRUE /\ hw'.run = TRUE /\ hw'.pos = x.first
      /\ hw'.cur = ring[x.first] /\ hw'.count = 0 /\ hw'.stat = "clear"
  BY <1>1, <1>2 DEF engine_start, Started, EngineStates
<1>7. Link(t, x, x.first) = Link(t, HeadXfer', x.first)
  BY <1>3 DEF Link
<1>8. running' = TRUE /\ desc_dequeued' = 0
  BY DEF engine_start
<1>9. hw'.count \in Nat /\ hw'.count < x.num /\ hw'.pos = x.first + hw'.count
  BY <1>3, <1>6
<1> QED
  BY <1>1, <1>3, <1>5, <1>6, <1>7, <1>8, <1>9 DEF AtWork

\* Where nothing is aborted the weaker assumptions hold too.
LEMMA Lemma_Calm ==
  ASSUME Calm, Sound
  PROVE  Undisturbed /\ ~ offline /\ ~ Closed /\ Timeouts = {} /\ ~ HotPlug
BY DEF Calm, Undisturbed, Sound, Steady, offline, Closed

\* A call that queues nothing leaves the engine alone.
LEMMA Engine_Calls ==
  ASSUME Calm, EngineInv, RingInv', NEW r \in Calls,
         \/ Submit(r) \/ TransferInit(r) \/ CheckOffline(r)
         \/ r \in Sync /\ (LockDesc(r) \/ SyncDone(r))
  PROVE  Engine'
<1> USE DEF RingInv, EngineInv, TypeInv
<1>1. ~ offline
  BY Lemma_Calm
<1>2. UNCHANGED engineVars /\ list' = list
  BY DEF Submit, TransferInit, CheckOffline, LockDesc, SyncDone, listVars, irqVars,
     engineVars
<1>3. \A u \in Xfers : xfer'[u].state = "SUBMITTED" =>
        xfer'[u].first = xfer[u].first /\ xfer'[u].num = xfer[u].num
  <2>1. CASE Submit(r) \/ CheckOffline(r) \/ (r \in Sync /\ LockDesc(r))
    BY <1>1, <2>1 DEF Submit, CheckOffline, LockDesc
  <2>2. CASE TransferInit(r)
    <3>1. PICK t \in Xfers :
            /\ \A u \in Xfers : u # t => xfer'[u] = xfer[u]
            /\ xfer'[t].state = "NEW"
      <4>1. Current(r) \in Xfers
        BY Lemma_Current
      <4>2. PICK x : /\ x.state = "NEW"
                     /\ xfer' = [xfer EXCEPT ![Current(r)] = x]
        BY <2>2 DEF TransferInit
      <4> QED
        BY <4>1, <4>2 DEF TypeOK
    <3> QED
      BY <3>1
  <2>3. CASE r \in Sync /\ SyncDone(r)
    <3>1. xfer' = xfer \/ FreeReq(r, xfer)
      BY <2>3 DEF SyncDone
    <3>2. FreeReq(r, xfer) => \A u \in Xfers : xfer'[u] = xfer[u] \/ xfer'[u] = NoXfer
      BY DEF FreeReq
    <3> QED
      BY <3>1, <3>2 DEF NoXfer
  <2> QED
    BY <2>1, <2>2, <2>3
<1> QED
  BY <1>2, <1>3, Engine_ListStays

\* A transfer that is queued starts the engine, or waits behind the others.
LEMMA Engine_TransferQueue ==
  ASSUME EngineInv, RingInv', NEW r \in Calls, TransferQueue(r)
  PROVE  Engine'
<1> USE DEF RingInv, EngineInv, TypeInv
<1>1. PICK t : t = Current(r)
  OBVIOUS
<1>2. /\ t \in Xfers /\ t[1] = r /\ pc[r] = "enqueue" /\ svc.at = "idle"
      /\ list' = Append(list, t) /\ list \in Seq(Xfers)
      /\ xfer' = [xfer EXCEPT ![t].state = "SUBMITTED"]
      /\ UNCHANGED irqVars /\ svc' = svc
      /\ IF running THEN UNCHANGED <<running, desc_dequeued, hw>>
         ELSE engine_start(list', xfer, hw)
  BY <1>1, Lemma_Current DEF TransferQueue, AddTail, LockFree, TypeOK, Current
<1>3. \A u \in Xfers : xfer'[u].first = xfer[u].first /\ xfer'[u].num = xfer[u].num
  BY <1>2 DEF TypeOK, Transfers
<1>4. /\ list' \in Seq(Xfers) /\ list' # << >> /\ Head(list') \in Xfers
      /\ list # << >> => Head(list') = Head(list)
      /\ list = << >> => Head(list') = t
  BY <1>2
<1>5. CASE running
  <2>1. list # << >>
    BY <1>2, <1>5 DEF Engine, Resting, AtWork, Ended, Stuck
  <2>2. HeadXfer'.first = HeadXfer.first /\ HeadXfer'.num = HeadXfer.num
    BY <1>3, <1>4, <2>1, Lemma_FrontStays
  <2> QED
    BY <1>2, <1>4, <1>5, <2>1, <2>2, Engine_Elsewhere DEF engineVars
<1>6. CASE ~ running
  <2>1. Quiet /\ irq_mask
    BY <1>2, <1>6 DEF Engine, Resting, AtWork, Ended, Stuck
  <2>2. Held(Head(list'))
    <3>1. CASE list = << >>
      BY <1>1, <1>2, <1>4, <3>1 DEF Held
    <3>2. CASE list # << >>
      BY <1>4, <3>2, Lemma_HeadChain DEF Held
    <3> QED
      BY <3>1, <3>2
  <2>3. Chained(Head(list'))
    BY <1>4, <2>2 DEF Chain
  <2>4. PICK q : q = list'
    OBVIOUS
  <2>5. PICK h : h = hw
    OBVIOUS
  <2>6. /\ q \in Seq(Xfers) /\ q # << >> /\ list' = q /\ Chained(Head(q))
        /\ engine_start(q, xfer, h) /\ h \in EngineStates /\ h.stat = "clear"
        /\ xfer'[Head(q)].first = xfer[Head(q)].first
        /\ xfer'[Head(q)].num = xfer[Head(q)].num
    BY <1>2, <1>3, <1>4, <1>6, <2>1, <2>3, <2>4, <2>5 DEF Quiet, TypeOK
  <2>7. work' = FALSE /\ irq_mask' = TRUE
    BY <1>2, <2>1 DEF irqVars, Quiet, TypeOK
  <2>8. AtWork'
    BY <2>6, <2>7, Lemma_Start
  <2>9. irq_on' /\ svc'.at = "idle"
    BY <1>2 DEF Engine, irqVars
  <2> QED
    BY <2>8, <2>9 DEF Engine
<1> QED
  BY <1>5, <1>6

\* The hardware moves along the chain of the head, or stops there.
LEMMA Engine_Hardware ==
  ASSUME EngineInv, Hardware \/ ChannelIrq
  PROVE  Engine'
<1> USE DEF RingInv, EngineInv, TypeInv
<1>1. UNCHANGED <<xfer, list, running, desc_dequeued, irq_on, svc>>
  BY DEF Hardware, HwStep, HwFault, HwHalt, ChannelIrq, listVars, irqVars
<1>2. HeadXfer' = HeadXfer
  BY <1>1 DEF HeadXfer
<1>3. hw \in EngineStates
  BY DEF TypeOK
<1>4. CASE Hardware
  <2>1. hw.busy /\ work' = work /\ irq_mask' = irq_mask
    BY <1>4 DEF Hardware, HwStep, HwFault, HwHalt, irqVars
  <2>2. AtWork /\ svc.at = "idle"
    BY <2>1 DEF Engine, Resting, Ended, Stuck, Serviced, Quiet
  <2>3. PICK t, x : t = Head(list) /\ x = HeadXfer
    OBVIOUS
  <2>4. /\ t \in Xfers /\ x.num \in Nat \ {0} /\ x.num <= MaxDesc /\ x.first \in Nat
        /\ \A s \in SlotsOf(x) : ring[s] = Link(t, x, s)
    BY <2>2, <2>3, Lemma_HeadChain DEF AtWork
  <2>5. /\ hw.run /\ hw.stat = "clear" /\ hw.count \in Nat /\ hw.count < x.num
        /\ hw.pos = x.first + hw.count /\ hw.cur = Link(t, x, hw.pos)
        /\ list # << >> /\ running /\ desc_dequeued = 0 /\ ~ work /\ irq_mask
    BY <2>2, <2>3 DEF AtWork
  <2>6. hw.pos \in SlotsOf(x) /\ x \in Transfers
    BY <2>2, <2>3, <2>4, <2>5, Lemma_HeadChain DEF SlotsOf, HeadXfer, TypeOK, AtWork
  <2>7. hw.cur # None
    BY <2>4, <2>5, <2>6, Lemma_Link
  <2>8. hw.cur.stop <=> hw.count + 1 = x.num
    <3>1. hw.cur.stop <=> hw.pos = x.first + x.num - 1
      <4>1. hw.cur.stop = (hw.pos = x.first + x.num - 1)
        BY <2>5 DEF Link
      <4> QED
        BY <4>1
    <3>2. PICK c, p : c = hw.count /\ p = hw.pos
      OBVIOUS
    <3>3. /\ c \in Nat /\ x.num \in Nat /\ x.first \in Nat /\ p = x.first + c
      BY <2>4, <2>5, <3>2
    <3>4. p = x.first + x.num - 1 <=> c + 1 = x.num
      BY <3>3
    <3> QED
      BY <3>1, <3>2, <3>4
  <2>9. CASE HwStep /\ hw.cur.stop
    <3>1. /\ hw'.busy = FALSE /\ hw'.count = hw.count + 1 /\ hw'.stat = "stopped"
      BY <1>3, <2>5, <2>9 DEF HwStep, Halted, Raise, EngineStates
    <3>2. hw'.count \in Nat /\ hw'.count > 0 /\ hw'.count = x.num
      BY <2>4, <2>5, <2>8, <2>9, <3>1
    <3>3. Counted(hw.stat = "error")'
      BY <1>2, <2>3, <3>1, <3>2 DEF Counted
    <3>4. Ended'
      BY <1>1, <2>1, <2>5, <3>1, <3>3 DEF Ended, TypeOK
    <3> QED
      BY <1>1, <2>2, <3>4 DEF Engine
  <2>10. CASE HwStep /\ ~ hw.cur.stop
    <3>1. /\ hw'.busy = hw.busy /\ hw'.run = hw.run /\ hw'.count = hw.count + 1
          /\ hw'.stat = hw.stat /\ hw'.pos = hw.pos + 1 /\ hw'.cur = ring[hw.pos + 1]
      BY <1>3, <2>5, <2>10 DEF HwStep, EngineStates
    <3>2. /\ hw'.count \in Nat /\ hw'.count < x.num /\ hw'.pos = x.first + hw'.count
      BY <2>4, <2>5, <2>8, <2>10, <3>1
    <3>3. hw'.pos \in SlotsOf(x)
      BY <2>4, <3>2 DEF SlotsOf
    <3>4. hw'.cur = Link(t, x, hw'.pos)
      BY <2>4, <3>1, <3>3
    <3>5. AtWork'
      <4>1. hw'.busy /\ hw'.run /\ hw'.stat = "clear"
        BY <2>1, <2>5, <3>1
      <4>2. Head(list') = t /\ HeadXfer' = x /\ list' # << >>
        BY <1>1, <1>2, <2>3, <2>5
      <4>3. running' /\ desc_dequeued' = 0 /\ ~ work' /\ irq_mask'
        BY <1>1, <2>1, <2>5
      <4> QED
        BY <3>2, <3>4, <4>1, <4>2, <4>3 DEF AtWork
    <3> QED
      BY <1>1, <2>2, <3>5 DEF Engine
  <2>11. CASE HwFault
    <3>1. /\ hw'.busy = FALSE /\ hw'.count = hw.count /\ hw'.stat = "error"
          /\ EarlyErrors \/ hw.count > 0
      BY <1>3, <2>7, <2>11 DEF HwFault, Halted, EngineStates
    <3>2. Counted(hw.stat = "error")'
      BY <1>2, <2>3, <2>5, <3>1 DEF Counted
    <3>3. Ended'
      BY <1>1, <2>1, <2>5, <3>1, <3>2 DEF Ended, TypeOK
    <3> QED
      BY <1>1, <2>2, <3>3 DEF Engine
  <2>12. CASE HwHalt
    BY <2>5, <2>12 DEF HwHalt
  <2> QED
    BY <1>4, <2>9, <2>10, <2>11, <2>12 DEF Hardware
<1>5. CASE ChannelIrq
  <2>1. Ended /\ svc.at = "idle" /\ hw' = hw /\ work' = TRUE /\ irq_mask' = FALSE
    BY <1>5 DEF ChannelIrq, Engine, Resting, AtWork, Stuck, Serviced, Quiet
  <2>2. Counted(hw.stat = "error")'
    BY <1>2, <2>1 DEF Ended, Counted
  <2>3. Ended'
    BY <1>1, <2>1, <2>2 DEF Ended
  <2> QED
    BY <1>1, <2>1, <2>3 DEF Engine
<1> QED
  BY <1>4, <1>5

\* The service takes the head off and starts the engine on the next one.
LEMMA Engine_Service ==
  ASSUME Calm, EngineInv, RingInv', Service
  PROVE  Engine'
<1> USE DEF RingInv, EngineInv, TypeInv
<1>1. hw \in EngineStates /\ svc \in Services /\ irq_on
  BY DEF TypeOK, Engine
<1>2. CASE ServiceStatus
  <2>1. Ended /\ work /\ svc.at = "idle" /\ ~ irq_mask
    BY <1>2 DEF ServiceStatus, LockFree, Engine, Resting, AtWork, Stuck, Quiet, Ended,
       TypeOK
  <2>2. /\ svc' = [NoSvc EXCEPT !.at = "count", !.err = hw.stat = "error"]
        /\ running' = hw.busy /\ work' = FALSE
        /\ hw' = [hw EXCEPT !.stat = "clear", !.run = @ /\ hw.busy]
        /\ UNCHANGED <<irq_mask, irq_on, xfer, list, desc_dequeued>>
    BY <1>2, <2>1 DEF ServiceStatus, Ended
  <2>3. /\ hw'.busy = hw.busy /\ hw'.count = hw.count /\ hw'.stat = "clear"
        /\ HeadXfer' = HeadXfer /\ svc'.at = "count"
        /\ svc'.err = (hw.stat = "error")
    BY <1>1, <2>2 DEF HeadXfer, NoSvc, EngineStates
  <2>4. Counted(svc.err)'
    BY <2>1, <2>3 DEF Ended, Counted
  <2>5. ~ hw.busy /\ list # << >> /\ desc_dequeued = 0
    BY <2>1 DEF Ended
  <2>6. Serviced'
    BY <2>1, <2>2, <2>3, <2>4, <2>5 DEF Serviced, Quiet
  <2> QED
    BY <1>1, <2>2, <2>3, <2>6 DEF Engine
<1>3. CASE ServiceCount
  <2>1. /\ svc.at = "count" /\ Serviced /\ UNCHANGED <<list, running, desc_dequeued,
             xfer, hw, irq_on, work>>
    BY <1>3 DEF ServiceCount, Engine, listVars
  <2>2. HeadXfer' = HeadXfer /\ Quiet'
    BY <2>1 DEF HeadXfer, Serviced, Quiet
  <2>3. /\ HeadXfer.num \in Nat \ {0} /\ HeadXfer.num < Wrap /\ hw.count \in Nat
        /\ hw.count <= HeadXfer.num /\ desc_dequeued = 0 /\ list # << >>
    <3>1. HeadXfer.num \in Nat \ {0} /\ HeadXfer.num <= MaxDesc
      BY <2>1, Lemma_HeadChain DEF Serviced
    <3> QED
      BY <2>1, <3>1, SizesPositive DEF Serviced, Counted, Calm, Wrap
  <2>4. CASE hw.count = 0
    <3>1. svc' = NoSvc /\ irq_mask' = TRUE
      BY <1>3, <2>4 DEF ServiceCount, ServiceEnds
    <3>2. EarlyErrors
      BY <2>1, <2>4 DEF Serviced, Counted
    <3>3. Stuck'
      BY <2>1, <2>2, <2>3, <2>4, <3>1, <3>2 DEF Stuck, Serviced
    <3> QED
      BY <1>1, <2>1, <3>1, <3>3 DEF Engine, NoSvc
  <2>5. CASE hw.count # 0
    <3>1. /\ svc' = [svc EXCEPT !.at = "list", !.cnt = (hw.count - desc_dequeued) % Wrap]
          /\ irq_mask' = irq_mask
      BY <1>3, <2>5 DEF ServiceCount
    <3>2. (hw.count - desc_dequeued) % Wrap = hw.count
      BY <2>3 DEF Wrap
    <3>3. /\ svc'.at = "list" /\ svc'.cnt = hw.count /\ svc'.err = svc.err
          /\ hw.count > 0
      BY <1>1, <2>3, <2>5, <3>1, <3>2 DEF Services
    <3>4. Counted(svc.err)'
      BY <2>1, <2>2, <3>3 DEF Serviced, Counted
    <3>5. Serviced'
      BY <2>1, <2>2, <3>1, <3>4 DEF Serviced
    <3> QED
      BY <1>1, <2>1, <3>3, <3>5 DEF Engine
  <2> QED
    BY <2>4, <2>5
<1>4. ~ ServiceTransferList /\ ~ ServiceNothing
  BY Lemma_ListEnds
<1>5. CASE ServiceFinal
  <2>1. /\ svc.at = "list" /\ Serviced /\ list # << >> /\ list' = Tail(list)
        /\ work' = work /\ irq_on' = irq_on /\ svc' = NoSvc /\ irq_mask' = TRUE
    BY <1>5 DEF ServiceFinal, ServiceEnds, Engine
  <2>2. PICK h, n : /\ Resume(Tail(list), xfer, running /\ ~ svc.err, h, n)
                    /\ h = IF svc.err THEN Stopped(hw) ELSE hw
    BY <1>5 DEF ServiceFinal
  <2>3. h \in EngineStates /\ h.stat = "clear" /\ ~ h.busy
    BY <1>1, <2>1, <2>2 DEF Serviced, Quiet, Stopped, EngineStates
  <2>4. ~ work /\ ~ running
    BY <2>1 DEF Serviced, Quiet
  <2>5. PICK q : q = Tail(list)
    OBVIOUS
  <2>6. CASE q # << >>
    <3>1. engine_start(q, xfer, h)
      BY <2>2, <2>4, <2>5, <2>6 DEF Resume
    <3>2. /\ q \in Seq(Xfers) /\ Head(q) \in Xfers /\ Queued(Head(q)) /\ Queued(Head(q))'
      <4>1. list' \in Seq(Xfers) /\ list' = q /\ q # << >> /\ list \in Seq(Xfers)
        BY <2>1, <2>5, <2>6 DEF TypeOK
      <4>2. Head(q) = q[1] /\ 1 \in DOMAIN q /\ q[1] = list[2] /\ 2 \in DOMAIN list
        BY <2>1, <2>5, <4>1
      <4>3. Head(q) \in Range(list') /\ Head(q) \in Range(list)
        BY <4>1, <4>2 DEF Range
      <4>4. Range(list) = {u \in Xfers : Queued(u)}
        BY DEF Sound, QueueWellFormed
      <4>5. Range(list') = {u \in Xfers : Queued(u)'}
        BY DEF Sound, QueueWellFormed
      <4> QED
        BY <4>1, <4>3, <4>4, <4>5
    <3>3. Chained(Head(q))
      BY <3>2 DEF Chain, Held
    <3>4. PICK state \in {"COMPLETED", "FAILED"} : Finish(Head(list), state)
      BY <1>5 DEF ServiceFinal
    <3>5. \A u \in Xfers : xfer'[u].state = "SUBMITTED" => xfer'[u] = xfer[u]
      <4>1. PICK t \in Xfers :
              \/ /\ \A u \in Xfers : u # t => xfer'[u] = xfer[u]
                 /\ xfer'[t] = [xfer[t] EXCEPT !.state = state]
              \/ /\ \A u \in Xfers : u[1] # t[1] => xfer'[u] = xfer[u]
                 /\ \A u \in Xfers : u[1] = t[1] => xfer'[u] = NoXfer
        <5>1. /\ TypeInv /\ QueueWellFormed /\ list # << >>
              /\ Finish(Head(list), state)
          BY <2>1, <3>4 DEF Sound
        <5>2. PICK t \in Xfers : Leaves(t, state)
          BY <5>1, Lemma_FinishFacts
        <5> QED
          BY <5>2 DEF Leaves
      <4>2. xfer[t] \in Transfers
        BY DEF TypeOK
      <4> QED
        BY <4>1, <4>2 DEF Transfers, NoXfer
    <3>6. xfer'[Head(q)] = xfer[Head(q)]
      BY <3>2, <3>5 DEF Queued
    <3>7. AtWork'
      <4>1. /\ work' = FALSE /\ irq_mask' = TRUE /\ h.stat = "clear" /\ list' = q
            /\ TypeOK /\ q \in Seq(Xfers) /\ q # << >> /\ h \in EngineStates
        BY <2>1, <2>3, <2>4, <2>5, <2>6, <3>2 DEF TypeOK
      <4>2. /\ xfer'[Head(q)].first = xfer[Head(q)].first
            /\ xfer'[Head(q)].num = xfer[Head(q)].num
        BY <3>6
      <4> QED
        BY <3>1, <3>3, <4>1, <4>2, Lemma_Start
    <3> QED
      BY <1>1, <2>1, <3>7 DEF Engine, NoSvc
  <2>7. CASE q = << >>
    <3>1. running' = FALSE /\ hw' = Stopped(h)
      BY <2>2, <2>4, <2>5, <2>7 DEF Resume
    <3>2. hw'.busy = h.busy /\ hw'.stat = h.stat
      BY <2>3, <3>1 DEF Stopped, EngineStates
    <3>3. Resting'
      BY <2>1, <2>3, <2>4, <2>5, <2>7, <3>1, <3>2 DEF Resting, Quiet
    <3> QED
      BY <1>1, <2>1, <3>3 DEF Engine, NoSvc
  <2> QED
    BY <2>6, <2>7
<1> QED
  BY <1>2, <1>3, <1>4, <1>5 DEF Service

\* Every step keeps the phases.
LEMMA Lemma_EngineStep ==
  ASSUME Calm, Roomy, EngineInv, [Next]_vars
  PROVE  EngineInv'
<1>1. Undisturbed /\ ~ offline /\ ~ Closed /\ Timeouts = {} /\ ~ HotPlug
  BY Lemma_Calm DEF EngineInv, RingInv
<1>2. RingInv'
  BY <1>1, Lemma_RingStep DEF EngineInv
<1>3. CASE \E r \in Calls : Step(r)
  <2>1. PICK r \in Calls : Step(r)
    BY <1>3
  <2>2. ~ QueueRefused(r)
    BY <1>1 DEF QueueRefused
  <2> QED
    BY <1>2, <2>1, <2>2, Engine_Calls, Engine_TransferQueue DEF Step, Queue, EngineInv
<1>4. CASE \E r \in Sync : SyncStep(r)
  <2>1. PICK r \in Sync : SyncStep(r)
    BY <1>4
  <2>2. ~ SyncAbort(r) /\ r \in Calls
    BY <1>1 DEF SyncAbort, Calls
  <2> QED
    BY <1>2, <2>1, <2>2, Engine_Calls DEF SyncStep, EngineInv
<1>5. CASE Hardware \/ ChannelIrq
  BY <1>2, <1>5, Engine_Hardware DEF EngineInv
<1>6. CASE Service
  BY <1>2, <1>6, Engine_Service DEF EngineInv
<1>7. ~ Hotplug
  BY <1>1 DEF Hotplug, OfflineFlag, OfflineEngine, OfflineIrq, OnlineEngine, OnlineIrq,
     OnlineFlag, AdmStep
<1>8. CASE UNCHANGED vars
  <2>1. UNCHANGED <<engineVars, list, xfer>>
    BY <1>8 DEF vars, engineVars, listVars, irqVars
  <2>2. TypeOK /\ Engine
    BY DEF EngineInv, RingInv, TypeInv
  <2> QED
    BY <1>2, <2>1, <2>2, Engine_ListStays DEF EngineInv
<1> QED
  BY <1>3, <1>4, <1>5, <1>6, <1>7, <1>8 DEF Next

\* At first the engine rests.
LEMMA Lemma_EngineInit ==
  ASSUME Init
  PROVE  EngineInv
<1>1. Resting /\ irq_on /\ svc.at = "idle"
  BY DEF Init, Resting, Quiet, NoSvc
<1> QED
  BY <1>1, Lemma_RingInit DEF EngineInv, Engine

\* The phases of the engine are an invariant.
LEMMA Lemma_Engine ==
  ASSUME Calm, Roomy
  PROVE  Spec => []EngineInv
<1>1. EngineInv /\ [Next]_vars => EngineInv'
  BY Lemma_EngineStep
<1>2. Init => EngineInv
  BY Lemma_EngineInit
<1> QED
  BY <1>1, <1>2, PTL DEF Spec

\* What the hardware works on while the engine runs.
LEMMA Lemma_AtWork ==
  ASSUME EngineInv, hw.busy
  PROVE  AtWork /\ svc.at = "idle"
BY DEF EngineInv, Engine, Resting, Ended, Stuck, Serviced, Quiet

\* The hardware works on the head of the list: the count engine_service reads
\* is of the head's descriptors, where nothing is aborted.
THEOREM HeadIsRun ==
  ASSUME Calm, Roomy
  PROVE  Spec => []RunsHead
<1>1. EngineInv => RunsHead
  BY Lemma_AtWork DEF RunsHead, AtWork, HeadXfer
<1> QED
  BY <1>1, Lemma_Engine, PTL

\* The hardware moves data for queued transfers only: a buffer that was given
\* back is not written to, where nothing is aborted.
THEOREM DmaStaysQueued ==
  ASSUME Calm, Roomy
  PROVE  Spec => []NoStrayDma
<1>1. EngineInv => NoStrayDma
  <2> SUFFICES ASSUME EngineInv, hw.busy PROVE Queued(hw.cur.t)
    BY DEF NoStrayDma
  <2>1. AtWork /\ RingInv
    BY Lemma_AtWork DEF EngineInv
  <2>2. hw.cur.t = Head(list) /\ list # << >>
    BY <2>1 DEF AtWork, Link
  <2> QED
    BY <2>1, <2>2, Lemma_HeadChain
<1> QED
  BY <1>1, Lemma_Engine, PTL

\* No interrupt is lost: a queue that is not empty has the engine running, and
\* a stop of it is either announced by an interrupt that is enabled or has its
\* work scheduled.  An engine that fails before its first descriptor is the
\* exception, which a run shows.
THEOREM WakeupsKept ==
  ASSUME Calm, Roomy, ~ EarlyErrors
  PROVE  Spec => []NoLostWakeup
<1>1. EngineInv => NoLostWakeup
  <2> SUFFICES ASSUME EngineInv, list # << >>, LockFree
               PROVE  /\ running
                      /\ work \/ (irq_on /\ irq_mask /\ (hw.busy \/ hw.stat # "clear"))
    BY DEF NoLostWakeup
  <2>1. irq_on /\ (AtWork \/ Ended)
    BY DEF EngineInv, Engine, LockFree, Resting, Stuck
  <2>2. CASE AtWork
    BY <2>1, <2>2 DEF AtWork
  <2>3. CASE Ended
    BY <2>1, <2>3 DEF Ended
  <2> QED
    BY <2>1, <2>2, <2>3
<1> QED
  BY <1>1, Lemma_Engine, PTL

-----------------------------------------------------------------------------
(* What a call returns.                                                      *)

\* The parts of a request that have descriptors lie one after the other in it.
Parts(a) == req[a].tfer + IF pc[a] \in {"queue", "enqueue", "flight"} THEN 1 ELSE 0
Row(a, k) ==
  LET x == xfer[<<a, k>>] IN
  /\ k < Parts(a) =>
       /\ x.num > 0 /\ x.off + x.num <= req[a].idx
       /\ \A j \in 0 .. k - 1 : xfer[<<a, j>>].off + xfer[<<a, j>>].num <= x.off
  /\ k >= Parts(a) => x.num = 0
Lone(r) == \A k \in 1 .. MaxDesc - 1 : xfer[<<r, k>>].num = 0

Rows ==
  /\ \A r \in Sync : Lone(r)
  /\ \A a \in Async : \A k \in 0 .. MaxDesc - 1 : Row(a, k)

\* Only one call and its parts change.
LEMMA Rows_Call ==
  ASSUME TypeOK, Rows, NEW r \in Calls,
         \A q \in Calls \ {r} : pc'[q] = pc[q] /\ req'[q] = req[q],
         \A u \in Xfers : u[1] # r => xfer'[u].num = xfer[u].num /\ xfer'[u].off = xfer[u].off,
         r \in Sync => Lone(r)',
         r \in Async => \A k \in 0 .. MaxDesc - 1 : Row(r, k)'
  PROVE  Rows'
<1>1. MaxDesc \in Nat \ {0}
  BY SizesPositive
<1>2. \A q \in Calls \ {r}, k \in 0 .. MaxDesc - 1 :
        /\ xfer'[<<q, k>>].num = xfer[<<q, k>>].num
        /\ xfer'[<<q, k>>].off = xfer[<<q, k>>].off
  BY Lemma_Xfers
<1>3. ASSUME NEW q \in Sync PROVE Lone(q)'
  <2>1. CASE q # r
    <3>1. q \in Calls \ {r} /\ Lone(q) /\ \A k \in 1 .. MaxDesc - 1 : k \in 0 .. MaxDesc - 1
      BY <1>1, <2>1 DEF Rows, Calls
    <3> QED
      BY <1>2, <3>1 DEF Lone
  <2> QED
    BY <2>1
<1>4. ASSUME NEW a \in Async, NEW k \in 0 .. MaxDesc - 1 PROVE Row(a, k)'
  <2>1. CASE a # r
    <3>1. a \in Calls \ {r} /\ Row(a, k) /\ Parts(a)' = Parts(a)
      BY <2>1 DEF Rows, Calls, Parts
    <3>2. \A j \in 0 .. k - 1 : j \in 0 .. MaxDesc - 1
      BY <1>1
    <3>3. \A j \in 0 .. k - 1 : /\ xfer'[<<a, j>>].num = xfer[<<a, j>>].num
                                /\ xfer'[<<a, j>>].off = xfer[<<a, j>>].off
      BY <1>2, <3>1, <3>2
    <3>4. /\ xfer'[<<a, k>>].num = xfer[<<a, k>>].num
          /\ xfer'[<<a, k>>].off = xfer[<<a, k>>].off /\ req'[a] = req[a]
      BY <1>2, <3>1
    <3> QED
      BY <3>1, <3>3, <3>4 DEF Row
  <2> QED
    BY <1>4, <2>1
<1> QED
  BY <1>3, <1>4 DEF Rows

\* A step of a call that takes no descriptors and frees none.
LEMMA Rows_Stay ==
  ASSUME TypeOK, Rows, NEW r \in Calls,
         \A q \in Calls \ {r} : pc'[q] = pc[q] /\ req'[q] = req[q],
         \A u \in Xfers : xfer'[u].num = xfer[u].num /\ xfer'[u].off = xfer[u].off,
         r \in Async => Parts(r)' = Parts(r) /\ req'[r].idx = req[r].idx
  PROVE  Rows'
<1>1. MaxDesc \in Nat \ {0}
  BY SizesPositive
<1>2. \A k \in 0 .. MaxDesc - 1 :
        /\ xfer'[<<r, k>>].num = xfer[<<r, k>>].num
        /\ xfer'[<<r, k>>].off = xfer[<<r, k>>].off
  BY Lemma_Xfers
<1>3. r \in Sync => Lone(r)'
  <2>1. \A k \in 1 .. MaxDesc - 1 : k \in 0 .. MaxDesc - 1
    BY <1>1
  <2> QED
    BY <1>2, <2>1 DEF Rows, Lone
<1>4. ASSUME r \in Async, NEW k \in 0 .. MaxDesc - 1 PROVE Row(r, k)'
  <2>1. \A j \in 0 .. k - 1 : j \in 0 .. MaxDesc - 1
    BY <1>1
  <2>2. \A j \in 0 .. k - 1 : /\ xfer'[<<r, j>>].num = xfer[<<r, j>>].num
                              /\ xfer'[<<r, j>>].off = xfer[<<r, j>>].off
    BY <1>2, <2>1
  <2>3. Row(r, k)
    BY <1>4 DEF Rows
  <2> QED
    BY <1>2, <1>4, <2>2, <2>3 DEF Row
<1> QED
  BY <1>3, <1>4, Rows_Call

\* A request that is freed has no parts.
LEMMA Rows_Freed ==
  ASSUME TypeOK, Rows, NEW r \in Calls, pc'[r] = "idle", req'[r] = NoReq,
         \A q \in Calls \ {r} : pc'[q] = pc[q] /\ req'[q] = req[q],
         \A u \in Xfers : u[1] # r => xfer'[u] = xfer[u],
         \A u \in Xfers : u[1] = r => xfer'[u] = NoXfer
  PROVE  Rows'
<1>1. MaxDesc \in Nat \ {0}
  BY SizesPositive
<1>2. \A k \in 0 .. MaxDesc - 1 : xfer'[<<r, k>>].num = 0
  BY Lemma_Xfers DEF NoXfer
<1>3. Lone(r)'
  <2>1. \A k \in 1 .. MaxDesc - 1 : k \in 0 .. MaxDesc - 1
    BY <1>1
  <2> QED
    BY <1>2, <2>1 DEF Lone
<1>4. Parts(r)' = 0
  BY DEF Parts, NoReq
<1>5. \A k \in 0 .. MaxDesc - 1 : ~ (k < 0)
  BY <1>1
<1>6. \A k \in 0 .. MaxDesc - 1 : Row(r, k)'
  BY <1>2, <1>4, <1>5 DEF Row
<1> QED
  BY <1>3, <1>6, Rows_Call

\* The part that takes its descriptors follows those that have theirs.
LEMMA Rows_TransferInit ==
  ASSUME TypeInv, Rows, NEW r \in Calls, TransferInit(r)
  PROVE  Rows'
<1> USE DEF TypeInv
<1>1. PICK t \in Xfers, n \in Nat \ {0} : Takes(r, t, n)
  BY Lemma_InitFacts
<1> USE DEF Takes
<1>2. PICK i, m : i = req[r].idx /\ m = req[r].tfer
  OBVIOUS
<1>3. /\ i \in Nat /\ m \in 0 .. MaxDesc - 1 /\ MaxDesc \in Nat \ {0} /\ m \in Nat
  BY <1>2, SizesPositive DEF TypeOK, Requests
<1>4. r \in Sync => Lone(r)'
  <2>1. SUFFICES ASSUME r \in Sync, NEW k \in 1 .. MaxDesc - 1
                 PROVE  xfer'[<<r, k>>].num = 0
    BY DEF Lone
  <2>2. <<r, k>> \in Xfers /\ <<r, k>> # t
    BY <1>1, <1>3, <2>1, Lemma_Xfers DEF Current
  <2> QED
    BY <1>1, <2>1, <2>2 DEF Rows, Lone
<1>5. ASSUME r \in Async, NEW k \in 0 .. MaxDesc - 1 PROVE Row(r, k)'
  <2>1. Parts(r) = m /\ Parts(r)' = m + 1 /\ req'[r].idx = i + n /\ t = <<r, m>>
    BY <1>1, <1>2, <1>3, <1>5 DEF Parts
  <2>2. \A j \in 0 .. MaxDesc - 1 :
          /\ <<r, j>> \in Xfers
          /\ xfer[<<r, j>>].off \in Nat /\ xfer[<<r, j>>].num \in Nat
          /\ j # m => xfer'[<<r, j>>] = xfer[<<r, j>>]
          /\ j < m => xfer[<<r, j>>].off + xfer[<<r, j>>].num <= i
    <3>1. ASSUME NEW j \in 0 .. MaxDesc - 1
          PROVE  /\ <<r, j>> \in Xfers
                 /\ xfer[<<r, j>>].off \in Nat /\ xfer[<<r, j>>].num \in Nat
                 /\ j # m => xfer'[<<r, j>>] = xfer[<<r, j>>]
                 /\ j < m => xfer[<<r, j>>].off + xfer[<<r, j>>].num <= i
      <4>1. <<r, j>> \in Xfers /\ (j # m => <<r, j>> # t)
        BY <2>1, Lemma_Xfers
      <4>2. xfer[<<r, j>>] \in Transfers
        BY <4>1 DEF TypeOK
      <4>3. Row(r, j)
        BY <1>5 DEF Rows
      <4> QED
        BY <1>1, <1>2, <2>1, <4>1, <4>2, <4>3, SizesPositive DEF Row, Transfers
    <3> QED
      BY <3>1
  <2>3. \A j \in 0 .. k - 1 : j \in 0 .. MaxDesc - 1 /\ j < k
    BY <1>3
  <2>4. CASE k = m
    <3>1. xfer'[<<r, k>>].num = n /\ xfer'[<<r, k>>].off = i
      BY <1>1, <1>2, <2>1, <2>4
    <3>2. \A j \in 0 .. k - 1 :
            xfer'[<<r, j>>].off + xfer'[<<r, j>>].num <= i
      <4>1. ASSUME NEW j \in 0 .. k - 1
            PROVE  xfer'[<<r, j>>].off + xfer'[<<r, j>>].num <= i
        <5>1. j \in 0 .. MaxDesc - 1 /\ j < m /\ j # m
          BY <1>3, <2>3, <2>4
        <5> QED
          BY <2>2, <5>1
      <4> QED
        BY <4>1
    <3>3. k < m + 1 /\ ~ (k >= m + 1) /\ n > 0 /\ i + n <= i + n
      BY <1>3, <2>4
    <3> QED
      BY <2>1, <3>1, <3>2, <3>3 DEF Row
  <2>5. CASE k # m
    <3>1. Row(r, k) /\ xfer'[<<r, k>>] = xfer[<<r, k>>]
      BY <1>5, <2>2, <2>5 DEF Rows
    <3>2. CASE k < m
      <4>1. /\ xfer[<<r, k>>].num > 0
            /\ \A j \in 0 .. k - 1 :
                 xfer[<<r, j>>].off + xfer[<<r, j>>].num <= xfer[<<r, k>>].off
        BY <2>1, <3>1, <3>2 DEF Row
      <4>2. \A j \in 0 .. k - 1 : xfer'[<<r, j>>] = xfer[<<r, j>>]
        <5>1. ASSUME NEW j \in 0 .. k - 1 PROVE xfer'[<<r, j>>] = xfer[<<r, j>>]
          <6>1. j \in 0 .. MaxDesc - 1 /\ j # m
            BY <1>3, <2>3, <3>2
          <6> QED
            BY <2>2, <6>1
        <5> QED
          BY <5>1
      <4>3. xfer[<<r, k>>].off + xfer[<<r, k>>].num <= i + n
        <5>1. /\ xfer[<<r, k>>].off + xfer[<<r, k>>].num <= i
              /\ xfer[<<r, k>>].off \in Nat /\ xfer[<<r, k>>].num \in Nat
          BY <2>2, <3>2
        <5> QED
          BY <1>3, <5>1
      <4>4. ~ (k >= m + 1)
        BY <1>3, <3>2
      <4> QED
        BY <2>1, <3>1, <4>1, <4>2, <4>3, <4>4 DEF Row
    <3>3. CASE ~ (k < m)
      <4>1. k >= m /\ ~ (k < m + 1)
        BY <1>3, <2>5, <3>3
      <4>2. xfer'[<<r, k>>].num = 0
        BY <2>1, <3>1, <4>1 DEF Row
      <4> QED
        BY <2>1, <4>1, <4>2 DEF Row
    <3> QED
      BY <3>2, <3>3
  <2> QED
    BY <2>4, <2>5
<1>6. \A u \in Xfers : u[1] # r => xfer'[u] = xfer[u]
  BY <1>1
<1> QED
  BY <1>1, <1>4, <1>5, <1>6, Rows_Call

\* The history of what the hardware executed: the head of the list has moved
\* what the register counts, what waits behind it nothing, and what is complete
\* everything.
Moves ==
  /\ list # << >> => moved[Head(list)] = 0 .. hw.count - 1
  /\ \A t \in Xfers :
       Held(t) /\ (list # << >> => t # Head(list)) => moved[t] = {}
  /\ \A t \in Xfers : xfer[t].state = "COMPLETED" => AllMoved(t)

MovesInv == EngineInv /\ Rows /\ Moves

\* A step that moves nothing of the transfers that stay.
LEMMA Moves_Stay ==
  ASSUME RingInv', Moves, list' = list, hw'.count = hw.count,
         \A t \in Xfers : Held(t)' =>
           \/ Held(t) /\ moved'[t] = moved[t]
           \/ ~ Queued(t)' /\ moved'[t] = {},
         \A t \in Xfers : xfer'[t].state = "COMPLETED" =>
           /\ xfer[t].state = "COMPLETED"
           /\ xfer'[t].num = xfer[t].num /\ moved'[t] = moved[t]
  PROVE  Moves'
<1>1. PICK q : q = list
  OBVIOUS
<1>2. q # << >> => Head(q) \in Xfers /\ Queued(Head(q))'
  <2>1. SUFFICES ASSUME q # << >> PROVE Head(q) \in Xfers /\ Queued(Head(q))'
    OBVIOUS
  <2>2. list' = q /\ q \in Seq(Xfers) /\ QueueWellFormed'
    BY <1>1 DEF RingInv, TypeInv, TypeOK, Sound
  <2>3. Head(q) = q[1] /\ 1 \in DOMAIN q /\ Head(q) \in Xfers
    BY <2>1, <2>2
  <2>4. Head(q) \in Range(q)
    BY <2>3 DEF Range
  <2>5. Range(q) = {u \in Xfers : Queued(u)'}
    BY <2>2 DEF QueueWellFormed
  <2> QED
    BY <2>3, <2>4, <2>5
<1>3. list' # << >> => moved'[Head(list')] = 0 .. hw'.count - 1
  <2>1. SUFFICES ASSUME q # << >> PROVE moved'[Head(q)] = 0 .. hw'.count - 1
    BY <1>1
  <2>2. Head(q) \in Xfers /\ Queued(Head(q))' /\ Held(Head(q))'
    BY <1>2, <2>1 DEF Held
  <2>3. moved'[Head(q)] = moved[Head(q)]
    BY <2>2
  <2> QED
    BY <1>1, <2>1, <2>3 DEF Moves
<1>4. ASSUME NEW t \in Xfers, Held(t)', list' # << >> => t # Head(list')
      PROVE  moved'[t] = {}
  BY <1>4 DEF Moves
<1>5. \A t \in Xfers : xfer'[t].state = "COMPLETED" => AllMoved(t)'
  BY DEF Moves, AllMoved
<1> QED
  BY <1>3, <1>4, <1>5 DEF Moves

\* Who holds a chain is told by the call and the transfer.
LEMMA Held_Same ==
  ASSUME NEW t \in Xfers, pc'[t[1]] = pc[t[1]], req'[t[1]] = req[t[1]],
         xfer'[t] = xfer[t]
  PROVE  Held(t)' <=> Held(t)
BY DEF Held, Queued, Current

\* The transfer that takes its descriptors has moved nothing.
LEMMA Moves_TransferInit ==
  ASSUME MovesInv, RingInv', NEW r \in Calls, TransferInit(r)
  PROVE  Moves'
<1>1. PICK t \in Xfers, n \in Nat \ {0} : Takes(r, t, n)
  BY Lemma_InitFacts DEF MovesInv, EngineInv, RingInv
<1> USE DEF Takes
<1>2. ~ Queued(t)' /\ xfer'[t].state # "COMPLETED"
  BY <1>1 DEF Queued
<1>3. Current(r)' = t
  BY <1>1 DEF Current
<1>4. \A u \in Xfers : u # t /\ Held(u)' => Held(u)
  <2>1. ASSUME NEW u \in Xfers, u # t, Held(u)' PROVE Held(u)
    <3>1. CASE u[1] = r
      BY <1>1, <1>3, <2>1, <3>1 DEF Held, Queued
    <3>2. CASE u[1] # r
      BY <1>1, <2>1, <3>2, Lemma_Xfers, Held_Same
    <3> QED
      BY <3>1, <3>2
  <2> QED
    BY <2>1
<1>5. hw' = hw /\ list' = list
  BY DEF TransferInit, listVars
<1> QED
  BY <1>1, <1>2, <1>4, <1>5, Moves_Stay DEF MovesInv

\* A step of a call that queues nothing.
LEMMA Moves_Calls ==
  ASSUME Calm, MovesInv, RingInv', NEW r \in Calls,
         \/ Submit(r) \/ TransferInit(r) \/ CheckOffline(r)
         \/ r \in Sync /\ (LockDesc(r) \/ SyncDone(r))
  PROVE  Moves'
<1> USE DEF MovesInv, EngineInv, RingInv, TypeInv
<1>1. ~ offline
  BY Lemma_Calm
<1>2. hw' = hw /\ list' = list
  BY DEF Submit, TransferInit, CheckOffline, LockDesc, SyncDone, listVars
<1>3. \A t \in Xfers : t[1] \in Calls
  BY Lemma_Xfers
<1>4. CASE Submit(r) \/ CheckOffline(r) \/ (r \in Sync /\ LockDesc(r))
  <2>1. /\ xfer' = xfer /\ moved' = moved
        /\ \A q \in Calls \ {r} : pc'[q] = pc[q] /\ req'[q] = req[q]
        /\ pc'[r] \in {"queue", "enqueue"} =>
             pc[r] \in {"queue", "enqueue"} /\ req'[r] = req[r]
    BY <1>1, <1>4 DEF Submit, CheckOffline, LockDesc, Goto, Return, TypeOK
  <2>2. \A t \in Xfers : Held(t)' => Held(t)
    BY <1>3, <2>1 DEF Held, Queued, Current
  <2> QED
    BY <1>2, <2>1, <2>2, Moves_Stay
<1>5. CASE TransferInit(r)
  BY <1>5, Moves_TransferInit
<1>6. CASE r \in Sync /\ SyncDone(r)
  <2>1. CASE Goto(r, "init") /\ UNCHANGED <<req, xfer, moved>>
    <3>1. pc'[r] = "init" /\ \A q \in Calls \ {r} : pc'[q] = pc[q]
      BY <2>1 DEF Goto, TypeOK
    <3>2. \A t \in Xfers : Held(t)' => Held(t)
      BY <1>3, <2>1, <3>1 DEF Held, Queued, Current
    <3> QED
      BY <1>2, <2>1, <3>2, Moves_Stay
  <2>2. CASE Return(r, SyncResult(xfer[<<r, 0>>])) /\ FreeReq(r, xfer)
    <3>1. pc'[r] = "idle" /\ \A q \in Calls \ {r} : pc'[q] = pc[q] /\ req'[q] = req[q]
      BY <2>2 DEF Return, FreeReq, TypeOK
    <3>2. /\ \A u \in Xfers : u[1] # r => xfer'[u] = xfer[u] /\ moved'[u] = moved[u]
          /\ \A u \in Xfers : u[1] = r => xfer'[u] = NoXfer
      BY <2>2 DEF FreeReq
    <3>3. \A u \in Xfers : u[1] = r => ~ Held(u)' /\ xfer'[u].state = "NEW"
      BY <3>1, <3>2 DEF Held, Queued, NoXfer
    <3>4. \A u \in Xfers : u[1] # r => (Held(u)' <=> Held(u))
      BY <1>3, <3>1, <3>2, Held_Same
    <3>5. \A u \in Xfers : Held(u)' => Held(u) /\ moved'[u] = moved[u]
      BY <3>2, <3>3, <3>4
    <3>6. \A u \in Xfers : xfer'[u].state = "COMPLETED" =>
            /\ xfer[u].state = "COMPLETED"
            /\ xfer'[u].num = xfer[u].num /\ moved'[u] = moved[u]
      BY <3>2, <3>3
    <3> QED
      BY <1>2, <3>5, <3>6, Moves_Stay
  <2> QED
    BY <1>6, <2>1, <2>2 DEF SyncDone
<1> QED
  BY <1>4, <1>5, <1>6

\* What is queued has moved nothing, and nothing is counted when the engine
\* is started on it.
LEMMA Moves_TransferQueue ==
  ASSUME MovesInv, RingInv', NEW r \in Calls, TransferQueue(r)
  PROVE  Moves'
<1> USE DEF MovesInv, EngineInv, RingInv, TypeInv
<1>1. PICK t, q : t = Current(r) /\ q = list
  OBVIOUS
<1>2. /\ t \in Xfers /\ t[1] = r /\ pc[r] = "enqueue" /\ svc.at = "idle"
      /\ list' = Append(q, t) /\ q \in Seq(Xfers) /\ moved' = moved
      /\ xfer' = [xfer EXCEPT ![t].state = "SUBMITTED"] /\ xfer[t] \in Transfers
      /\ hw \in EngineStates
      /\ IF running THEN hw' = hw ELSE engine_start(list', xfer, hw)
      /\ pc'[r] \in {"wait", "init", "flight"}
      /\ \A p \in Calls \ {r} : pc'[p] = pc[p] /\ req'[p] = req[p]
  BY <1>1, Lemma_Current DEF TransferQueue, AddTail, LockFree, TypeOK, Current, Goto
<1>3. /\ xfer'[t].state = "SUBMITTED"
      /\ \A u \in Xfers : u # t => xfer'[u] = xfer[u]
      /\ \A u \in Xfers : xfer'[u].num = xfer[u].num
  BY <1>2 DEF TypeOK, Transfers
<1>4. Held(t)
  BY <1>1, <1>2 DEF Held
<1>5. \A u \in Xfers : Held(u)' => Held(u)
  <2>1. ASSUME NEW u \in Xfers, u # t, Held(u)' PROVE Held(u)
    <3>1. u[1] \in Calls
      BY Lemma_Xfers
    <3>2. CASE u[1] = r
      BY <1>2, <1>3, <2>1, <3>2 DEF Held, Queued
    <3>3. CASE u[1] # r
      BY <1>2, <1>3, <2>1, <3>1, <3>3, Held_Same
    <3> QED
      BY <3>2, <3>3
  <2> QED
    BY <1>4, <2>1
<1>6. ~ running => hw'.count = 0
  <2>1. ~ running => hw' = Started(hw, xfer, Head(list'))
    BY <1>2 DEF engine_start
  <2> QED
    BY <1>2, <2>1 DEF Started, EngineStates
<1>7. list' # << >> /\ Head(list') = IF q = << >> THEN t ELSE Head(q)
  BY <1>2
<1>8. moved[Head(list')] = 0 .. hw'.count - 1
  <2>1. CASE q = << >>
    <3>1. ~ running
      BY <1>1, <1>2, <2>1 DEF Engine, Resting, AtWork, Ended, Stuck
    <3>2. moved[t] = {}
      BY <1>1, <1>2, <1>4, <2>1 DEF Moves
    <3>3. hw'.count = 0 /\ 0 .. 0 - 1 = {}
      BY <1>6, <3>1
    <3> QED
      BY <1>7, <2>1, <3>2, <3>3
  <2>2. CASE q # << >> /\ running
    BY <1>1, <1>2, <1>7, <2>2 DEF Moves
  <2>3. CASE q # << >> /\ ~ running
    <3>1. hw.count = 0
      BY <1>1, <1>2, <2>3 DEF Engine, Resting, AtWork, Ended, Stuck
    <3> QED
      BY <1>1, <1>6, <1>7, <2>3, <3>1 DEF Moves
  <2> QED
    BY <2>1, <2>2, <2>3
<1>9. ASSUME NEW u \in Xfers, Held(u)', list' # << >> => u # Head(list')
      PROVE  moved[u] = {}
  <2>1. Held(u) /\ (q # << >> => u # Head(q))
    BY <1>5, <1>7, <1>9
  <2> QED
    BY <1>1, <2>1 DEF Moves
<1>10. \A u \in Xfers : xfer'[u].state = "COMPLETED" => AllMoved(u)'
  <2>1. ASSUME NEW u \in Xfers, xfer'[u].state = "COMPLETED"
        PROVE  moved[u] = 0 .. xfer'[u].num - 1
    <3>1. u # t
      BY <1>3, <2>1
    <3>2. AllMoved(u) /\ xfer'[u] = xfer[u]
      BY <1>3, <2>1, <3>1 DEF Moves
    <3> QED
      BY <3>2 DEF AllMoved
  <2> QED
    BY <1>2, <2>1 DEF AllMoved
<1> QED
  BY <1>2, <1>8, <1>9, <1>10 DEF Moves

\* The hardware executes the next descriptor of the head.
LEMMA Moves_Hardware ==
  ASSUME MovesInv, RingInv', Hardware \/ ChannelIrq
  PROVE  Moves'
<1> USE DEF MovesInv, EngineInv, RingInv, TypeInv
<1>1. UNCHANGED <<xfer, list, pc, req>> /\ hw \in EngineStates
  BY DEF Hardware, HwStep, HwFault, HwHalt, ChannelIrq, listVars, callVars, TypeOK
<1>2. \A u \in Xfers : Held(u)' <=> Held(u)
  BY <1>1 DEF Held, Queued, Current
<1>3. CASE HwStep
  <2>1. AtWork
    BY <1>3, Lemma_AtWork DEF HwStep
  <2>2. PICK t, c : t = Head(list) /\ c = hw.count
    OBVIOUS
  <2>3. /\ t \in Xfers /\ list # << >> /\ Queued(t) /\ c \in Nat
        /\ HeadXfer.first \in Nat
    BY <2>1, <2>2, Lemma_HeadChain DEF AtWork
  <2>4. hw.cur.t = t /\ hw.cur.i = c
    <3>1. hw.cur.t = t /\ hw.cur.i = hw.pos - HeadXfer.first
      BY <2>1, <2>2 DEF AtWork, Link
    <3>2. hw.pos = HeadXfer.first + c
      BY <2>1, <2>2 DEF AtWork
    <3> QED
      BY <2>3, <3>1, <3>2
  <2>5. hw'.count = c + 1
    BY <1>1, <1>3, <2>2 DEF HwStep, Halted, EngineStates
  <2>6. moved' = [moved EXCEPT ![t] = @ \cup {c}]
    BY <1>3, <2>1, <2>4 DEF HwStep, AtWork
  <2>7. moved'[t] = moved[t] \cup {c} /\ \A u \in Xfers : u # t => moved'[u] = moved[u]
    BY <2>3, <2>6 DEF TypeOK
  <2>8. moved'[t] = 0 .. hw'.count - 1
    <3>1. moved[t] = 0 .. c - 1
      BY <2>2, <2>3 DEF Moves
    <3> QED
      BY <2>3, <2>5, <2>7, <3>1
  <2>9. \A u \in Xfers : xfer'[u].state = "COMPLETED" => AllMoved(u)'
    <3>1. ASSUME NEW u \in Xfers, xfer[u].state = "COMPLETED" PROVE AllMoved(u)'
      <4>1. u # t /\ AllMoved(u)
        BY <2>3, <3>1 DEF Moves, Queued
      <4> QED
        BY <1>1, <2>7, <4>1 DEF AllMoved
    <3> QED
      BY <1>1, <3>1
  <2>10. ASSUME NEW u \in Xfers, Held(u)', list' # << >> => u # Head(list')
         PROVE  moved'[u] = {}
    <3>1. Held(u) /\ u # t
      BY <1>1, <1>2, <2>2, <2>3, <2>10
    <3> QED
      BY <2>2, <2>7, <3>1 DEF Moves
  <2> QED
    BY <1>1, <2>2, <2>8, <2>9, <2>10 DEF Moves
<1>4. CASE HwFault \/ HwHalt \/ ChannelIrq
  <2>1. moved' = moved
    BY <1>4 DEF HwFault, HwHalt, ChannelIrq
  <2>2. hw'.count = hw.count
    BY <1>1, <1>4 DEF HwFault, HwHalt, ChannelIrq, Halted, EngineStates
  <2> QED
    BY <1>1, <1>2, <2>1, <2>2, Moves_Stay
<1> QED
  BY <1>3, <1>4 DEF Hardware

\* The head is finished: completed when all of it has moved, failed when some
\* of it has and some has not.
LEMMA Lemma_Final ==
  ASSUME MovesInv, ServiceFinal
  PROVE  /\ list # << >> /\ svc.at = "list" /\ ~ hw.busy
         /\ \E state \in {"COMPLETED", "FAILED"} :
              /\ Finish(Head(list), state)
              /\ state = "COMPLETED" => AllMoved(Head(list))
              /\ state = "FAILED" =>
                   moved[Head(list)] # {} /\ ~ AllMoved(Head(list))
<1> USE DEF MovesInv, EngineInv, RingInv, TypeInv
<1>1. /\ svc.at = "list" /\ list # << >> /\ Serviced /\ svc.cnt = hw.count /\ hw.count > 0
  BY DEF ServiceFinal, Engine
<1>2. PICK t, c, n : t = Head(list) /\ c = hw.count /\ n = xfer[t].num
  OBVIOUS
<1>3. n \in Nat \ {0} /\ c \in Nat /\ c > 0
  BY <1>1, <1>2, Lemma_HeadChain DEF Serviced, Counted, HeadXfer
<1>4. IF svc.err THEN c < n ELSE c = n
  BY <1>1, <1>2 DEF Serviced, Counted, HeadXfer
<1>5. moved[t] = 0 .. c - 1
  BY <1>1, <1>2 DEF Moves
<1>6. AllMoved(t) <=> c = n
  <2>1. AllMoved(t) <=> moved[t] = 0 .. n - 1
    BY <1>2 DEF AllMoved
  <2>2. c < n => c \in 0 .. n - 1 /\ c \notin 0 .. c - 1
    BY <1>3
  <2>3. c < n => 0 .. c - 1 # 0 .. n - 1
    BY <2>2
  <2> QED
    BY <1>3, <1>4, <1>5, <2>1, <2>3
<1>7. 0 \in moved[t]
  BY <1>3, <1>5
<1>8. Whole(t) <=> c >= n
  BY <1>1, <1>2 DEF Whole
<1>9. Finish(t, IF Whole(t) /\ ~ svc.err THEN "COMPLETED" ELSE "FAILED")
  BY <1>2 DEF ServiceFinal
<1>10. CASE svc.err
  <2>1. Finish(t, "FAILED") /\ ~ AllMoved(t)
    BY <1>3, <1>4, <1>6, <1>9, <1>10
  <2> QED
    BY <1>1, <1>2, <1>7, <2>1 DEF Serviced, Quiet
<1>11. CASE ~ svc.err
  <2>1. Finish(t, "COMPLETED") /\ AllMoved(t)
    BY <1>3, <1>4, <1>6, <1>8, <1>9, <1>11
  <2> QED
    BY <1>1, <1>2, <2>1 DEF Serviced, Quiet
<1> QED
  BY <1>10, <1>11

\* A transfer on the list is not the one its call is building.
LEMMA Lemma_NotBuilt ==
  ASSUME TypeInv, Sound, NEW t \in Xfers, Queued(t)
  PROVE  ~ (pc[t[1]] \in {"queue", "enqueue"} /\ t = Current(t[1]))
<1> USE DEF TypeInv
<1>1. PICK r, k : r = t[1] /\ k = t[2]
  OBVIOUS
<1>2. r \in Calls /\ k \in 0 .. MaxDesc - 1 /\ t = <<r, k>>
  BY <1>1, Lemma_Xfers
<1>3. CASE r \in Sync
  BY <1>1, <1>2, <1>3 DEF Sound, Blocking
<1>4. CASE r \in Async
  <2>1. SUFFICES ASSUME pc[r] \in {"queue", "enqueue"}, t = Current(r) PROVE FALSE
    BY <1>1
  <2>2. r \notin Sync /\ Parted(r)
    BY <1>4, CallsDisjoint DEF Sound
  <2>3. k < req[r].tfer
    BY <1>2, <2>1, <2>2 DEF Parted
  <2>4. k = req[r].tfer
    BY <1>2, <2>1, <2>2 DEF Current
  <2> QED
    BY <1>2, <2>3, <2>4, SizesPositive
<1> QED
  BY <1>2, <1>3, <1>4 DEF Calls

\* The next one starts from nothing.
LEMMA Moves_Final ==
  ASSUME MovesInv, RingInv', ServiceFinal
  PROVE  Rows' /\ Moves'
<1> USE DEF MovesInv, EngineInv, RingInv, TypeInv
<1>1. /\ list # << >> /\ svc.at = "list"
      /\ \E state \in {"COMPLETED", "FAILED"} :
              /\ Finish(Head(list), state)
              /\ state = "COMPLETED" => AllMoved(Head(list))
  BY Lemma_Final
<1>2. PICK state \in {"COMPLETED", "FAILED"} :
        Finish(Head(list), state) /\ (state = "COMPLETED" => AllMoved(Head(list)))
  BY <1>1
<1>3. PICK t \in Xfers : Leaves(t, state)
  <2>1. TypeInv /\ QueueWellFormed /\ list # << >> /\ Finish(Head(list), state)
    BY <1>1, <1>2 DEF Sound
  <2> QED
    BY <2>1, Lemma_FinishFacts
<1> USE DEF Leaves
<1>4. xfer[t] \in Transfers /\ t[1] \in Calls
  BY <1>3, Lemma_Xfers DEF TypeOK
<1>5. \A u \in Xfers :
        \/ /\ xfer'[u] = xfer[u] /\ moved'[u] = moved[u]
           /\ pc'[u[1]] = pc[u[1]] /\ req'[u[1]] = req[u[1]]
        \/ /\ u = t /\ moved'[u] = moved[u] /\ ~ Queued(u)'
           /\ pc'[u[1]] = pc[u[1]] /\ req'[u[1]] = req[u[1]]
           /\ xfer'[u] = [xfer[u] EXCEPT !.state = state]
        \/ xfer'[u] = NoXfer /\ moved'[u] = {} /\ pc'[u[1]] = "idle"
  <2>1. CASE ~ LastInRequest(t)
    <3>1. xfer'[t].state = state
      BY <1>3, <1>4, <2>1 DEF Transfers
    <3> QED
      BY <1>3, <2>1, <3>1 DEF Queued
  <2>2. CASE LastInRequest(t)
    <3>1. \A u \in Xfers : u[1] \in Calls
      BY Lemma_Xfers
    <3> QED
      BY <1>3, <2>2, <3>1
  <2> QED
    BY <2>1, <2>2
<1>6. Rows'
  <2>1. CASE ~ LastInRequest(t)
    <3>1. \A u \in Xfers : xfer'[u].num = xfer[u].num /\ xfer'[u].off = xfer[u].off
      BY <1>3, <1>4, <2>1 DEF Transfers
    <3>2. Parts(t[1])' = Parts(t[1]) /\ req' = req /\ pc' = pc
      BY <1>3, <2>1 DEF Parts
    <3> QED
      BY <1>4, <3>1, <3>2, Rows_Stay
  <2>2. CASE LastInRequest(t)
    BY <1>3, <1>4, <2>2, Rows_Freed
  <2> QED
    BY <2>1, <2>2
<1>7. \A u \in Xfers : Held(u)' => moved'[u] = moved[u] /\ (Held(u) \/ u = t)
  <2>1. ASSUME NEW u \in Xfers, Held(u)'
        PROVE  moved'[u] = moved[u] /\ (Held(u) \/ u = t)
    <3>1. xfer'[u] = NoXfer /\ pc'[u[1]] = "idle" => FALSE
      BY <2>1 DEF Held, Queued, NoXfer
    <3> QED
      BY <1>3, <1>5, <2>1, <3>1, Held_Same
  <2> QED
    BY <2>1
<1>8. Held(t)
  BY <1>3 DEF Held
<1>9. \A u \in Xfers : xfer'[u].state = "COMPLETED" => AllMoved(u)'
  <2>1. ASSUME NEW u \in Xfers, xfer'[u].state = "COMPLETED"
        PROVE  moved'[u] = 0 .. xfer'[u].num - 1
    <3>1. xfer'[u] # NoXfer
      BY <2>1 DEF NoXfer
    <3>2. CASE xfer'[u] = xfer[u] /\ moved'[u] = moved[u]
      BY <2>1, <3>2 DEF Moves, AllMoved
    <3>3. CASE u = t /\ moved'[u] = moved[u] /\ xfer'[u] = [xfer[u] EXCEPT !.state = state]
      <4>1. xfer'[u].num = xfer[u].num /\ xfer'[u].state = state
        BY <1>4, <3>3 DEF Transfers
      <4>2. AllMoved(t)
        BY <1>2, <1>3, <2>1, <4>1
      <4> QED
        BY <3>3, <4>1, <4>2 DEF AllMoved
    <3> QED
      BY <1>5, <3>1, <3>2, <3>3
  <2> QED
    BY <2>1 DEF AllMoved
<1>10. PICK q : q = Tail(list)
  OBVIOUS
<1>11. list' = q /\ list \in Seq(Xfers) /\ q \in Seq(Xfers) /\ IsInjective(list)
  BY <1>1, <1>10 DEF ServiceFinal, TypeOK, Sound, QueueWellFormed
<1>12. q # << >> => Head(q) \in Xfers /\ Head(q) # t /\ Queued(Head(q))'
  <2>1. SUFFICES ASSUME q # << >>
                 PROVE  Head(q) \in Xfers /\ Head(q) # t /\ Queued(Head(q))'
    OBVIOUS
  <2>2. /\ Head(q) = q[1] /\ 1 \in DOMAIN q /\ q[1] = list[2] /\ 2 \in DOMAIN list
        /\ t = list[1] /\ 1 \in DOMAIN list
    BY <1>1, <1>3, <1>10, <1>11, <2>1
  <2>3. list[2] # list[1]
    BY <1>11, <2>2 DEF IsInjective
  <2>4. Head(q) \in Range(q)
    BY <2>2 DEF Range
  <2>5. Range(q) = {u \in Xfers : Queued(u)'}
    BY <1>11 DEF Sound, QueueWellFormed
  <2> QED
    BY <2>2, <2>3, <2>4, <2>5
<1>13. q # << >> => moved'[Head(q)] = 0 .. hw'.count - 1
  <2>1. SUFFICES ASSUME q # << >> PROVE moved'[Head(q)] = 0 .. hw'.count - 1
    OBVIOUS
  <2>2. PICK h, n : /\ Resume(Tail(list), xfer, running /\ ~ svc.err, h, n)
                    /\ h = IF svc.err THEN Stopped(hw) ELSE hw
    BY DEF ServiceFinal
  <2>3. ~ running
    BY <1>1 DEF Engine, Serviced
  <2>4. h \in EngineStates /\ engine_start(q, xfer, h)
    BY <1>10, <2>1, <2>2, <2>3 DEF Resume, Stopped, EngineStates, TypeOK
  <2>5. hw'.count = 0 /\ 0 .. 0 - 1 = {}
    BY <2>4 DEF engine_start, Started, EngineStates
  <2>6. Held(Head(q))'
    BY <1>12, <2>1 DEF Held
  <2>7. Held(Head(q)) /\ moved'[Head(q)] = moved[Head(q)] /\ Head(q) # Head(list)
    BY <1>3, <1>7, <1>12, <2>1, <2>6
  <2> QED
    BY <1>12, <2>1, <2>5, <2>7 DEF Moves
<1>14. ASSUME NEW u \in Xfers, Held(u)', q # << >> => u # Head(q)
       PROVE  moved'[u] = {}
  <2>1. u # t
    <3>1. SUFFICES ASSUME Held(t)' PROVE FALSE
      BY <1>14
    <3>2. /\ ~ Queued(t)'
          /\ pc'[t[1]] = "idle" \/ (pc'[t[1]] = pc[t[1]] /\ req'[t[1]] = req[t[1]])
      BY <1>3, <1>4, <1>5, <3>1 DEF Queued, NoXfer, Transfers
    <3>3. pc[t[1]] \in {"queue", "enqueue"} /\ t = Current(t[1])
      BY <3>1, <3>2 DEF Held, Current
    <3> QED
      BY <1>3, <3>3, Lemma_NotBuilt
  <2>2. Held(u) /\ moved'[u] = moved[u]
    BY <1>7, <1>14, <2>1
  <2> QED
    BY <1>3, <2>1, <2>2 DEF Moves
<1>15. Moves'
  BY <1>9, <1>11, <1>13, <1>14 DEF Moves
<1> QED
  BY <1>6, <1>15

\* No step of the bottom half changes what moved, or whose it is.
LEMMA Moves_Service ==
  ASSUME MovesInv, RingInv', Service
  PROVE  Rows' /\ Moves'
<1> USE DEF MovesInv, EngineInv, RingInv, TypeInv
<1>1. CASE ServiceStatus \/ ServiceCount
  <2>1. UNCHANGED <<pc, req, xfer, moved, list>>
    BY <1>1 DEF ServiceStatus, ServiceCount, callVars, listVars
  <2>2. hw'.count = hw.count
    BY <1>1 DEF ServiceStatus, ServiceCount, TypeOK, EngineStates
  <2>3. \A u \in Xfers : Held(u)' <=> Held(u)
    BY <2>1 DEF Held, Queued, Current
  <2>4. Moves'
    BY <2>1, <2>2, <2>3, Moves_Stay
  <2> QED
    BY <2>1, <2>4 DEF Rows, Lone, Row, Parts
<1>2. ~ ServiceTransferList /\ ~ ServiceNothing
  BY Lemma_ListEnds
<1>3. CASE ServiceFinal
  BY <1>3, Moves_Final
<1> QED
  BY <1>1, <1>2, <1>3 DEF Service

\* A call that is not the engine keeps the parts of its request in a row.
LEMMA Rows_Calls ==
  ASSUME Calm, MovesInv, NEW r \in Calls,
         \/ Submit(r) \/ TransferInit(r) \/ CheckOffline(r) \/ TransferQueue(r)
         \/ r \in Sync /\ (LockDesc(r) \/ SyncDone(r))
  PROVE  Rows'
<1> USE DEF MovesInv, EngineInv, RingInv, TypeInv
<1>1. ~ offline
  BY Lemma_Calm
<1>2. CASE Submit(r)
  <2>1. /\ xfer' = xfer /\ pc[r] = "idle" /\ req[r] = NoReq
        /\ \A q \in Calls \ {r} : pc'[q] = pc[q] /\ req'[q] = req[q]
        /\ pc'[r] \in {"lock", "init"}
    BY <1>1, <1>2 DEF Submit, Goto, TypeOK, RequestShape, Shape
  <2>2. req'[r].idx = req[r].idx /\ req'[r].tfer = req[r].tfer
    BY <1>1, <1>2 DEF Submit, TypeOK, Requests
  <2>3. Parts(r)' = Parts(r)
    BY <2>1, <2>2 DEF Parts
  <2> QED
    BY <2>1, <2>2, <2>3, Rows_Stay
<1>3. CASE CheckOffline(r) \/ (r \in Sync /\ LockDesc(r))
  <2>1. /\ xfer' = xfer /\ req' = req
        /\ \A q \in Calls \ {r} : pc'[q] = pc[q]
        /\ r \notin Sync => pc[r] = "queue" /\ pc'[r] = "enqueue"
    BY <1>1, <1>3 DEF CheckOffline, LockDesc, Goto, TypeOK
  <2>2. r \in Async => Parts(r)' = Parts(r)
    BY <2>1, CallsDisjoint DEF Parts
  <2> QED
    BY <2>1, <2>2, Rows_Stay
<1>4. CASE TransferQueue(r)
  <2>1. PICK t : t = Current(r)
    OBVIOUS
  <2>2. /\ t \in Xfers /\ xfer[t] \in Transfers
        /\ xfer' = [xfer EXCEPT ![t].state = "SUBMITTED"]
        /\ pc[r] = "enqueue" /\ \A q \in Calls \ {r} : pc'[q] = pc[q] /\ req'[q] = req[q]
    BY <1>4, <2>1, Lemma_Current DEF TransferQueue, Goto, TypeOK
  <2>3. \A u \in Xfers : xfer'[u].num = xfer[u].num /\ xfer'[u].off = xfer[u].off
    BY <2>2 DEF TypeOK, Transfers
  <2>4. ASSUME r \in Async
        PROVE  Parts(r)' = Parts(r) /\ req'[r].idx = req[r].idx
    <3>1. r \notin Sync /\ req[r] \in Requests /\ req[r].tfer \in Nat
      BY <2>4, CallsDisjoint, SizesPositive DEF TypeOK, Requests
    <3>2. CASE req[r].idx < req[r].cnt
      <4>1. pc'[r] = "init" /\ req'[r] = [req[r] EXCEPT !.tfer = @ + 1]
        BY <1>4, <2>4, <3>1, <3>2 DEF TransferQueue, Goto, TypeOK
      <4>2. req'[r].tfer = req[r].tfer + 1 /\ req'[r].idx = req[r].idx
        BY <3>1, <4>1 DEF Requests
      <4> QED
        BY <2>2, <3>1, <4>1, <4>2 DEF Parts
    <3>3. CASE ~ (req[r].idx < req[r].cnt)
      <4>1. pc'[r] = "flight" /\ req' = req
        BY <1>4, <2>4, <3>1, <3>3 DEF TransferQueue, Goto, TypeOK
      <4> QED
        BY <2>2, <4>1 DEF Parts
    <3> QED
      BY <3>2, <3>3
  <2> QED
    BY <2>2, <2>3, <2>4, Rows_Stay
<1>5. CASE r \in Sync /\ SyncDone(r)
  <2>1. r \notin Async
    BY <1>5, CallsDisjoint
  <2>2. CASE Goto(r, "init") /\ UNCHANGED <<req, xfer>>
    BY <2>1, <2>2, Rows_Stay DEF Goto, TypeOK
  <2>3. CASE Return(r, SyncResult(xfer[<<r, 0>>])) /\ FreeReq(r, xfer)
    <3>1. /\ pc'[r] = "idle" /\ req'[r] = NoReq
          /\ \A q \in Calls \ {r} : pc'[q] = pc[q] /\ req'[q] = req[q]
          /\ \A u \in Xfers : u[1] # r => xfer'[u] = xfer[u]
          /\ \A u \in Xfers : u[1] = r => xfer'[u] = NoXfer
      BY <2>3 DEF Return, FreeReq, TypeOK
    <3> QED
      BY <3>1, Rows_Freed
  <2> QED
    BY <1>5, <2>2, <2>3 DEF SyncDone
<1>6. CASE TransferInit(r)
  BY <1>6, Rows_TransferInit
<1> QED
  BY <1>2, <1>3, <1>4, <1>5, <1>6

\* Every step keeps the history.
LEMMA Lemma_MovesStep ==
  ASSUME Calm, Roomy, MovesInv, [Next]_vars
  PROVE  MovesInv'
<1>1. Undisturbed /\ ~ offline /\ ~ Closed /\ Timeouts = {} /\ ~ HotPlug
  BY Lemma_Calm DEF MovesInv, EngineInv, RingInv
<1>2. EngineInv' /\ RingInv'
  BY Lemma_EngineStep DEF MovesInv, EngineInv
<1>3. CASE \E r \in Calls : Step(r)
  <2>1. PICK r \in Calls : Step(r)
    BY <1>3
  <2>2. ~ QueueRefused(r)
    BY <1>1 DEF QueueRefused
  <2>3. Submit(r) \/ TransferInit(r) \/ CheckOffline(r) \/ TransferQueue(r)
    BY <2>1, <2>2 DEF Step, Queue
  <2>4. Rows'
    BY <2>3, Rows_Calls
  <2>5. Moves'
    BY <1>2, <2>3, Moves_Calls, Moves_TransferQueue
  <2> QED
    BY <1>2, <2>4, <2>5 DEF MovesInv
<1>4. CASE \E r \in Sync : SyncStep(r)
  <2>1. PICK r \in Sync : SyncStep(r)
    BY <1>4
  <2>2. r \in Calls /\ (LockDesc(r) \/ SyncDone(r))
    BY <1>1, <2>1 DEF SyncStep, SyncAbort, Calls
  <2>3. Rows' /\ Moves'
    BY <1>2, <2>2, Rows_Calls, Moves_Calls
  <2> QED
    BY <1>2, <2>3 DEF MovesInv
<1>5. CASE Hardware \/ ChannelIrq
  <2>1. UNCHANGED <<pc, req, xfer>>
    BY <1>5 DEF Hardware, HwStep, HwFault, HwHalt, ChannelIrq, callVars
  <2>2. Rows'
    BY <2>1 DEF MovesInv, Rows, Lone, Row, Parts
  <2> QED
    BY <1>2, <1>5, <2>2, Moves_Hardware DEF MovesInv
<1>6. CASE Service
  BY <1>2, <1>6, Moves_Service DEF MovesInv
<1>7. ~ Hotplug
  BY <1>1 DEF Hotplug, OfflineFlag, OfflineEngine, OfflineIrq, OnlineEngine, OnlineIrq,
     OnlineFlag, AdmStep
<1>8. CASE UNCHANGED vars
  BY <1>2, <1>8 DEF vars, callVars, listVars, MovesInv, Rows, Lone, Row, Parts, Moves, Held, Queued,
     Current, AllMoved
<1> QED
  BY <1>3, <1>4, <1>5, <1>6, <1>7, <1>8 DEF Next

\* At first nothing was moved.
LEMMA Lemma_MovesInit ==
  ASSUME Init
  PROVE  MovesInv
<1>1. \A t \in Xfers : xfer[t] = NoXfer /\ moved[t] = {} /\ pc[t[1]] = "idle"
  BY Lemma_Xfers DEF Init
<1>2. list = << >>
  BY DEF Init
<1>3. Moves
  BY <1>1, <1>2 DEF Moves, Held, Queued, NoXfer
<1>4. ASSUME NEW r \in Calls, NEW k \in 0 .. MaxDesc - 1
      PROVE  xfer[<<r, k>>].num = 0 /\ Parts(r) = 0 /\ ~ (k < 0)
  <2>1. xfer[<<r, k>>].num = 0
    BY <1>1, Lemma_Xfers DEF NoXfer
  <2>2. Parts(r) = 0
    BY DEF Parts, Init, NoReq
  <2> QED
    BY <2>1, <2>2, SizesPositive
<1>5. \A k \in 1 .. MaxDesc - 1 : k \in 0 .. MaxDesc - 1
  BY SizesPositive
<1>6. Rows
  BY <1>4, <1>5 DEF Rows, Lone, Row, Calls
<1> QED
  BY <1>3, <1>6, Lemma_EngineInit DEF MovesInv

\* What the engine moved is an invariant.
LEMMA Lemma_Moves ==
  ASSUME Calm, Roomy
  PROVE  Spec => []MovesInv
<1>1. MovesInv /\ [Next]_vars => MovesInv'
  BY Lemma_MovesStep
<1>2. Init => MovesInv
  BY Lemma_MovesInit
<1> QED
  BY <1>1, <1>2, PTL DEF Spec

\* A call returns after its wait, or from the callback of its last transfer.
LEMMA Lemma_Returns ==
  ASSUME Calm, MovesInv, [Next]_vars, NEW r \in Calls, Returns(r)
  PROVE  \/ ServiceFinal
         \/ r \in Sync /\ SyncDone(r) /\ ret'[r] = SyncResult(xfer[<<r, 0>>])
<1> USE DEF MovesInv, EngineInv, RingInv, TypeInv
<1>1. ~ offline /\ ~ Closed /\ Timeouts = {} /\ ~ HotPlug
  BY Lemma_Calm
<1>2. pc[r] # "idle" /\ pc'[r] = "idle" /\ pc \in [Calls -> Places]
  BY DEF Returns, TypeOK
<1>3. ASSUME NEW q \in Calls, Step(q) PROVE FALSE
  BY <1>1, <1>2, <1>3 DEF Step, Queue, Submit, TransferInit, CheckOffline, QueueRefused,
     TransferQueue, Goto, Return
<1>4. ASSUME NEW q \in Sync, SyncStep(q)
      PROVE  r \in Sync /\ SyncDone(r) /\ ret'[r] = SyncResult(xfer[<<r, 0>>])
  <2>1. ~ LockDesc(q) /\ ~ SyncAbort(q) /\ q \in Calls
    BY <1>1, <1>2 DEF LockDesc, SyncAbort, Goto, Calls
  <2>2. SyncDone(q) /\ q = r
    BY <1>2, <1>4, <2>1 DEF SyncStep, SyncDone, Goto, Return
  <2> QED
    BY <1>2, <2>2 DEF SyncDone, Goto, Return, TypeOK
<1>5. ~ Hardware /\ ~ ChannelIrq /\ ~ ServiceStatus /\ ~ ServiceCount
  BY <1>2 DEF Hardware, HwStep, HwFault, HwHalt, ChannelIrq, ServiceStatus, ServiceCount,
     callVars
<1>6. Service => ServiceFinal
  BY <1>5, Lemma_ListEnds DEF Service
<1>7. ~ Hotplug
  BY <1>1 DEF Hotplug, OfflineFlag, OfflineEngine, OfflineIrq, OnlineEngine, OnlineIrq,
     OnlineFlag, AdmStep
<1>8. ~ UNCHANGED vars
  BY <1>2 DEF vars, callVars
<1> QED
  BY <1>3, <1>4, <1>5, <1>6, <1>7, <1>8 DEF Next

\* io_done reads the row of a request that is in flight.
LEMMA Lemma_Row ==
  ASSUME MovesInv, NEW a \in Async, pc[a] = "flight"
  PROVE  \E m \in 0 .. MaxDesc - 1 :
           /\ m = req[a].tfer
           /\ \A k \in 0 .. MaxDesc - 1 :
                LET x == xfer[<<a, k>>] IN
                /\ <<a, k>> \in Xfers /\ x.num \in Nat /\ x.off \in Nat
                /\ x.num > 0 <=> k <= m
                /\ k <= m => \A j \in 0 .. k - 1 :
                     xfer[<<a, j>>].off + xfer[<<a, j>>].num <= x.off
<1> USE DEF MovesInv, EngineInv, RingInv, TypeInv
<1>1. a \in Calls /\ req[a] \in Requests
  BY DEF Calls, TypeOK
<1>2. PICK m \in 0 .. MaxDesc - 1 : m = req[a].tfer
  BY <1>1 DEF Requests
<1>3. Parts(a) = m + 1 /\ m \in Nat
  BY <1>2, SizesPositive DEF Parts
<1>4. ASSUME NEW k \in 0 .. MaxDesc - 1
      PROVE  LET x == xfer[<<a, k>>] IN
             /\ <<a, k>> \in Xfers /\ x.num \in Nat /\ x.off \in Nat
             /\ x.num > 0 <=> k <= m
             /\ k <= m => \A j \in 0 .. k - 1 :
                  xfer[<<a, j>>].off + xfer[<<a, j>>].num <= x.off
  <2>1. <<a, k>> \in Xfers /\ k \in Nat
    BY <1>1, Lemma_Xfers, SizesPositive
  <2>2. xfer[<<a, k>>] \in Transfers
    BY <2>1 DEF TypeOK
  <2>3. xfer[<<a, k>>].num \in Nat /\ xfer[<<a, k>>].off \in Nat
    BY <2>2, SizesPositive DEF Transfers
  <2>4. Row(a, k) /\ (k < m + 1 <=> k <= m) /\ (k >= m + 1 <=> ~ (k <= m))
    BY <1>3, <2>1 DEF Rows
  <2>5. CASE k <= m
    BY <1>3, <2>1, <2>3, <2>4, <2>5 DEF Row
  <2>6. CASE ~ (k <= m)
    <3>1. xfer[<<a, k>>].num = 0
      BY <1>3, <2>4, <2>6 DEF Row
    <3> QED
      BY <2>1, <2>3, <2>6, <3>1
  <2> QED
    BY <2>5, <2>6
<1> QED
  BY <1>2, <1>4

\* What io_done returns covers parts that are complete.
LEMMA Lemma_Result ==
  ASSUME MovesInv, NEW a \in Async, pc[a] = "flight", NEW y, IoDone(a, y),
         \A u \in Xfers : y[u].off = xfer[u].off,
         \A u \in Xfers : y[u].state = "COMPLETED" => AllMoved(u),
         NEW k \in 0 .. MaxDesc - 1,
         xfer[<<a, k>>].num > 0, xfer[<<a, k>>].off + xfer[<<a, k>>].num <= ret'[a]
  PROVE  AllMoved(<<a, k>>)
<1>1. PICK m \in 0 .. MaxDesc - 1 :
        /\ m = req[a].tfer
        /\ \A i \in 0 .. MaxDesc - 1 :
             LET x == xfer[<<a, i>>] IN
             /\ <<a, i>> \in Xfers /\ x.num \in Nat /\ x.off \in Nat
             /\ x.num > 0 <=> i <= m
             /\ i <= m => \A j \in 0 .. i - 1 :
                  xfer[<<a, j>>].off + xfer[<<a, j>>].num <= x.off
  BY Lemma_Row
<1>2. /\ k \in 0 .. m /\ MaxDesc \in Nat \ {0} /\ m \in Nat /\ <<a, k>> \in Xfers
      /\ xfer[<<a, k>>].num \in Nat /\ xfer[<<a, k>>].off \in Nat
  BY <1>1, SizesPositive
<1>3. a \in Calls /\ ret \in [Calls -> Int]
  BY DEF Calls, MovesInv, EngineInv, RingInv, TypeInv, TypeOK
<1>4. CASE \A i \in 0 .. m : y[<<a, i>>].state = "COMPLETED"
  BY <1>2, <1>4
<1>5. ASSUME NEW bad \in 0 .. m, \A i \in 0 .. bad - 1 : y[<<a, i>>].state = "COMPLETED",
             Return(a, y[<<a, bad>>].off)
      PROVE  AllMoved(<<a, k>>)
  <2>1. bad \in 0 .. MaxDesc - 1 /\ bad \in Nat
    BY <1>1, <1>2
  <2>2. ret'[a] = xfer[<<a, bad>>].off /\ xfer[<<a, bad>>].off \in Nat /\ xfer[<<a, bad>>].num \in Nat
    BY <1>1, <1>3, <1>5, <2>1 DEF Return
  <2>3. k # bad
    BY <1>2, <2>2
  <2>4. ~ (bad < k)
    <3>1. SUFFICES ASSUME bad \in 0 .. k - 1 PROVE FALSE
      BY <1>2, <2>1
    <3>2. xfer[<<a, bad>>].off + xfer[<<a, bad>>].num <= xfer[<<a, k>>].off
      BY <1>1, <1>2, <3>1
    <3> QED
      BY <1>2, <2>2, <3>2
  <2>5. k \in 0 .. bad - 1
    BY <1>2, <2>1, <2>3, <2>4
  <2> QED
    BY <1>2, <1>5, <2>5
<1> QED
  BY <1>1, <1>4, <1>5 DEF IoDone

\* The state a transfer is finished in counts as far as it goes.
LEMMA Lemma_FinalResult ==
  ASSUME MovesInv, ServiceFinal, NEW r \in Calls, Returns(r)
  PROVE  /\ r \in Async /\ pc[r] = "flight" /\ ~ hw.busy
         /\ \E t \in Xfers : \E state \in {"COMPLETED", "FAILED"} : \E y :
              /\ t = Head(list) /\ t[1] = r /\ Queued(t) /\ LastInRequest(t)
              /\ IoDone(r, y)
              /\ \A u \in Xfers : y[u].off = xfer[u].off
              /\ \A u \in Xfers : y[u].state = "COMPLETED" => AllMoved(u)
              /\ y[t].state = state
              /\ state = "FAILED" => moved[t] # {} /\ ~ AllMoved(t)
<1> USE DEF MovesInv, EngineInv, RingInv, TypeInv
<1>1. /\ list # << >> /\ ~ hw.busy
      /\ \E state \in {"COMPLETED", "FAILED"} :
           /\ Finish(Head(list), state)
           /\ state = "COMPLETED" => AllMoved(Head(list))
           /\ state = "FAILED" => moved[Head(list)] # {} /\ ~ AllMoved(Head(list))
  BY Lemma_Final
<1>2. PICK t : t = Head(list)
  OBVIOUS
<1>3. PICK state \in {"COMPLETED", "FAILED"} :
        /\ Finish(t, state)
        /\ state = "COMPLETED" => AllMoved(t)
        /\ state = "FAILED" => moved[t] # {} /\ ~ AllMoved(t)
  BY <1>1, <1>2
<1>4. t \in Xfers /\ Queued(t) /\ t[1] \in Calls /\ xfer[t] \in Transfers
  BY <1>1, <1>2, Lemma_HeadChain, Lemma_Xfers DEF TypeOK
<1>5. PICK y : y = [xfer EXCEPT ![t].state = state]
  OBVIOUS
<1>6. LastInRequest(t) /\ IoDone(t[1], y)
  <2>1. pc' # pc
    BY DEF Returns
  <2> QED
    BY <1>3, <1>5, <2>1 DEF Finish, callVars
<1>7. t[1] = r
  BY <1>4, <1>6 DEF Returns, IoDone, Return, TypeOK
<1>8. r \in Async /\ pc[r] = "flight"
  <2>1. r \in Async /\ Laid(r)
    BY <1>6, <1>7 DEF LastInRequest, Window
  <2>2. Flying(r)
    BY <1>4, <1>6, <1>7, <2>1, Lemma_Last DEF Laid
  <2> QED
    BY <2>1, <2>2 DEF Flying
<1>9. y[t].state = state /\ \A u \in Xfers : y[u].off = xfer[u].off
  BY <1>4, <1>5 DEF TypeOK, Transfers
<1>10. \A u \in Xfers : y[u].state = "COMPLETED" => AllMoved(u)
  <2>1. ASSUME NEW u \in Xfers, y[u].state = "COMPLETED" PROVE AllMoved(u)
    <3>1. CASE u = t
      BY <1>3, <1>9, <2>1, <3>1
    <3>2. CASE u # t
      BY <1>4, <1>5, <2>1, <3>2 DEF Moves, TypeOK
    <3> QED
      BY <3>1, <3>2
  <2> QED
    BY <2>1
<1> QED
  BY <1>1, <1>2, <1>3, <1>4, <1>6, <1>7, <1>8, <1>9, <1>10

\* Only one part of a request is on the list when its last part is the head.
LEMMA Lemma_LastAlone ==
  ASSUME MovesInv, NEW t \in Xfers, t = Head(list), list # << >>, LastInRequest(t),
         pc[t[1]] = "flight", NEW u \in Xfers, Queued(u), u[1] = t[1]
  PROVE  u = t
<1> USE DEF MovesInv, EngineInv, RingInv, TypeInv
<1>1. SUFFICES ASSUME u # t PROVE FALSE
  OBVIOUS
<1>2. PICK a, k : a = u[1] /\ k = u[2]
  OBVIOUS
<1>3. /\ a \in Async /\ a \in Calls /\ k \in 0 .. MaxDesc - 1 /\ u = <<a, k>>
      /\ xfer[t].off + xfer[t].num = req[a].cnt /\ pc[a] = "flight"
  BY <1>2, Lemma_Xfers DEF LastInRequest
<1>4. /\ req[a].idx <= req[a].cnt /\ req[a].idx \in Nat /\ req[a].cnt \in Nat
      /\ xfer[u].num \in Nat /\ xfer[u].off \in Nat
  <2>1. req[a] \in Requests /\ xfer[u] \in Transfers /\ Shape(pc[a], req[a])
    BY <1>3 DEF TypeOK, RequestShape
  <2> QED
    BY <1>3, <2>1, SizesPositive DEF Requests, Transfers, Shape
<1>5. xfer[u].num > 0 /\ xfer[u].off + xfer[u].num <= req[a].idx
  BY <1>3 DEF Sound, Parted
<1>6. Precedes(t, u)
  <2>1. list \in Seq(Xfers) /\ InOrder /\ u \in Range(list)
    BY DEF TypeOK, Sound, QueueWellFormed
  <2>2. PICK j \in 1 .. Len(list) : list[j] = u
    BY <2>1 DEF Range
  <2>3. 1 \in 1 .. Len(list) /\ list[1] = t /\ 1 < j
    BY <1>1, <2>1, <2>2
  <2> QED
    BY <2>1, <2>2, <2>3 DEF InOrder
<1>7. xfer[t].off + xfer[t].num <= xfer[u].off
  BY <1>2, <1>3, <1>6 DEF Precedes
<1> QED
  BY <1>3, <1>4, <1>5, <1>7

\* A step that returns from a call returns what the hardware has moved.
LEMMA Lemma_ReturnsMoved ==
  ASSUME Calm, MovesInv, [Next]_vars, NEW r \in Calls, Returns(r),
         NEW t \in Xfers, t[1] = r, xfer[t].num > 0,
         xfer[t].off + xfer[t].num <= ret'[r]
  PROVE  AllMoved(t)
<1> USE DEF MovesInv, EngineInv, RingInv, TypeInv
<1>1. PICK k \in 0 .. MaxDesc - 1 : t = <<r, k>>
  BY Lemma_Xfers
<1>2. xfer[t].num \in Nat /\ xfer[t].off \in Nat /\ MaxDesc \in Nat
  BY SizesPositive DEF TypeOK, Transfers
<1>3. CASE ServiceFinal
  <2>1. r \in Async /\ pc[r] = "flight"
    BY <1>3, Lemma_FinalResult
  <2>2. PICK y : /\ IoDone(r, y)
                 /\ \A u \in Xfers : y[u].off = xfer[u].off
                 /\ \A u \in Xfers : y[u].state = "COMPLETED" => AllMoved(u)
    BY <1>3, Lemma_FinalResult
  <2> QED
    BY <1>1, <2>1, <2>2, Lemma_Result
<1>4. CASE r \in Sync /\ ret'[r] = SyncResult(xfer[<<r, 0>>])
  <2>1. k = 0
    <3>1. k # 0 => k \in 1 .. MaxDesc - 1
      BY <1>2
    <3> QED
      BY <1>1, <1>4, <3>1 DEF Rows, Lone
  <2>2. xfer[t].state = "COMPLETED"
    <3>1. SUFFICES ASSUME xfer[t].state # "COMPLETED" PROVE FALSE
      OBVIOUS
    <3>2. ret'[r] = DoneOr(xfer[t].off, EIO)
      BY <1>1, <1>4, <2>1, <3>1 DEF SyncResult
    <3> QED
      BY <1>2, <3>2 DEF DoneOr, EIO
  <2> QED
    BY <2>2 DEF Moves
<1> QED
  BY <1>3, <1>4, Lemma_Returns

\* What a call returns has been moved for it, descriptor by descriptor, where
\* nothing is aborted: a count read from the engine is never taken for the
\* data of another request, and a part of a request that failed or was never
\* reached is not in its result.
THEOREM ReturnsMoved ==
  ASSUME Calm, Roomy
  PROVE  Spec => ReturnsWhatMoved
<1>1. MovesInv /\ [Next]_vars =>
        [\A r \in Calls : Returns(r) => \A t \in Xfers :
           (/\ t[1] = r /\ xfer[t].num > 0
            /\ xfer[t].off + xfer[t].num <= ret'[r]) => AllMoved(t)]_vars
  BY Lemma_ReturnsMoved
<1> QED
  BY <1>1, Lemma_Moves, PTL DEF Spec, ReturnsWhatMoved

\* A transfer that fails is the head, in the last part of the service.
LEMMA Lemma_FailsNow ==
  ASSUME Calm, MovesInv, [Next]_vars, NEW t \in Xfers, FailsNow(t)
  PROVE  ServiceFinal
<1> USE DEF MovesInv, EngineInv, RingInv, TypeInv
<1>1. ~ offline /\ ~ Closed /\ Timeouts = {} /\ ~ HotPlug
  BY Lemma_Calm
<1>2. CASE t[1] \in Async /\ Returns(t[1])
  <2>1. t[1] \in Calls /\ t[1] \notin Sync
    BY <1>2, CallsDisjoint DEF Calls
  <2> QED
    BY <1>2, <2>1, Lemma_Returns
<1>3. CASE xfer'[t].state = "FAILED"
  <2>1. xfer[t].state = "SUBMITTED" /\ xfer \in [Xfers -> Transfers]
    BY DEF FailsNow, Queued, TypeOK
  <2>2. xfer' # xfer
    BY <1>3, <2>1
  <2>3. ASSUME NEW q \in Calls, Step(q) PROVE FALSE
    <3>1. TransferInit(q) \/ TransferQueue(q)
      BY <1>1, <2>2, <2>3 DEF Step, Queue, Submit, CheckOffline, QueueRefused
    <3>2. Current(q) \in Xfers
      BY Lemma_Current
    <3>3. CASE TransferInit(q)
      <4>1. PICK x : x = [state |-> "NEW", first |-> desc_idx,
                          num |-> InitCount(req[q].cnt - req[q].idx), off |-> req[q].idx]
        OBVIOUS
      <4>2. xfer' = [xfer EXCEPT ![Current(q)] = x] /\ x.state = "NEW"
        BY <3>3, <4>1 DEF TransferInit
      <4> QED
        BY <1>3, <2>1, <3>2, <4>2
    <3>4. CASE TransferQueue(q)
      BY <1>3, <2>1, <3>2, <3>4 DEF TransferQueue, Transfers
    <3> QED
      BY <3>1, <3>3, <3>4
  <2>4. ASSUME NEW q \in Sync, SyncStep(q) PROVE FALSE
    <3>1. SyncDone(q)
      BY <1>1, <2>2, <2>4 DEF SyncStep, LockDesc, SyncAbort
    <3>2. FreeReq(q, xfer)
      BY <2>2, <3>1 DEF SyncDone
    <3>3. xfer'[t] = xfer[t] \/ xfer'[t] = NoXfer
      BY <3>2 DEF FreeReq
    <3> QED
      BY <1>3, <2>1, <3>3 DEF NoXfer
  <2>5. ~ Hardware /\ ~ ChannelIrq /\ ~ ServiceStatus /\ ~ ServiceCount
    BY <2>2 DEF Hardware, HwStep, HwFault, HwHalt, ChannelIrq, ServiceStatus, ServiceCount
  <2>6. Service => ServiceFinal
    BY <2>5, Lemma_ListEnds DEF Service
  <2>7. ~ Hotplug
    BY <1>1 DEF Hotplug, OfflineFlag, OfflineEngine, OfflineIrq, OnlineEngine, OnlineIrq,
       OnlineFlag, AdmStep
  <2>8. ~ UNCHANGED vars
    BY <2>2 DEF vars
  <2> QED
    BY <2>3, <2>4, <2>5, <2>6, <2>7, <2>8 DEF Next
<1> QED
  BY <1>2, <1>3 DEF FailsNow

\* The failing result of a request is the offset of its last part.
LEMMA Lemma_FailingPart ==
  ASSUME MovesInv, NEW a \in Async, pc[a] = "flight", NEW t \in Xfers, t[1] = a,
         LastInRequest(t), xfer[t].num > 0, NEW y, IoDone(a, y),
         \A u \in Xfers : y[u].off = xfer[u].off, ret'[a] = xfer[t].off
  PROVE  y[t].state # "COMPLETED"
<1>1. PICK m \in 0 .. MaxDesc - 1 :
        /\ m = req[a].tfer
        /\ \A i \in 0 .. MaxDesc - 1 :
             LET x == xfer[<<a, i>>] IN
             /\ <<a, i>> \in Xfers /\ x.num \in Nat /\ x.off \in Nat
             /\ x.num > 0 <=> i <= m
             /\ i <= m => \A j \in 0 .. i - 1 :
                  xfer[<<a, j>>].off + xfer[<<a, j>>].num <= x.off
  BY Lemma_Row
<1>2. PICK k \in 0 .. MaxDesc - 1 : t = <<a, k>>
  BY Lemma_Xfers
<1>3. /\ k \in 0 .. m /\ MaxDesc \in Nat \ {0} /\ m \in Nat
      /\ xfer[t].num \in Nat /\ xfer[t].off \in Nat
  BY <1>1, <1>2, SizesPositive
<1>4. a \in Calls /\ ret \in [Calls -> Int] /\ req[a].cnt = xfer[t].off + xfer[t].num
  BY DEF Calls, MovesInv, EngineInv, RingInv, TypeInv, TypeOK, LastInRequest
<1>5. ~ Return(a, req[a].cnt)
  <2>1. Return(a, req[a].cnt) => ret'[a] = xfer[t].off + xfer[t].num
    BY <1>4 DEF Return
  <2> QED
    BY <1>3, <2>1
<1>6. PICK bad \in 0 .. m : /\ y[<<a, bad>>].state # "COMPLETED"
                            /\ Return(a, y[<<a, bad>>].off)
  BY <1>1, <1>5 DEF IoDone
<1>7. bad \in 0 .. MaxDesc - 1 /\ bad \in Nat /\ bad <= m /\ k <= m
  BY <1>1, <1>3
<1>8. /\ xfer[<<a, bad>>].off = xfer[t].off /\ xfer[<<a, bad>>].num \in Nat
      /\ xfer[<<a, bad>>].num > 0
  BY <1>1, <1>4, <1>6, <1>7 DEF Return
<1>9. ~ (bad < k)
  <2>1. SUFFICES ASSUME bad \in 0 .. k - 1 PROVE FALSE
    BY <1>3, <1>7
  <2>2. xfer[<<a, bad>>].off + xfer[<<a, bad>>].num <= xfer[t].off
    BY <1>1, <1>2, <1>7, <2>1
  <2> QED
    BY <1>3, <1>8, <2>2
<1>10. ~ (k < bad)
  <2>1. SUFFICES ASSUME k \in 0 .. bad - 1 PROVE FALSE
    BY <1>3, <1>7
  <2>2. xfer[t].off + xfer[t].num <= xfer[<<a, bad>>].off
    BY <1>1, <1>2, <1>7, <2>1
  <2> QED
    BY <1>3, <1>8, <2>2
<1>11. bad = k
  BY <1>3, <1>7, <1>9, <1>10
<1> QED
  BY <1>2, <1>6, <1>11

\* What a step fails has begun and stopped before its end.
LEMMA Lemma_FailsStopped ==
  ASSUME Calm, MovesInv, [Next]_vars, NEW t \in Xfers, FailsNow(t)
  PROVE  ~ hw.busy /\ moved[t] # {} /\ ~ AllMoved(t)
<1> USE DEF MovesInv, EngineInv, RingInv, TypeInv
<1>1. ServiceFinal
  BY Lemma_FailsNow
<1>2. CASE t[1] \in Async /\ Returns(t[1]) /\ ret'[t[1]] = xfer[t].off
  <2>1. PICK r : r = t[1]
    OBVIOUS
  <2>2. r \in Calls /\ Returns(r) /\ r \in Async
    BY <1>2, <2>1 DEF Calls
  <2>3. pc[r] = "flight" /\ ~ hw.busy
    BY <1>1, <2>2, Lemma_FinalResult
  <2>4. PICK h \in Xfers, state \in {"COMPLETED", "FAILED"} : \E y :
          /\ h = Head(list) /\ h[1] = r /\ Queued(h) /\ LastInRequest(h)
          /\ IoDone(r, y)
          /\ \A u \in Xfers : y[u].off = xfer[u].off
          /\ y[h].state = state
          /\ state = "FAILED" => moved[h] # {} /\ ~ AllMoved(h)
    BY <1>1, <2>2, Lemma_FinalResult
  <2>5. list # << >>
    BY <1>1 DEF ServiceFinal
  <2>6. t = h
    BY <2>1, <2>3, <2>4, <2>5, Lemma_LastAlone DEF FailsNow
  <2>7. xfer[t].num > 0
    BY <2>4, <2>5, <2>6, Lemma_HeadChain DEF HeadXfer
  <2>8. state # "COMPLETED"
    BY <1>2, <2>1, <2>2, <2>3, <2>4, <2>6, <2>7, Lemma_FailingPart
  <2> QED
    BY <2>3, <2>4, <2>6, <2>8
<1>3. CASE xfer'[t].state = "FAILED"
  <2>1. /\ list # << >> /\ ~ hw.busy
        /\ \E state \in {"COMPLETED", "FAILED"} :
             /\ Finish(Head(list), state)
             /\ state = "FAILED" => moved[Head(list)] # {} /\ ~ AllMoved(Head(list))
    BY <1>1, Lemma_Final
  <2>2. PICK h : h = Head(list)
    OBVIOUS
  <2>3. PICK state \in {"COMPLETED", "FAILED"} :
          Finish(h, state) /\ (state = "FAILED" => moved[h] # {} /\ ~ AllMoved(h))
    BY <2>1, <2>2
  <2>4. h \in Xfers
    BY <2>1, <2>2, Lemma_HeadChain
  <2>5. ~ LastInRequest(h)
    <3>1. SUFFICES ASSUME LastInRequest(h) PROVE FALSE
      OBVIOUS
    <3>2. PICK y : IoDone(h[1], y) /\ y = [xfer EXCEPT ![h].state = state]
      BY <2>3, <3>1 DEF Finish
    <3>3. xfer'[t] = NoXfer \/ (t[1] # h[1] /\ xfer'[t] = y[t])
      BY <3>2 DEF IoDone, FreeReq
    <3>4. t # h => y[t] = xfer[t]
      BY <2>4, <3>2 DEF TypeOK
    <3> QED
      BY <1>3, <3>3, <3>4 DEF NoXfer, FailsNow, Queued
  <2>6. xfer' = [xfer EXCEPT ![h].state = state]
    BY <2>3, <2>5 DEF Finish
  <2>7. t = h /\ state = "FAILED"
    BY <1>3, <2>4, <2>6 DEF TypeOK, Transfers, FailsNow, Queued
  <2> QED
    BY <2>1, <2>3, <2>7
<1> QED
  BY <1>2, <1>3 DEF FailsNow

\* A transfer is failed only when the hardware has begun it and stopped before
\* its end, where nothing is aborted: never on a status or a count that is
\* about another transfer, nor on one that was read too early.
THEOREM FailsStopped ==
  ASSUME Calm, Roomy
  PROVE  Spec => FailsOnlyIfStopped
<1>1. MovesInv /\ [Next]_vars =>
        [\A t \in Xfers : FailsNow(t) =>
           ~ hw.busy /\ moved[t] # {} /\ ~ AllMoved(t)]_vars
  BY Lemma_FailsStopped
<1> QED
  BY <1>1, Lemma_Moves, PTL DEF Spec, FailsOnlyIfStopped
=============================================================================
