---------------------------- MODULE TransferFifo ----------------------------
(***************************************************************************)
(* What a DMA engine of libxdma promises to those who queue transfers on   *)
(* it: each queued transfer is finished (completed or failed) exactly      *)
(* once, in the order of queueing, and none waits forever.                 *)
(***************************************************************************)
EXTENDS Sequences, Functions

CONSTANT Xfers

VARIABLE queue

Init == queue = << >>

\* A transfer that is not queued joins the end.
Enqueue(t) == t \notin Range(queue) /\ queue' = Append(queue, t)

\* The oldest transfer is finished.
Finish == queue # << >> /\ queue' = Tail(queue)

Next == Finish \/ \E t \in Xfers : Enqueue(t)

Spec == Init /\ [][Next]_queue /\ WF_queue(Finish)
=============================================================================
