----------------------------- MODULE StagedFifo -----------------------------
(***************************************************************************)
(* What a dataflow buffer promises, without slots, indices or threads: a   *)
(* bounded FIFO fed through a staging area.  A producer stages tiles,      *)
(* fills them in any order, and publishes them from the front of the       *)
(* staging area; a consumer removes tiles from the front of the queue.     *)
(***************************************************************************)
EXTENDS Integers, Sequences

CONSTANTS Cap,    \* tiles the queue and the staging area may hold together
          Elems   \* what a tile may hold

VARIABLES queue, staged

vars == <<queue, staged>>

Init == queue = <<>> /\ staged = <<>>

\* Staging keeps the tiles already staged; the new ones hold anything.
Stage ==
  /\ UNCHANGED queue
  /\ staged' \in Seq(Elems)
  /\ Len(staged) <= Len(staged')
  /\ Len(queue) + Len(staged') <= Cap
  /\ \A i \in 1 .. Len(staged) : staged'[i] = staged[i]

Fill ==
  /\ UNCHANGED queue
  /\ \E i \in 1 .. Len(staged), v \in Elems : staged' = [staged EXCEPT ![i] = v]

Publish ==
  \E n \in 1 .. Len(staged) :
     /\ queue'  = queue \o SubSeq(staged, 1, n)
     /\ staged' = SubSeq(staged, n + 1, Len(staged))

Consume ==
  /\ UNCHANGED staged
  /\ \E n \in 1 .. Len(queue) : queue' = SubSeq(queue, n + 1, Len(queue))

Clear == queue' = <<>> /\ staged' = <<>>

Next == Stage \/ Fill \/ Publish \/ Consume \/ Clear

Spec == Init /\ [][Next]_vars
=============================================================================
