---------------------------- MODULE BoundedFifo ----------------------------
(* What a block_queue promises its users: the elements come out in the     *)
(* order they were put in, each to one consumer, and at most MaxSize wait. *)
EXTENDS Naturals, Sequences

CONSTANTS Items, MaxSize, Consumers
VARIABLES queue, received   (* consumer -> the element it got last         *)

Put(x) ==
  /\ Len(queue) < MaxSize
  /\ queue' = Append(queue, x)
  /\ UNCHANGED received

Get(t) ==
  /\ queue # <<>>
  /\ received' = [received EXCEPT ![t] = Head(queue)]
  /\ queue' = Tail(queue)

Empty == queue' = <<>> /\ UNCHANGED received

Init == queue = <<>>
Next == (\E x \in Items : Put(x)) \/ (\E t \in Consumers : Get(t)) \/ Empty
Spec == Init /\ [][Next]_<<queue, received>>
=============================================================================
