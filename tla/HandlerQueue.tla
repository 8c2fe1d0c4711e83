---------------------------- MODULE HandlerQueue ----------------------------
(* Counting the handlers of some kinds that wait in an io_context's queue.   *)
EXTENDS Integers, Sequences

NoneOf(q, kinds) == \A i \in 1..Len(q) : q[i] \notin kinds

OneOf(q, kinds) ==
  \E i \in 1..Len(q) : /\ q[i] \in kinds
                       /\ \A j \in 1..Len(q) : q[j] \in kinds => j = i
=============================================================================
