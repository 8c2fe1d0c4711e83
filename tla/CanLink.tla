------------------------------ MODULE CanLink ------------------------------
(***************************************************************************)
(* What a CAN port promises the drivers above it (can_interface.hpp): a    *)
(* bounded link that transmits the frames it accepted in the order it      *)
(* accepted them, each at most once, and that may forget frames only by    *)
(* being closed.  AsyncCan is shown to implement it.                       *)
(*                                                                         *)
(* A frame is the number of its acceptance, so order and duplication can   *)
(* be read off the numbers.                                                *)
(***************************************************************************)
EXTENDS Integers, Sequences

CONSTANT Capacity   \* most frames accepted and not yet transmitted

VARIABLES
  open,       \* the port is open
  backlog,    \* frames accepted and not yet transmitted, oldest first
  accepted,   \* how many frames were ever accepted
  wire        \* frames transmitted, in order

linkVars == <<open, backlog, accepted, wire>>

LinkTypeOK ==
  /\ open \in BOOLEAN
  /\ backlog \in Seq(Nat)
  /\ accepted \in Nat
  /\ wire \in Seq(Nat)

LinkInit ==
  /\ open = FALSE
  /\ backlog = <<>>
  /\ accepted = 0
  /\ wire = <<>>

Connect ==
  /\ ~open
  /\ open' = TRUE
  /\ UNCHANGED <<backlog, accepted, wire>>

\* kOk from SendFrame.  A sender that saw the port open may be accepted just
\* after it closed; such a frame stays in the backlog until it is discarded.
Accept ==
  /\ Len(backlog) < Capacity
  /\ accepted' = accepted + 1
  /\ backlog' = Append(backlog, accepted')
  /\ UNCHANGED <<open, wire>>

Transmit ==
  /\ open
  /\ backlog # <<>>
  /\ wire' = Append(wire, Head(backlog))
  /\ backlog' = Tail(backlog)
  /\ UNCHANGED <<open, accepted>>

\* The port closes, on purpose or by a fault; a frame in flight is lost at once.
Hangup ==
  /\ open
  /\ open' = FALSE
  /\ backlog' = backlog \/ (backlog # <<>> /\ backlog' = Tail(backlog))
  /\ UNCHANGED <<accepted, wire>>

\* Only a closed port forgets frames.
Discard ==
  /\ ~open
  /\ backlog # <<>>
  /\ backlog' = <<>> \/ backlog' = Tail(backlog)
  /\ UNCHANGED <<open, accepted, wire>>

LinkNext == Connect \/ Accept \/ Transmit \/ Hangup \/ Discard

LinkSpec == LinkInit /\ [][LinkNext]_linkVars

\* Strictly increasing: in order and without a duplicate.
Increasing(s) == \A i, j \in 1..Len(s) : i < j => s[i] < s[j]

\* Frames leave in the order in which SendFrame accepted them, none twice.
WireInOrder == Increasing(wire)

\* SendFrame answers kQueueFull rather than let the backlog grow.
BacklogBounded == Len(backlog) <= Capacity
=============================================================================
