------------------------------ MODULE BytePipe ------------------------------
(***************************************************************************)
(* What a serial port promises the drivers above it (serial_interface.hpp),*)
(* as far as its code keeps it: bytes leave in the order SendBytes accepted*)
(* them and none twice.  Unlike CanLink it may lose bytes while it is open *)
(* (a short write drops the rest of its buffer).  AsyncSerial is shown to  *)
(* implement it.                                                           *)
(***************************************************************************)
EXTENDS Integers, Sequences

CONSTANT Capacity   \* most bytes accepted and waiting

VARIABLES
  backlog,    \* bytes accepted and not yet handed to the kernel, oldest first
  accepted,   \* how many bytes were ever accepted
  wire        \* bytes written to the device, in order

pipeVars == <<backlog, accepted, wire>>

PipeInit ==
  /\ backlog = <<>>
  /\ accepted = 0
  /\ wire = <<>>

\* All of a message is accepted, or none of it.
Accept(n) ==
  /\ Len(backlog) + n <= Capacity
  /\ backlog' = backlog \o [i \in 1..n |-> accepted + i]
  /\ accepted' = accepted + n
  /\ UNCHANGED wire

\* Some bytes at the front leave; of those only the first reach the device.
Emit ==
  \E m \in 1..Len(backlog) : \E n \in 0..m :
    /\ wire' = wire \o SubSeq(backlog, 1, n)
    /\ backlog' = SubSeq(backlog, m + 1, Len(backlog))
    /\ UNCHANGED accepted

PipeNext == (\E n \in 1..Capacity : Accept(n)) \/ Emit

PipeSpec == PipeInit /\ [][PipeNext]_pipeVars
=============================================================================
