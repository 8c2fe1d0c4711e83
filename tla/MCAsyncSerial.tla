--------------------------- MODULE MCAsyncSerial ---------------------------
\* A small serial port, and a small ring of the kind it sends from, for TLC: a
\* behaviour is one of the port (the ring rests) or one of the ring.
EXTENDS AsyncSerial, RingBuffer

VARIABLE which

MCInit ==
  /\ Init
  /\ \/ which = "port" /\ ring = [buffer |-> CHOOSE b \in [0..(N - 1) -> Items] : TRUE,
                                write |-> 0, read |-> 0]
                       /\ enable_overwrite = TRUE /\ answer = <<>>
     \/ which = "ring" /\ RingInit

MCNext ==
  /\ UNCHANGED which
  /\ \/ which = "port" /\ Next /\ UNCHANGED ringVars
     \/ which = "ring" /\ RingNext /\ UNCHANGED vars

\* Of AsyncSerial's FairSpec, in the behaviours of the port.
PortFairness ==
  WF_vars(which = "port" /\ IoThread) /\ WF_vars(which = "port" /\ (WriteReady \/ WriteFails))
MCSpec == MCInit /\ [][MCNext]_<<vars, which, ringVars>> /\ PortFairness

\* The types of the port, and the indices of the ring (ring_buffer.hpp), which
\* never drift further apart than the ring can tell.
PortTypeOK == TypeOK /\ IndicesAgree

\* ImplementsQueue of RingBuffer; the steps of the port leave the ring alone and
\* are not looked at twice.
RingIsQueue ==
  Queue!QueueInit /\ [][which = "port" \/ Queue!QueueNext]_(Queue!queueVars)
=============================================================================
