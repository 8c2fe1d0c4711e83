-------------------------------- MODULE MCBase --------------------------------
\* The mobile base for TLC.  A behaviour is one of four: "race", two threads of a
\* client command one base; "loss", one thread, and a link that loses more frames
\* in a row; "motion", the twist timeout and the two versions of the protocol;
\* "codec", one frame of any type on the bus.
EXTENDS BaseLink, BaseCodec

CONSTANTS c1, c2
VARIABLE which

BaseCommands ==
  {<<"twist", "ahead">>, <<"mode", "auto">>, <<"heartbeat", "">>,
   <<"estop", "engage">>, <<"estop", "clear">>}
CodecNumbers == {-40000, -2, 300, 70000}
CodecFlips == {{0}, {7}, {1, 4}}

\* The commands, and how many, that each kind of behaviour is about.
Scope ==
  CASE which = "race"   -> /\ \A i \in {"mode", "heartbeat"} : intent[i] = "none"
                           /\ issued <= 3 /\ accepted <= 3
                           /\ version = Expected /\ twist_age \in {0, Timeout + 1}
    [] which = "loss"   -> /\ \A i \in Ids \ {"estop"} : intent[i] = "none"
                           /\ pending[c2] = NoFrame /\ version = Expected
    [] which = "motion" -> /\ intent["estop"] = "none" /\ pending[c2] = NoFrame
                           /\ issued <= 3 /\ accepted <= 3
    [] OTHER            -> FALSE

MCInit ==
  /\ which \in {"race", "loss", "motion", "codec"}
  /\ Init
  /\ IF which = "codec" THEN CodecInit /\ version = Expected
     ELSE message = "none" /\ frame = "none" /\ spoilt = FALSE /\ Scope
  /\ \A i \in Ids : drawn[i] = CASE which = "race" -> 7 [] which = "loss" -> 6 [] OTHER -> 0

MCNext ==
  /\ UNCHANGED which
  /\ \/ Next /\ Scope' /\ UNCHANGED codecVars
     \/ which = "codec" /\ CodecNext /\ UNCHANGED vars

MCSpec ==
  /\ MCInit /\ [][MCNext]_<<which, vars, codecVars>>
  /\ WF_vars(which = "motion" /\ BaseTick)

-----------------------------------------------------------------------------
\* A base that hears no more twists stops driving, whatever the link does.
BaseStops ==
  <>[][twist_age' >= twist_age]_vars => <>[](which = "motion" => Velocity = "zero")

\* A frame is decoded as what was meant, by its own decoder alone, or not at all.
FramesAgree == which = "codec" => FramesMeanOneThing
=============================================================================
