----------------------------- MODULE MCBaseLink -----------------------------
\* One commander that drives a base, for TLC.
EXTENDS BaseLink

MotionCommands == {<<"twist", "ahead">>, <<"mode", "auto">>, <<"heartbeat", "">>}
=============================================================================
