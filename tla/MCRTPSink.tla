------------------------------ MODULE MCRTPSink ------------------------------
(* TLC instances of RTPSink: sequence numbers wrap at 5.                   *)
EXTENDS RTPSink

NoOutages == {}
LongOutage == {3}
=============================================================================
