-------------------------- MODULE MCTunnelRenderer --------------------------
(* TLC instance of TunnelRenderer: values for the constants of its runs.   *)
EXTENDS TunnelRenderer

MCExtSeqNos == 0..3
MCBuffers == 1..2
=============================================================================
