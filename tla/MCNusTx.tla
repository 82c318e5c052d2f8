------------------------------ MODULE MCNusTx ------------------------------
(* The host thread and one other; lines of up to three bytes in             *)
(* notifications of one byte, or of two after an MTU exchange.              *)
EXTENDS NusTx

CONSTANTS host, ui

MCThreads == {host, ui}
MCMtus == {4, 5}
=============================================================================
