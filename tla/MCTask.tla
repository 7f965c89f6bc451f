------------------------------- MODULE MCTask -------------------------------
(***************************************************************************)
(* Instances of Task for TLC.                                              *)
(***************************************************************************)
EXTENDS Task

CONSTANTS w1, w2, w3, h1, h2, h3

MCWorkers == {w1, w2, w3}
MCHandles == {h1, h2, h3}
=============================================================================
