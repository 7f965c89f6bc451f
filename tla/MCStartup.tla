----------------------------- MODULE MCStartup ------------------------------
(***************************************************************************)
(* Instances of Startup for TLC.                                           *)
(***************************************************************************)
EXTENDS Startup

\* 0x00000001, whose cycle under next_seed is among the longest, and 0x08000000, which
\* next_seed maps to itself.
MCSeeds == {{0}, {27}}
OddSeed == {{0}}
=============================================================================
