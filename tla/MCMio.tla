------------------------------- MODULE MCMio --------------------------------
(***************************************************************************)
(* Instances of Mio for TLC.                                               *)
(***************************************************************************)
EXTENDS Mio

CONSTANTS s1, s2

\* Two listeners: two events in one round, keys that are reused.
Listeners == {s1, s2}
ListenerInterests == [s \in Listeners |-> {"readable"}]

\* One stream with a reader and a writer, in two tasks.
Stream == {s1}
StreamInterests == [s \in Stream |-> Dirs]
=============================================================================
