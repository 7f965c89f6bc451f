----------------------------- MODULE EpochWord ------------------------------
(***************************************************************************)
(* The AtomicU32 of yaay-mt-runtime/src/epoch.rs: the active count in the  *)
(* low bits, the epoch in the others, and one wrapping fetch_add or        *)
(* fetch_sub per operation.  Module Worker, which keeps the two counters   *)
(* apart, implements this specification.                                   *)
(***************************************************************************)
EXTENDS Integers

CONSTANTS
  N,         \* n_threads
  EPOCH,     \* the '1' of the epoch: 2^ACTIVE_COUNT_BITS
  EpochMod   \* number of values of the epoch: 2^(32 - ACTIVE_COUNT_BITS)

VARIABLE status

Word == EPOCH * EpochMod

active_count(s) == s % EPOCH

\* Epoch::new asserts that the count fits its bits.
Init == N < EPOCH /\ status = N

\* Called by an inactive, and by an active worker thread only.
set_active   == active_count(status) < N /\ status' = (status + 1) % Word
set_inactive == active_count(status) > 0 /\ status' = (status - 1) % Word

next_epoch == status' = (status + EPOCH) % Word

Next == set_active \/ set_inactive \/ next_epoch

Spec == Init /\ [][Next]_status
=============================================================================
