-------------------------- MODULE MCCoreLifecycle ---------------------------
(* CoreLifecycle for TLC.  Lease and operation ids are only compared, so the
   safety runs identify states that differ by a permutation of them.          *)
EXTENDS CoreLifecycle, TLC

IdSymmetry == Permutations(Leases) \cup Permutations(Ops)
=============================================================================
