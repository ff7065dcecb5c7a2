---------------------------- MODULE MCAuthBroker ----------------------------
(***************************************************************************)
(* Instances of AuthBroker for TLC.                                        *)
(***************************************************************************)
EXTENDS AuthBroker, TLC

(* Callers are alike, and so are accounts. *)
BrokerSymmetry == Permutations(Callers) \cup Permutations(Accounts)
=============================================================================
