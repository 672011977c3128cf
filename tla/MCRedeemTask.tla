---------------------------- MODULE MCRedeemTask ----------------------------
(* Instances of RedeemTask for TLC.                                        *)
EXTENDS RedeemTask, TLC

Symmetry == Permutations(Codes) \cup Permutations(Accounts)
=============================================================================
