----------------------------- MODULE MCPoolLocks -----------------------------
(***************************************************************************)
(* An instance of PoolLocks for TLC: the goroutines of the pool but for    *)
(* the health monitor.                                                     *)
(***************************************************************************)
EXTENDS PoolLocks, TLC
=============================================================================
