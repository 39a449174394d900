------------------------- MODULE MCEngineLifecycle -------------------------
(***************************************************************************)
(* An instance of EngineLifecycle for TLC: a pool of three workers, the    *)
(* default of WORKER_POOL_MIN_SIZE.                                        *)
(***************************************************************************)
EXTENDS EngineLifecycle, TLC
=============================================================================
