------------------------------ MODULE MCLimiter ------------------------------
(* Three requests of one address at a time.                                *)
EXTENDS Limiter, TLC

CONSTANTS t1, t2, t3

SwapThreads == Permutations(Thread)
=============================================================================
