------------------------------ MODULE MCFutures ------------------------------
(* Instances of Futures for TLC: futures are model values.                 *)
EXTENDS Futures
=============================================================================
