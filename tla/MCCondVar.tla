------------------------------ MODULE MCCondVar ------------------------------
(* Instances of CondVar for TLC: threads and the alarm are model values.   *)
EXTENDS CondVar
=============================================================================
