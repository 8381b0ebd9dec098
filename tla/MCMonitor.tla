------------------------------ MODULE MCMonitor ------------------------------
(* Instances of Monitor for TLC: threads are interchangeable model values, *)
(* monitor 1 and the pair have two functions each, monitor 2 has one.      *)
EXTENDS Monitor, TLC

Symmetry == Permutations(Threads)

MCRoutines ==
  { [group |-> {1}, func |-> "f"], [group |-> {1}, func |-> "g"],
    [group |-> {2}, func |-> "f"], [group |-> {1, 2}, func |-> "f"],
    [group |-> {1, 2}, func |-> "g"] }
=============================================================================
