------------------------------- MODULE MCMinHeap -------------------------------
(* MinHeap for TLC: timers are interchangeable.                            *)
EXTENDS MinHeap, TLC

Symmetry == Permutations(Timer)
================================================================================
