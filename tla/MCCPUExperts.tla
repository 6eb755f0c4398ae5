---------------------------- MODULE MCCPUExperts ----------------------------
(* A small instance of CPUExperts: the KExpertsMarlin of the shipped rules, *)
(* and the blocks that hand the router's own tensors over, with and without *)
(* a captured CUDA graph.                                                   *)
EXTENDS CPUExperts

AllConfigs == {[router |-> "host", graph |-> FALSE],
               [router |-> "stream", graph |-> FALSE],
               [router |-> "stream", graph |-> TRUE]}
SomeRoutings == {<<0, 1>>, <<2, 0>>}
=============================================================================
