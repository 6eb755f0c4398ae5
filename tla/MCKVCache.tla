----------------------------- MODULE MCKVCache -----------------------------
(***************************************************************************)
(* KVCache for TLC: the configurations checked.                            *)
(***************************************************************************)
EXTENDS KVCache

Config(preselect, dense, separate, layerStep, tokenStep, prompt) ==
  [preselect |-> preselect, dense |-> dense, separate |-> separate,
   layerStep |-> layerStep, tokenStep |-> tokenStep, prompt |-> prompt]

(* Without preselection: dense and sparse layers, both ways of selecting,  *)
(* selections kept for several tokens or shared by two layers; prompts     *)
(* that end in the middle of a block, of a chunk and of a call.            *)
Plain ==
  {Config(FALSE, dense, separate, 1, tokenStep, prompt) :
     dense \in {0, 1}, separate \in BOOLEAN, tokenStep \in {1, 3},
     prompt \in {4, 11}}
  \cup {Config(FALSE, 0, FALSE, 2, 1, prompt) : prompt \in {7, 12}}

(* With preselection: a prompt that fits the preselected blocks, one that  *)
(* leaves a block out, one whose last chunk is a single token, and one     *)
(* that ends in the last block of the cache.                               *)
Preselected ==
  {Config(TRUE, dense, FALSE, 1, tokenStep, prompt) :
     dense \in {0, 1}, tokenStep \in {1, 3}, prompt \in {5, 14}}
  \cup {Config(TRUE, 0, TRUE, 1, 3, prompt) : prompt \in {6, 13, 19}}

AllConfigs == Plain \cup Preselected

(* The shipped configuration in small: preselection, a dense layer, and a  *)
(* context longer than what is preselected.                                *)
Shipped == {Config(TRUE, 1, FALSE, 1, 1, 14)}
=============================================================================
