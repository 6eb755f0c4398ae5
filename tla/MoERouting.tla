------------------------------ MODULE MoERouting ------------------------------
(***************************************************************************)
(* The sparse layers of the supported models, for one call of forward: how *)
(* a gate chooses experts for a token (operators/gate.py and the MoEGate   *)
(* classes of models/), and how a block sends tokens to the experts,       *)
(* gathers their outputs and adds the shared experts (the *MoE classes of  *)
(* models/ and those of operators/experts.py that replace them).           *)
(*                                                                         *)
(* A score is an integer.  The output of a token is the bag of what was    *)
(* added to it: <<expert, token it was given, weight>>, a weight being the *)
(* place <<token, slot>> it was read from.  The routers only promise that  *)
(* the experts of a token differ.  Rows with equal keys are in the order   *)
(* they had, or in the reverse one, after argsort.                         *)
(***************************************************************************)
EXTENDS Integers, Sequences, FiniteSets, Bags, FiniteSetsExt, SequencesExt, TLC

CONSTANTS
  RoutedExperts,     \* n_routed_experts
  NGroup, TopKGroup, TopK,
  Scores, Biases,    \* values of a score, and of e_score_correction_bias
  MaxTokens,
  SimpleTokens,      \* up to this many use moe_infer_simple, 10
  EpSize, EpTokens   \* bounds: ranks that share the experts, tokens of each

ASSUME MoERoutingAssumption ==
  /\ {RoutedExperts, NGroup, TopKGroup, TopK, MaxTokens} \subseteq Nat \ {0}
  /\ SimpleTokens \in Nat
  /\ RoutedExperts % NGroup = 0 /\ TopKGroup <= NGroup
  /\ RoutedExperts \div NGroup >= 2
  /\ TopK <= TopKGroup * (RoutedExperts \div NGroup)
  /\ Scores \subseteq Nat \ {0} /\ Biases \subseteq Int
  /\ {EpSize, EpTokens} \subseteq Nat \ {0} /\ RoutedExperts % EpSize = 0

VARIABLES
  gate,       \* a gate's configuration and the scores of one token
  picked,     \* its result: experts, groups and weights
  moe,        \* a block's configuration
  topk_ids,   \* of each rank and token, its experts in the router's order
  result      \* what forward returns on each rank

moeVars == <<gate, picked, moe, topk_ids, result>>

MoeExperts == 0 .. RoutedExperts - 1
Groups == 0 .. NGroup - 1
Pending == [kind |-> "pending"]
Raises == [kind |-> "raises"]

-----------------------------------------------------------------------------
(* Faulty variants of operators below, to show what the properties detect. *)
BiasedWeight(e) == gate.scores[e] + gate.bias[e]
LeftSorted(idxs, outs) == outs

-----------------------------------------------------------------------------
(* The gates *)

(* torch.topk: any k entries that no other one exceeds. *)
TopKOf(f, k) ==
  {S \in kSubset(k, DOMAIN f) : \A e \in S, d \in DOMAIN f \ S : f[d] <= f[e]}

Group(g) == {e \in MoeExperts : e \div (RoutedExperts \div NGroup) = g}
GroupMax(f, g) == Max({f[e] : e \in Group(g)})
GroupTopTwo(f, g) ==
  LET two == CHOOSE S \in TopKOf([e \in Group(g) |-> f[e]], 2) : TRUE
  IN MapThenSumSet(LAMBDA e : f[e], two)

(* masked_fill(~score_mask, 0.0): 0, not minus infinity. *)
Masked(f, groups) ==
  [e \in MoeExperts |-> IF \E g \in groups : e \in Group(g) THEN f[e] ELSE 0]

Biased == [e \in MoeExperts |-> gate.scores[e] + gate.bias[e]]

(* Weights are the scores without the bias. *)
OwnWeight(e) == gate.scores[e]

(* A weight: its score, those it is divided by the sum of, and whether     *)
(* routed_scaling_factor multiplies it.                                    *)
Weights(S, normalised, scaled) ==
  [e \in S |-> [score |-> OwnWeight(e), over |-> IF normalised THEN S ELSE {},
                scaled |-> scaled]]
Normalised == TopK > 1 /\ gate.norm_topk_prob

Pick(S, groups, scaled) ==
  [kind |-> "picked", experts |-> S, groups |-> groups,
   weights |-> Weights(S, Normalised, scaled)]

(* MoEGate of DeepSeek-V2, which scales only what it does not normalise *)
Greedy ==
  /\ gate.method = "greedy" /\ picked = Pending
  /\ \E S \in TopKOf(gate.scores, TopK) : picked' = Pick(S, Groups, ~Normalised)
  /\ UNCHANGED <<gate, moe, topk_ids, result>>

GroupLimitedGreedy ==
  /\ gate.method = "group_limited_greedy" /\ picked = Pending
  /\ \E groups \in TopKOf([g \in Groups |-> GroupMax(gate.scores, g)], TopKGroup) :
     \E S \in TopKOf(Masked(gate.scores, groups), TopK) :
       picked' = Pick(S, groups, ~Normalised)
  /\ UNCHANGED <<gate, moe, topk_ids, result>>

(* The two best of a group stand for it, with their bias. *)
PickBiased ==
  \E groups \in TopKOf([g \in Groups |-> GroupTopTwo(Biased, g)], TopKGroup) :
  \E S \in TopKOf(Masked(Biased, groups), TopK) : picked' = Pick(S, groups, TRUE)

(* MoEGate of DeepSeek-V3 *)
NoauxTc ==
  /\ gate.method = "noaux_tc" /\ picked = Pending /\ PickBiased
  /\ UNCHANGED <<gate, moe, topk_ids, result>>

(* grouped_topk, for KMoEGateDeepSeekV3 *)
GroupedTopk ==
  /\ gate.method = "grouped_topk" /\ picked = Pending /\ PickBiased
  /\ UNCHANGED <<gate, moe, topk_ids, result>>

-----------------------------------------------------------------------------
(* The blocks.  A table of experts is a sequence of tokens, each of which  *)
(* is a sequence of TopK experts.                                          *)

Slots == 1 .. TopK
TokensOf(ids) == 1 .. Len(ids)

(* moe_infer_simple; KExpertsCPU, with the sizes submit() gives it *)
MoeInferSimple(ids) ==
  [t \in TokensOf(ids) |-> SetToBag({<<ids[t][j], t, <<t, j>>>> : j \in Slots})]

KExpertsCPUForward(ids) == MoeInferSimple(ids)

(* Where expert_mask of expert e is one, and the outputs of the experts in *)
(* E added at the tokens found there.                                      *)
Where(ids, e) == {w \in Slots \X TokensOf(ids) : ids[w[2]][w[1]] = e}
OneHot(ids, E) ==
  [t \in TokensOf(ids) |->
     SetToBag(UNION {{<<e, w[2], <<w[2], w[1]>>>> : w \in {v \in Where(ids, e) : v[2] = t}} :
                       e \in E})]

(* argsort: each row is the place of the key of its rank.  (Concatenated,  *)
(* the keys are evaluated once, and not again for each comparison.)        *)
Before(s, ties, p, q) ==
  \/ s[p] < s[q]
  \/ s[p] = s[q] /\ (IF ties = "first" THEN p < q ELSE q < p)
Rank(s, ties, p) == Cardinality({q \in DOMAIN s : Before(s, ties, q, p)}) + 1
Argsort(s, ties) ==
  LET keys == s \o <<>> IN
  [row \in DOMAIN keys |-> CHOOSE p \in DOMAIN keys : Rank(keys, ties, p) = row]

TokenOf(p) == (p - 1) \div TopK + 1
Flat(ids) == [p \in 1 .. Len(ids) * TopK |-> ids[TokenOf(p)][p - (TokenOf(p) - 1) * TopK]]

(* cnts.scatter_(1, topk_ids, 1).sum(dim=0); the start of slice e of rows  *)
(* that are cut in slices of these lengths, and the slice a row is in.     *)
TokensPerExpert(ids) ==
  [e \in MoeExperts |-> Cardinality({t \in TokensOf(ids) : e \in ToSet(ids[t])})]
Total(counts, S) == Cardinality(UNION {{d} \X (1 .. counts[d]) : d \in S})
StartIdx(counts, e) == Total(counts, {d \in DOMAIN counts : d < e})
SliceOf(counts, row) ==
  CHOOSE e \in DOMAIN counts :
    StartIdx(counts, e) < row /\ row <= StartIdx(counts, e) + counts[e]

(* new_x[idxs] = outs: rows are put back where they came from; then each   *)
(* slot is weighted.                                                       *)
Scatter(idxs, outs) ==
  [p \in DOMAIN outs |-> outs[CHOOSE row \in DOMAIN outs : idxs[row] = p]]
Final(new_x, tokens) ==
  [t \in 1 .. tokens |->
     SetToBag({<<new_x[p][1], new_x[p][2], <<t, p - (t - 1) * TopK>>>> :
                 p \in (t - 1) * TopK + 1 .. t * TopK})]

(* moe_infer, when all experts are here *)
MoeInfer(ids, ties) ==
  LET idxs == Argsort(Flat(ids), ties)
      counts == TokensPerExpert(ids)
      outs == [row \in DOMAIN idxs |-> <<SliceOf(counts, row), TokenOf(idxs[row])>>]
  IN Final(Scatter(idxs, outs), Len(ids))

(* moe_infer, when rank q has the experts q * here .. (q + 1) * here - 1:  *)
(* rows travel to the rank of their expert, are ordered by expert there    *)
(* and travel back.                                                        *)
MoeInferEp(ids, ties) ==
  LET ranks == 0 .. Len(ids) - 1
      here == RoutedExperts \div Len(ids)
      idxs == [r \in ranks |-> Argsort(Flat(ids[r + 1]), ties)]
      counts == [r \in ranks |-> TokensPerExpert(ids[r + 1])]
      splits == [r \in ranks |-> [q \in ranks |->
                   Total(counts[r], q * here .. (q + 1) * here - 1)]]
      \* What rank q receives: rows, and how many by source and expert.
      received == [q \in ranks |-> [r \in ranks |-> splits[r][q]]]
      group == [q \in ranks |-> [g \in MoeExperts |->
                  counts[g \div here][q * here + (g % here)]]]
      gathered == [q \in ranks |-> [row \in 1 .. Total(received[q], ranks) |->
        LET r == SliceOf(received[q], row)
        IN <<r, TokenOf(idxs[r][StartIdx(splits[r], q) + row - StartIdx(received[q], r)])>>]]
      order == [q \in ranks |->
        Argsort([row \in DOMAIN gathered[q] |-> SliceOf(group[q], row) % here], ties)]
      post_gather == [q \in ranks |-> [i \in 0 .. here - 1 |->
        Total(group[q], {g \in MoeExperts : g % here = i})]]
      outs == [q \in ranks |-> Scatter(order[q], [row \in DOMAIN order[q] |->
        <<SliceOf(post_gather[q], row) + q * here, gathered[q][order[q][row]]>>])]
      back == [r \in ranks |-> [row \in DOMAIN idxs[r] |->
        LET q == SliceOf(splits[r], row)
        IN outs[q][StartIdx(received[q], r) + row - StartIdx(splits[r], q)]]]
  IN [r \in DOMAIN ids |-> Final(Scatter(idxs[r - 1], back[r - 1]), Len(ids[r]))]

(* KExpertsMarlin.forward in prefill: for the experts that go to the CPU,  *)
(* each token has a list of them and one of the slots of their weights,    *)
(* filled together: for each of these experts, its slot.                   *)
CpuIndexesOf(ids, cpu, t) ==
  [e \in cpu \cap ToSet(ids[t]) |-> CHOOSE j \in Slots : <<j, t>> \in Where(ids, e)]

MarlinPrefill(ids, cpu) ==
  [t \in TokensOf(ids) |->
     LET idx == CpuIndexesOf(ids, cpu, t)
     IN SetToBag({<<e, t, <<t, idx[e]>>>> : e \in DOMAIN idx})
        (+) OneHot(ids, MoeExperts \ cpu)[t]]

(* ... and for one token, where the weights of the CPU's experts are taken *)
(* at their places among the experts in GPU slots, or among the others     *)
(* (see HybridSchedule).                                                   *)
PlaceAmong(ids, cached, e) ==
  LET among == SelectSeq(ids[1], LAMBDA d : (d \in cached) = (e \in cached))
  IN CHOOSE j \in Slots : among[j] = e
MarlinDecode(ids, cpu, cached) ==
  <<SetToBag({<<e, 1, <<1, PlaceAmong(ids, cached, e)>>>> : e \in cpu \cap ToSet(ids[1])})
    (+) OneHot(ids, MoeExperts \ cpu)[1]>>

-----------------------------------------------------------------------------
(* forward of each block.  The original ones call moe_infer, or loop over  *)
(* the experts, and add the shared experts, Qwen2-MoE always.              *)

Sum(shared, routed) == [kind |-> "output", routed |-> routed, shared |-> shared]
HasShared == CASE moe.block \in {"Qwen2Moe", "KQwen2Moe"} -> 1
               [] moe.block \in {"Mixtral", "KMistral"} -> 0
               [] OTHER -> IF moe.n_shared_experts THEN 1 ELSE 0

Here(routed) == <<routed>>
ids1 == topk_ids[1]
Routed == topk_ids # <<>> /\ result = Pending
Returns(r) == result' = r /\ UNCHANGED <<gate, picked, moe, topk_ids>>

DeepseekMoE ==
  /\ moe.block \in {"DeepseekV2", "DeepseekV3"} /\ Routed
  /\ \E ties \in {"first", "last"} :
       Returns(Sum(HasShared, IF moe.ranks > 1 THEN MoeInferEp(topk_ids, ties)
                              ELSE Here(MoeInfer(ids1, ties))))

Qwen2MoeSparseMoeBlock ==
  /\ moe.block = "Qwen2Moe" /\ Routed
  /\ Returns(Sum(HasShared, Here(OneHot(ids1, MoeExperts))))

MixtralSparseMoeBlock ==
  /\ moe.block = "Mixtral" /\ Routed
  /\ Returns(Sum(HasShared, Here(OneHot(ids1, MoeExperts))))

(* The injected ones.  self.experts.generate_experts is read first when    *)
(* there is one token: a plain list of experts does not have it.           *)
OneToken == Len(ids1) = 1
IsList == moe.experts = "ModuleList"
SubmitsForOneDecode == moe.experts = "KExpertsCPU"

(* submit_for_one_decode and sync_for_one_decode, with the shared experts  *)
(* in between.                                                             *)
OneDecode(shared) == Sum(shared, Here(KExpertsCPUForward(ids1)))

(* KTransformersExperts.forward takes shared_experts, without a default:   *)
(* a block that leaves it out raises, in every prompt of several tokens.   *)
KQwen2MoeSparseMoeBlock ==
  /\ moe.block = "KQwen2Moe" /\ Routed
  /\ Returns(IF OneToken /\ SubmitsForOneDecode THEN OneDecode(HasShared) ELSE Raises)

KMistralSparseMoEBlock ==
  /\ moe.block = "KMistral" /\ Routed
  /\ Returns(IF OneToken /\ SubmitsForOneDecode THEN OneDecode(HasShared) ELSE Raises)

(* A plain list: shared experts once, whichever of the two loops runs. *)
OnList(ties) ==
  IF OneToken THEN Raises
  ELSE Sum(HasShared, Here(IF Len(ids1) > SimpleTokens THEN MoeInfer(ids1, ties)
                           ELSE MoeInferSimple(ids1)))

(* In a capture the shared experts are added whether there are any or not. *)
Captured == IF moe.n_shared_experts THEN OneDecode(HasShared) ELSE Raises

KDeepseekV3MoE ==
  /\ moe.block = "KDeepseekV3" /\ Routed
  /\ \E ties \in {"first", "last"} :
       Returns(IF IsList THEN OnList(ties)
               ELSE IF OneToken /\ SubmitsForOneDecode /\ moe.capturing THEN Captured
               ELSE Raises)

(* That of DeepSeek-V2 passes the shared experts as a function, which the  *)
(* experts call and add once, if there are any.                            *)
OnExperts(cpu, cached) ==
  IF ~moe.n_shared_experts \/ moe.experts = "KExpertsTorch" THEN Raises
  ELSE Sum(1, Here(
         IF moe.experts = "KExpertsCPU" THEN KExpertsCPUForward(ids1)
         ELSE IF OneToken THEN MarlinDecode(ids1, cpu, cached)
         ELSE MarlinPrefill(ids1, cpu)))

KDeepseekV2MoE ==
  /\ moe.block = "KDeepseekV2" /\ Routed
  /\ \E ties \in {"first", "last"}, cpu, cached \in SUBSET MoeExperts :
       /\ moe.experts # "KExpertsMarlin" => cpu = {}
       /\ ~IsList => ties = "first"
       /\ ~OneToken \/ moe.experts # "KExpertsMarlin" => cached = {}
       /\ Returns(IF IsList THEN OnList(ties)
                  ELSE IF OneToken /\ SubmitsForOneDecode /\ moe.capturing THEN Captured
                  ELSE OnExperts(cpu, cached))

-----------------------------------------------------------------------------

KBlocks == {"KQwen2Moe", "KMistral", "KDeepseekV2", "KDeepseekV3"}

(* What reads the results of the router on the host is not captured.       *)
Blocks ==
  [block : {"DeepseekV2", "DeepseekV3"}, experts : {"ModuleList"}, capturing : {FALSE},
   n_shared_experts : BOOLEAN, ranks : {1}, tokens : 1 .. MaxTokens]
  \cup [block : {"DeepseekV2", "DeepseekV3"}, experts : {"ModuleList"}, capturing : {FALSE},
        n_shared_experts : BOOLEAN, ranks : {EpSize}, tokens : 1 .. EpTokens]
  \cup [block : {"Qwen2Moe", "Mixtral"}, experts : {"ModuleList"}, capturing : {FALSE},
        n_shared_experts : {TRUE}, ranks : {1}, tokens : 1 .. MaxTokens]
  \cup {b \in [block : KBlocks,
               experts : {"ModuleList", "KExpertsCPU", "KExpertsMarlin", "KExpertsTorch"},
               capturing : BOOLEAN, n_shared_experts : BOOLEAN, ranks : {1},
               tokens : 1 .. MaxTokens] :
          b.capturing => b.tokens = 1 /\ b.experts = "KExpertsCPU"}

Gates ==
  [method : {"greedy", "group_limited_greedy"}, scores : [MoeExperts -> Scores],
   bias : {[e \in MoeExperts |-> 0]}, norm_topk_prob : BOOLEAN]
  \cup [method : {"noaux_tc", "grouped_topk"}, scores : [MoeExperts -> Scores],
        bias : [MoeExperts -> Biases], norm_topk_prob : BOOLEAN]

NoGate == [method |-> "none"]
NoBlock == [block |-> "none"]

(* One gate, or one block. *)
MoeInit ==
  /\ picked = Pending /\ topk_ids = <<>> /\ result = Pending
  /\ \/ gate \in Gates /\ moe = NoBlock
     \/ moe \in Blocks /\ gate = NoGate

(* The router's choice for every token of each rank: different experts, in *)
(* any order.                                                              *)
RouterChoices == Injection(Slots, MoeExperts)
Route ==
  /\ moe # NoBlock /\ topk_ids = <<>>
  /\ topk_ids' \in [1 .. moe.ranks -> [1 .. moe.tokens -> RouterChoices]]
  /\ UNCHANGED <<gate, picked, moe, result>>

MoeNext ==
  \/ Greedy \/ GroupLimitedGreedy \/ NoauxTc \/ GroupedTopk
  \/ Route
  \/ DeepseekMoE \/ Qwen2MoeSparseMoeBlock \/ MixtralSparseMoeBlock
  \/ KQwen2MoeSparseMoeBlock \/ KMistralSparseMoEBlock
  \/ KDeepseekV2MoE \/ KDeepseekV3MoE

MoeSpec == MoeInit /\ [][MoeNext]_moeVars

-----------------------------------------------------------------------------
(* Properties *)

(* A gate takes the best experts of the groups it chose, by biased scores, *)
(* and weights them by their own ones; one of another group gets in only   *)
(* where the 0 it is masked with is more than what is left: when fewer     *)
(* than TopK experts of the chosen groups have a positive biased score.    *)
RoutedByGroup ==
  picked # Pending =>
    LET inside == {e \in MoeExperts : \E g \in picked.groups : e \in Group(g)}
        S == picked.experts
    IN /\ S \subseteq inside \/ Cardinality({e \in inside : Biased[e] > 0}) < TopK
       /\ \A e \in S \cap inside, d \in inside \ S : Biased[d] <= Biased[e]
       /\ \A e \in S : /\ picked.weights[e].score = gate.scores[e]
                       /\ picked.weights[e].over \in {{}, S}

(* Each token is given to each of its experts once, whose output is        *)
(* weighted by the weight the router gave that expert (not when            *)
(* KExpertsMarlin generates, see MarlinDecode), and the shared experts are *)
(* added once: whichever way a block gathers and scatters the tokens.  The *)
(* one family that is served with shared experts as a function returns.    *)
GivenToItsExperts ==
  /\ result.kind = "output" =>
       /\ result.shared = HasShared
       /\ \A r \in DOMAIN topk_ids, t \in 1 .. moe.tokens :
            LET ids == topk_ids[r]
                out == result.routed[r][t]
                own(j) == IF moe.ranks > 1 THEN <<r - 1, t>> ELSE t
            IN IF moe.experts = "KExpertsMarlin" /\ moe.tokens = 1
               THEN /\ {c[1] : c \in BagToSet(out)} = ToSet(ids[t])
                    /\ out = SetToBag(BagToSet(out)) /\ Cardinality(BagToSet(out)) = TopK
               ELSE out = SetToBag({<<ids[t][j], own(j), <<t, j>>>> : j \in Slots})
  /\ /\ moe.block = "KDeepseekV2" /\ moe.n_shared_experts
     /\ moe.experts \in {"KExpertsCPU", "KExpertsMarlin"}
     => result # Raises
=============================================================================
