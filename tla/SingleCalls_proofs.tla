------------------------- MODULE SingleCalls_proofs -------------------------
(***************************************************************************)
(* Proofs about five parts that share no state: which blocks of the        *)
(* long-context cache compete by which keys (KVAnchors), which experts a   *)
(* gate takes and which tokens an expert gets (MoERouting), what a tensor  *)
(* of a GGUF file is once it is loaded (GGUFTensors), what a model is      *)
(* (ModelLoading), and what the queries of its attention read              *)
(* (CausalAttention).  Each has invariants of its own: the anchors of a    *)
(* block are keys of that block, and all of them if it was complete        *)
(* (AnchorInv); a gate has its types and has picked by group (RInv); a     *)
(* block has the tables of its tokens and has returned what they say       *)
(* (GivenInv); the loop over a large tensor has converted exactly the      *)
(* blocks before its next piece (TensorInv); at each phase of loading the  *)
(* configuration is that of the rules (LoadInv); the cache holds the keys  *)
(* of the positions given to the model, and past_tokens counts them but    *)
(* for those skipped in this thread (SessionInv).                          *)
(***************************************************************************)
EXTENDS KVAnchors, MoERouting, GGUFTensors, ModelLoading, CausalAttention, NumberLemmas,
        FiniteSetTheorems, SequenceTheorems, TLAPS

(***************************************************************************)
(* KVAnchors: a block competes by its own keys.                            *)
(***************************************************************************)

(* The kv head q head h attends to. *)
OwnHead(h) == (h * set.kv_head_num) \div QHeadNum
Complete(b, n) == (b + 1) * AnchorBlockLen <= n

(* The keys in the anchors A of block b, computed when n tokens were there *)
OwnKey(n, b, h, k) ==
  \/ k # NoKey /\ k[1] = OwnHead(h) /\ k[2] = b
  \/ k = NoKey /\ ~Complete(b, n)
KeysOwned(n, b, A) ==
  \A a \in 0 .. set.anchor_num - 1, h \in QHeads : \A k \in A[a][h] : OwnKey(n, b, h, k)
EveryHead(A) == \A h \in QHeads : \E a \in 0 .. set.anchor_num - 1 : A[a][h] # {}

AnchorsMeant == HeadsMatch /\ KeysReadable

AnchorInv ==
  /\ set \in Settings
  /\ seq_len \in Nat /\ seq_len <= AnchorBlocks * AnchorBlockLen /\ anchored \in Nat
  /\ AnchorsMeant => \A b \in Entries :
       /\ KeysOwned(anchored, b, anchor[b])
       /\ Complete(b, anchored) => EveryHead(anchor[b])

LEMMA AnchorConstants ==
  /\ AnchorBlockLen \in Nat \ {0} /\ AnchorBlocks \in Nat \ {0} /\ QHeadNum \in Nat \ {0}
  /\ InitBlockNum \in Nat /\ LocalBlockNum \in Nat
BY KVAnchorsAssumption

LEMMA SettingOk ==
  ASSUME set \in Settings
  PROVE  /\ set.type \in {"DYNAMIC", "BLOCK_MEAN", "BLOCK_MAX", "FIXED", "QUEST"}
         /\ set.kv_type \in {"F16", "Q4_0", "Q8_0"}
         /\ set.anchor_num \in Nat \ {0} /\ set.anchor_num <= AnchorBlockLen
         /\ set.type = "QUEST" => set.anchor_num = 2
         /\ set.type \in {"BLOCK_MEAN", "BLOCK_MAX"} => set.anchor_num = 1
         /\ set.kv_head_num \in Nat \ {0} /\ QHeadNum % set.kv_head_num = 0
<1>1. \A c \in Settings :
        /\ c.type \in {"DYNAMIC", "BLOCK_MEAN", "BLOCK_MAX", "FIXED", "QUEST"}
        /\ c.kv_type \in {"F16", "Q4_0", "Q8_0"}
        /\ c.anchor_num \in 1 .. AnchorBlockLen
        /\ c.type = "QUEST" => c.anchor_num = 2
        /\ c.type \in {"BLOCK_MEAN", "BLOCK_MAX"} => c.anchor_num = 1
        /\ c.kv_head_num \in 1 .. QHeadNum /\ QHeadNum % c.kv_head_num = 0
  BY KVAnchorsAssumption
<1>2. set.anchor_num \in 1 .. AnchorBlockLen /\ set.kv_head_num \in 1 .. QHeadNum
  BY <1>1
<1>3. set.anchor_num \in Nat \ {0} /\ set.anchor_num <= AnchorBlockLen
  BY <1>2, AnchorConstants
<1>4. set.kv_head_num \in Nat \ {0}
  BY <1>2, AnchorConstants
<1> QED BY <1>1, <1>3, <1>4

(* Grouped-query attention: the kv head of q head h by n_gqa, and directly. *)
LEMMA Grouped ==
  ASSUME NEW Q \in Nat \ {0}, NEW kv \in Nat \ {0}, Q % kv = 0, NEW h \in Nat, h < Q
  PROVE  h \div (Q \div kv) = (h * kv) \div Q /\ (kv = Q => (h * kv) \div Q = h)
<1>1. PICK g \in Nat : g = Q \div kv
  BY DivMod
<1>2. Q = g * kv + (Q % kv)
  BY <1>1, DivMod
<1>3. Q = g * kv
  BY <1>2
<1>4. g # 0
  BY <1>3
<1>5. PICK q \in Nat, r \in 0 .. g - 1 : q = h \div g /\ h = q * g + r
  BY <1>4, DivMod
<1>6. r \in Nat /\ r + 1 <= g
  BY <1>5
<1>7. PICK w \in Nat : w = r * kv
  BY <1>6
<1>8. h * kv = q * Q + w
  <2>0. PICK x \in Nat : x = q * g
    OBVIOUS
  <2>3. h * kv = x * kv + r * kv
    BY <2>0, <1>5, <1>6
  <2>1. h * kv = (q * g) * kv + r * kv
    BY <2>0, <2>3
  <2>2. (q * g) * kv = q * (g * kv)
    BY <1>5
  <2> QED BY <2>1, <2>2, <1>3, <1>7
<1>9. w \in 0 .. Q - 1
  <2>1. (r + 1) * kv <= g * kv
    BY <1>6, TimesOrder
  <2>2. (r + 1) * kv = w + kv
    BY <1>6, <1>7
  <2> QED BY <2>1, <2>2, <1>3
<1>10. (h * kv) \div Q = q
  BY <1>8, <1>9, DivUnique
<1>11. ASSUME kv = Q PROVE q = h
  <2>1. (h * Q) \div Q = h
    <3>1. 0 \in 0 .. Q - 1 /\ h * Q + 0 = h * Q
      OBVIOUS
    <3>2. (h * Q + 0) \div Q = h
      BY <3>1, DivUnique
    <3> QED BY <3>1, <3>2
  <2> QED BY <2>1, <1>10, <1>11
<1> QED BY <1>1, <1>5, <1>10, <1>11

LEMMA KvHeadOwn ==
  ASSUME set \in Settings, NEW h \in QHeads
  PROVE  KvHead(h) = OwnHead(h) /\ (set.kv_head_num = QHeadNum => OwnHead(h) = h)
<1>1. PICK Q \in Nat \ {0}, kv \in Nat \ {0} : Q = QHeadNum /\ kv = set.kv_head_num
  BY SettingOk, AnchorConstants
<1>2. Q % kv = 0 /\ h \in Nat /\ h < Q
  BY <1>1, SettingOk DEF QHeads
<1>3. h \div (Q \div kv) = (h * kv) \div Q /\ (kv = Q => (h * kv) \div Q = h)
  BY <1>2, Grouped
<1> QED BY <1>1, <1>3 DEF KvHead, OwnHead, n_gqa

(* Keys of a block: those of a complete one all hold tokens. *)
LEMMA KeysOwn ==
  ASSUME NEW n \in Nat, NEW g, NEW b \in Entries, NEW slots \in SUBSET AnchorSlots, slots # {}
  PROVE  /\ Keys(n, g, b, slots) # {}
         /\ \A k \in Keys(n, g, b, slots) :
              \/ k # NoKey /\ k[1] = g /\ k[2] = b
              \/ k = NoKey /\ ~Complete(b, n)
<1>1. Keys(n, g, b, slots) # {}
  BY DEF Keys
<1>2. ASSUME NEW s \in slots
      PROVE  LET k == Key(n, g, b, s)
             IN \/ k # NoKey /\ k[1] = g /\ k[2] = b
                \/ k = NoKey /\ ~Complete(b, n)
  <2> PICK L : L = AnchorBlockLen
    OBVIOUS
  <2>1. s \in Nat /\ s < L /\ b \in Nat /\ L \in Nat
    BY AnchorConstants DEF AnchorSlots, Entries
  <2>2. CASE b * L + s < n
    <3>1. Key(n, g, b, s) = <<g, b, s>>
      BY <2>2 DEF Key
    <3>2. <<g, b, s>> # <<>>
      OBVIOUS
    <3> QED BY <3>1, <3>2 DEF NoKey
  <2>3. CASE ~(b * L + s < n)
    <3>1. Key(n, g, b, s) = NoKey
      BY <2>3 DEF Key
    <3>2. (b + 1) * L = b * L + L /\ b * L \in Nat
      BY <2>1
    <3>3. ~((b + 1) * L <= n)
      BY <3>2, <2>1, <2>3
    <3> QED BY <3>1, <3>3 DEF Complete
  <2> QED BY <2>2, <2>3
<1> QED BY <1>1, <1>2 DEF Keys

(* A stride of the block length over the number of anchors stays inside.   *)
LEMMA FixedSlots ==
  ASSUME set \in Settings
  PROVE  LET slots == {tot * (AnchorBlockLen \div set.anchor_num) : tot \in 0 .. set.anchor_num - 1}
         IN slots \in SUBSET AnchorSlots /\ slots # {}
<1>1. PICK L \in Nat \ {0}, m \in Nat \ {0} : L = AnchorBlockLen /\ m = set.anchor_num /\ m <= L
  BY SettingOk, AnchorConstants
<1>2. PICK d \in Nat : d = L \div m /\ L = d * m + (L % m) /\ L % m \in 0 .. m - 1
  BY DivMod
<1>3. d # 0
  BY <1>1, <1>2
<1>4. ASSUME NEW tot \in 0 .. m - 1 PROVE tot * d \in AnchorSlots
  <2>1. tot \in Nat /\ tot + 1 <= m
    OBVIOUS
  <2>2. (tot + 1) * d <= m * d /\ tot * d \in Nat /\ m * d \in Nat
    BY <2>1, TimesOrder
  <2>3. (tot + 1) * d = tot * d + d /\ m * d = d * m
    BY <2>1
  <2>4. tot * d <= L - 1
    BY <2>2, <2>3, <1>1, <1>2, <1>3
  <2> QED BY <2>2, <2>4, <1>1 DEF AnchorSlots
<1>5. 0 \in 0 .. m - 1
  OBVIOUS
<1> QED BY <1>1, <1>2, <1>4, <1>5

LEMMA AnchorsOwn ==
  ASSUME set \in Settings, AnchorsMeant, NEW n \in Nat, NEW b \in Entries,
         NEW top \in IF set.type = "DYNAMIC" THEN Tops ELSE {<<>>}
  PROVE  KeysOwned(n, b, Anchors(n, b, top)) /\ EveryHead(Anchors(n, b, top))
<1>0. AnchorSlots \in SUBSET AnchorSlots /\ AnchorSlots # {}
  <2>1. 0 \in 0 .. AnchorBlockLen - 1
    BY AnchorConstants
  <2> QED BY <2>1 DEF AnchorSlots
<1>1. 0 \in 0 .. set.anchor_num - 1 /\ set.anchor_num \in Nat
  BY SettingOk
<1>2. \A h \in QHeads : h \in Nat
  BY AnchorConstants DEF QHeads
<1>3. CASE set.type = "DYNAMIC"
  <2>1. Anchors(n, b, top) = Dynamic(n, b, top)
    BY <1>3 DEF Anchors
  <2>2. \A h \in QHeads : top[h] \in SUBSET AnchorSlots /\ top[h] # {}
    <3> SUFFICES ASSUME NEW h \in QHeads PROVE top[h] \in SUBSET AnchorSlots /\ top[h] # {}
      OBVIOUS
    <3>1. top[h] \in kSubset(set.anchor_num, AnchorSlots)
      BY <1>3 DEF Tops
    <3>2. top[h] \in SUBSET AnchorSlots /\ Cardinality(top[h]) # 0
      BY <3>1, SettingOk DEF kSubset
    <3> QED BY <3>2, FS_EmptySet
  <2>3. \A h \in QHeads : /\ Keys(n, OwnHead(h), b, top[h]) # {}
                          /\ \A k \in Keys(n, OwnHead(h), b, top[h]) : OwnKey(n, b, h, k)
    BY <2>2, KeysOwn DEF OwnKey
  <2>4. \A a \in 0 .. set.anchor_num - 1, h \in QHeads :
          Dynamic(n, b, top)[a][h] = IF a = 0 THEN Keys(n, OwnHead(h), b, top[h]) ELSE {}
    BY KvHeadOwn DEF Dynamic
  <2> QED BY <1>1, <2>1, <2>3, <2>4 DEF KeysOwned, EveryHead
<1>4. CASE set.type \in {"BLOCK_MEAN", "BLOCK_MAX"}
  <2>1. IsF16 /\ set.anchor_num = 1 /\ 0 .. 1 - 1 = {0} /\ 0 .. 0 = {0}
    BY <1>4, SettingOk DEF AnchorsMeant, KeysReadable
  <2>2. \A h \in QHeads : Anchors(n, b, top)[0][h] = Keys(n, OwnHead(h), b, AnchorSlots)
    BY <1>4, <2>1, KvHeadOwn DEF Anchors, BlockMean, BlockMax
  <2>3. \A h \in QHeads : /\ Keys(n, OwnHead(h), b, AnchorSlots) # {}
                          /\ \A k \in Keys(n, OwnHead(h), b, AnchorSlots) : OwnKey(n, b, h, k)
    BY <1>0, KeysOwn DEF OwnKey
  <2>4. 0 .. set.anchor_num - 1 = {0}
    BY <2>1
  <2> QED BY <2>4, <2>2, <2>3 DEF KeysOwned, EveryHead
<1>5. CASE set.type = "FIXED"
  <2> PICK slots : slots = {tot * (AnchorBlockLen \div set.anchor_num) : tot \in 0 .. set.anchor_num - 1}
    OBVIOUS
  <2>1. IsF16
    BY <1>5 DEF AnchorsMeant, KeysReadable
  <2>2. \A a \in 0 .. set.anchor_num - 1, h \in QHeads :
          Anchors(n, b, top)[a][h] = IF a = 0 THEN Keys(n, OwnHead(h), b, slots) ELSE {}
    BY <1>5, <2>1, KvHeadOwn DEF Anchors, FixedAnchor
  <2>3. slots \in SUBSET AnchorSlots /\ slots # {}
    BY FixedSlots
  <2>4. \A h \in QHeads : /\ Keys(n, OwnHead(h), b, slots) # {}
                          /\ \A k \in Keys(n, OwnHead(h), b, slots) : OwnKey(n, b, h, k)
    BY <2>3, KeysOwn DEF OwnKey
  <2> HIDE DEF QHeads
  <2>5. KeysOwned(n, b, Anchors(n, b, top))
    <3> SUFFICES ASSUME NEW a \in 0 .. set.anchor_num - 1, NEW h \in QHeads,
                        NEW x \in Anchors(n, b, top)[a][h]
                 PROVE  OwnKey(n, b, h, x)
      BY DEF KeysOwned
    <3>1. x \in Keys(n, OwnHead(h), b, slots)
      BY <2>2
    <3> QED BY <2>4, <3>1
  <2>6. EveryHead(Anchors(n, b, top))
    BY <1>1, <2>2, <2>4 DEF EveryHead
  <2> QED BY <2>5, <2>6
<1>6. CASE set.type = "QUEST"
  <2>1. set.kv_head_num = QHeadNum /\ set.anchor_num = 2 /\ 0 .. 2 - 1 = 0 .. 1
    BY <1>6, SettingOk DEF AnchorsMeant, HeadsMatch
  <2>2. \A h \in QHeads : h < set.kv_head_num /\ OwnHead(h) = h
    BY <2>1, KvHeadOwn, AnchorConstants DEF QHeads
  <2>3. \A a \in 0 .. set.anchor_num - 1, h \in QHeads :
          Anchors(n, b, top)[a][h] = Keys(n, OwnHead(h), b, AnchorSlots)
    <3>1. Anchors(n, b, top) = Quest(n, b)
      BY <1>6 DEF Anchors
    <3>2. Quest(n, b) \in {QuestF16(n, b), QuestQ4(n, b), QuestQ8(n, b)}
      BY SettingOk DEF Quest
    <3>3. \A a \in 0 .. 1, h \in QHeads :
            /\ QuestF16(n, b)[a][h] = Keys(n, OwnHead(h), b, AnchorSlots)
            /\ QuestQ4(n, b)[a][h] = Keys(n, OwnHead(h), b, AnchorSlots)
            /\ QuestQ8(n, b)[a][h] = Keys(n, OwnHead(h), b, AnchorSlots)
      BY <2>2 DEF QuestF16, QuestQ4, QuestQ8
    <3> QED BY <2>1, <3>1, <3>2, <3>3
  <2>4. \A h \in QHeads : /\ Keys(n, OwnHead(h), b, AnchorSlots) # {}
                          /\ \A k \in Keys(n, OwnHead(h), b, AnchorSlots) : OwnKey(n, b, h, k)
    BY <1>0, KeysOwn DEF OwnKey
  <2> QED BY <1>1, <2>3, <2>4 DEF KeysOwned, EveryHead
<1> QED BY <1>3, <1>4, <1>5, <1>6, SettingOk

-----------------------------------------------------------------------------
LEMMA InitAnchors == ASSUME AnchorInit PROVE AnchorInv
<1>1. PICK most \in Nat : most = AnchorBlocks * AnchorBlockLen
  BY AnchorConstants
<1>2. ASSUME NEW b \in Entries
      PROVE KeysOwned(anchored, b, anchor[b]) /\ ~Complete(b, anchored)
  <2>1. \A a \in 0 .. set.anchor_num - 1, h \in QHeads : anchor[b][a][h] = {}
    BY DEF AnchorInit
  <2>2. ~Complete(b, anchored)
    <3>1. anchored = 0 /\ b + 1 \in Nat \ {0}
      BY AnchorConstants DEF AnchorInit, Entries
    <3>2. PICK c \in Nat \ {0}, L \in Nat \ {0} : c = b + 1 /\ L = AnchorBlockLen
      BY <3>1, AnchorConstants
    <3>3. c * L >= 1
      BY <3>2
    <3> QED BY <3>1, <3>2, <3>3 DEF Complete
  <2> QED BY <2>1, <2>2 DEF KeysOwned
<1>3. seq_len = 0 /\ anchored = 0 /\ set \in Settings
  BY DEF AnchorInit
<1>4. seq_len <= AnchorBlocks * AnchorBlockLen
  BY <1>1, <1>3
<1> QED BY <1>2, <1>3, <1>4 DEF AnchorInv

(* A complete block is summarised. *)
LEMMA CompleteSummarised ==
  ASSUME NEW n \in Nat, NEW b \in Entries, Complete(b, n)
  PROVE  b \in Summarised(n)
<1>1. PICK L \in Nat \ {0} : L = AnchorBlockLen
  BY AnchorConstants
<1>2. b \in Nat /\ b + 1 \in Nat
  BY AnchorConstants DEF Entries
<1>3. (b + 1) * L <= n /\ (b + 1) * L \in Nat
  BY <1>1, <1>2 DEF Complete
<1>4. b + 1 <= n \div L
  BY <1>2, <1>3, DivLimit
<1>5. n + L - 1 \in Nat /\ (b + 1) * L <= n + L - 1
  BY <1>3
<1>6. b + 1 <= (n + L - 1) \div L
  <2> PICK m \in Nat : m = n + L - 1
    BY <1>5
  <2> QED BY <1>2, <1>5, DivLimit
<1>7. PICK p \in Nat, q \in Nat : p = n \div L /\ q = (n + L - 1) \div L
  <2>1. n \div L \in Nat
    BY DivMod
  <2> PICK m \in Nat : m = n + L - 1
    BY <1>5
  <2>2. m \div L \in Nat
    BY DivMod
  <2> QED BY <2>1, <2>2
<1> QED BY <1>1, <1>2, <1>4, <1>6, <1>7 DEF Summarised

LEMMA StepAnchors == ASSUME AnchorInv, [AnchorNext]_anchorVars PROVE AnchorInv'
<1>1. CASE Prefill
  <2>1. PICK n \in seq_len + 2 .. AnchorBlocks * AnchorBlockLen :
          /\ seq_len' = n /\ anchored' = n
          /\ \E top \in IF set.type = "DYNAMIC" THEN Tops ELSE {<<>>} :
               anchor' = [b \in Entries |-> IF b \in Summarised(n)
                                            THEN Anchors(n, b, top) ELSE anchor[b]]
    BY <1>1 DEF Prefill
  <2>2. PICK top \in IF set.type = "DYNAMIC" THEN Tops ELSE {<<>>} :
          anchor' = [b \in Entries |-> IF b \in Summarised(n) THEN Anchors(n, b, top) ELSE anchor[b]]
    BY <2>1
  <2>3. set' = set /\ set \in Settings
    BY <1>1 DEF Prefill, AnchorInv
  <2>4. n \in Nat /\ n <= AnchorBlocks * AnchorBlockLen
    <3>1. AnchorBlocks * AnchorBlockLen \in Nat /\ seq_len \in Nat
      BY AnchorConstants DEF AnchorInv
    <3> QED BY <3>1
  <2>5. ASSUME AnchorsMeant, NEW b \in Entries
        PROVE /\ KeysOwned(n, b, anchor'[b])
              /\ Complete(b, n) => EveryHead(anchor'[b])
    <3>1. CASE b \in Summarised(n)
      <4>1. anchor'[b] = Anchors(n, b, top)
        BY <2>2, <3>1
      <4>2. KeysOwned(n, b, Anchors(n, b, top)) /\ EveryHead(Anchors(n, b, top))
        BY <2>3, <2>4, <2>5, AnchorsOwn
      <4> QED BY <4>1, <4>2
    <3>2. CASE b \notin Summarised(n)
      <4>1. anchor'[b] = anchor[b]
        BY <2>2, <3>2
      <4>2. ~Complete(b, n)
        BY <3>2, <2>4, CompleteSummarised
      <4>3. KeysOwned(anchored, b, anchor[b])
        BY <2>5 DEF AnchorInv
      <4>4. KeysOwned(n, b, anchor[b])
        BY <4>2, <4>3 DEF KeysOwned, OwnKey
      <4> QED BY <4>1, <4>2, <4>4
    <3> QED BY <3>1, <3>2
  <2>6. /\ AnchorsMeant' <=> AnchorsMeant
        /\ \A b, A : KeysOwned(n, b, A)' <=> KeysOwned(n, b, A)
        /\ \A A : EveryHead(A)' <=> EveryHead(A)
    BY <2>3 DEF AnchorsMeant, HeadsMatch, KeysReadable, IsF16, KeysOwned, OwnKey, OwnHead, EveryHead
  <2>7. AnchorsMeant' => \A b \in Entries :
          /\ KeysOwned(anchored, b, anchor[b])'
          /\ (Complete(b, anchored) => EveryHead(anchor[b]))'
    <3> SUFFICES ASSUME AnchorsMeant', NEW b \in Entries
                 PROVE /\ KeysOwned(anchored, b, anchor[b])'
                       /\ (Complete(b, anchored) => EveryHead(anchor[b]))'
      OBVIOUS
    <3>1. AnchorsMeant
      BY <2>6
    <3>2. KeysOwned(n, b, anchor'[b]) /\ (Complete(b, n) => EveryHead(anchor'[b]))
      BY <2>5, <3>1
    <3> QED BY <2>1, <2>3, <3>2 DEF KeysOwned, OwnKey, OwnHead, EveryHead, Complete
  <2> QED BY <2>1, <2>3, <2>4, <2>7 DEF AnchorInv
<1>2. CASE Generate
  <2>1. UNCHANGED <<set, anchored, anchor>> /\ seq_len' = seq_len + 1
        /\ seq_len < AnchorBlocks * AnchorBlockLen
    BY <1>2 DEF Generate
  <2>2. seq_len' \in Nat /\ seq_len' <= AnchorBlocks * AnchorBlockLen
    <3>1. AnchorBlocks * AnchorBlockLen \in Nat /\ seq_len \in Nat
      BY AnchorConstants DEF AnchorInv
    <3> QED BY <3>1, <2>1
  <2> QED BY <2>1, <2>2 DEF AnchorInv, AnchorsMeant, HeadsMatch, KeysReadable, IsF16,
            KeysOwned, OwnKey, OwnHead, EveryHead, Complete
<1>3. CASE UNCHANGED anchorVars
  BY <1>3 DEF anchorVars, AnchorInv, AnchorsMeant, HeadsMatch, KeysReadable, IsF16,
            KeysOwned, OwnKey, OwnHead, EveryHead, Complete
<1> QED BY <1>1, <1>2, <1>3 DEF AnchorNext

-----------------------------------------------------------------------------
(* Only entries that exist compete. *)
LEMMA CompetingEntries ==
  ASSUME NEW n \in Nat, n <= AnchorBlocks * AnchorBlockLen
  PROVE  Competing(n) \subseteq Entries
<1>1. PICK L \in Nat \ {0}, q \in Nat \ {0} : L = AnchorBlockLen /\ q = AnchorBlocks
  BY AnchorConstants
<1>2. n \div L <= q /\ n \div L \in Nat
  BY <1>1, DivLimit, DivMod
<1>3. PICK d \in Nat : d = n \div L
  BY <1>2
<1>4. ASSUME NEW i \in InitBlockNum .. d - LocalBlockNum - 1 PROVE i \in 0 .. q - 1
  BY <1>2, <1>3, AnchorConstants
<1> QED BY <1>1, <1>3, <1>4 DEF Competing, Entries

(* Consecutive entries continue the first one. *)
LEMMA ConsecutiveEntries ==
  ASSUME NEW n \in Nat, Competing(n) \subseteq Entries, NEW t \in [Entries -> Entries],
         IsSeq(t, n), NEW i \in Competing(n)
  PROVE  t[InitBlockNum] + i - InitBlockNum = t[i]
<1>1. PICK first \in Nat, last \in Int :
        first = InitBlockNum /\ last = n \div AnchorBlockLen - LocalBlockNum - 1
  <2>1. PICK L \in Nat \ {0} : L = AnchorBlockLen
    BY AnchorConstants
  <2>2. PICK d \in Nat : d = n \div AnchorBlockLen
    <3>1. n \div L \in Nat
      BY DivMod
    <3> QED BY <2>1, <3>1
  <2>3. d - LocalBlockNum - 1 \in Int
    BY AnchorConstants
  <2> QED BY <2>2, <2>3, AnchorConstants
<1>2. Competing(n) = first .. last /\ Consecutive(n) = first + 1 .. last
  BY <1>1 DEF Competing, Consecutive
<1> PICK bad : bad = {k \in first .. last : t[first] + k - first # t[k]}
  OBVIOUS
<1> SUFFICES ASSUME bad # {} PROVE FALSE
  BY <1>1, <1>2
<1>3. bad \in SUBSET Nat
  BY <1>1
<1>4. PICK m \in bad : \A k \in bad : m <= k
  BY <1>3, Least
<1>5. \A k \in first .. last : t[k] \in Int
  <2>1. Entries \subseteq Int
    BY AnchorConstants DEF Entries
  <2>2. \A k \in Competing(n) : t[k] \in Entries
    OBVIOUS
  <2> QED BY <1>2, <2>1, <2>2
<1>6. m # first
  BY <1>1, <1>4, <1>5
<1>7. m \in first + 1 .. last /\ m - 1 \in first .. last
  BY <1>1, <1>4, <1>6
<1>8. t[m] = t[m - 1] + 1
  BY <1>2, <1>7 DEF IsSeq
<1>9. t[first] + (m - 1) - first = t[m - 1]
  BY <1>1, <1>4, <1>7
<1> QED BY <1>1, <1>4, <1>5, <1>7, <1>8, <1>9

(* Where it looks the block up once, an entry is compared by the anchors   *)
(* of its block.                                                           *)
LEMMA OwnBlock ==
  ASSUME set \in Settings, NEW n \in Nat, Competing(n) \subseteq Entries,
         NEW t \in [Entries -> Entries], NEW i \in Competing(n),
         set.retrieval = "KVHEAD" \/ set.anchor_num > 1 \/ IsSeq(t, n)
  PROVE  AnchorBlock(t, n, i) = t[i]
<1>1. set.anchor_num > 1 => set.anchor_num # 1
  BY SettingOk
<1> QED BY <1>1, ConsecutiveEntries
        DEF AnchorBlock, AnchorBlockKvHead, AnchorBlockLayers, AnchorBlockLayer

RankInv == AnchorInv /\ RankedByOwnKeys

LEMMA RankInit == ASSUME AnchorInit PROVE RankInv
<1>1. seq_len = 0 /\ seq_len <= AnchorBlocks * AnchorBlockLen /\ AnchorInv
  BY InitAnchors DEF AnchorInit, AnchorInv
<1>2. Competing(seq_len) \subseteq Entries
  BY <1>1, CompetingEntries
<1>3. \A i \in Competing(seq_len) : block_similar[i] = {}
  BY <1>2 DEF AnchorInit
<1> QED BY <1>1, <1>3 DEF RankInv, RankedByOwnKeys

LEMMA StepRanked == ASSUME RankInv, [AnchorNext]_anchorVars PROVE RankInv'
<1>1. AnchorInv /\ AnchorInv' /\ RankedByOwnKeys
  BY StepAnchors DEF RankInv
<1>2. seq_len' \in Nat /\ Competing(seq_len') \subseteq Entries
  BY <1>1, CompetingEntries DEF AnchorInv
<1>3. CASE Prefill
  <2>1. \A i \in Competing(seq_len') : block_similar'[i] = {}
    BY <1>2, <1>3 DEF Prefill
  <2> QED BY <1>1, <2>1 DEF RankInv, RankedByOwnKeys
<1>4. CASE Generate
  <2>1. PICK n \in Nat, t \in [Entries -> Entries] : n = seq_len' /\ t = table'
    BY <1>2, <1>4 DEF Generate, Bijection, Injection
  <2>2. /\ UNCHANGED <<set, anchored, anchor>>
        /\ block_similar' = [i \in Entries |-> IF i \in Competing(n) THEN SimilarKeys(t, n, i) ELSE {}]
    BY <1>4, <2>1 DEF Generate
  <2>3. ASSUME AnchorsMeant, set.retrieval = "KVHEAD" \/ set.anchor_num > 1 \/ IsSeq(t, n),
               NEW i \in Competing(n)
        PROVE  /\ \A hk \in block_similar'[i] :
                    OwnKey(anchored, t[i], hk[1], hk[2])
               /\ Complete(t[i], anchored) => {hk[1] : hk \in block_similar'[i]} = QHeads
    <3>1. i \in Entries /\ t[i] \in Entries /\ set \in Settings
      BY <1>1, <1>2, <2>1 DEF AnchorInv
    <3>2. AnchorBlock(t, n, i) = t[i]
      BY <1>2, <2>1, <2>3, <3>1, OwnBlock
    <3>3. block_similar'[i] = UNION {{<<h, k>> : k \in anchor[t[i]][a][h]} :
                                       a \in 0 .. set.anchor_num - 1, h \in QHeads}
      BY <2>2, <3>1, <3>2 DEF SimilarKeys
    <3>4. /\ KeysOwned(anchored, t[i], anchor[t[i]])
          /\ Complete(t[i], anchored) => EveryHead(anchor[t[i]])
      BY <1>1, <2>3, <3>1 DEF AnchorInv
    <3>5. ASSUME NEW hk \in block_similar'[i]
          PROVE hk[1] \in QHeads /\ OwnKey(anchored, t[i], hk[1], hk[2])
      <4>1. PICK a \in 0 .. set.anchor_num - 1, h \in QHeads :
              \E k \in anchor[t[i]][a][h] : hk = <<h, k>>
        BY <3>3
      <4>2. PICK k \in anchor[t[i]][a][h] : hk = <<h, k>>
        BY <4>1
      <4>3. hk[1] = h /\ hk[2] = k
        BY <4>2
      <4> QED BY <3>4, <4>2, <4>3 DEF KeysOwned
    <3>6. ASSUME Complete(t[i], anchored), NEW h \in QHeads
          PROVE h \in {hk[1] : hk \in block_similar'[i]}
      <4>1. PICK a \in 0 .. set.anchor_num - 1 : anchor[t[i]][a][h] # {}
        BY <3>4, <3>6 DEF EveryHead
      <4>2. PICK k : k \in anchor[t[i]][a][h]
        BY <4>1
      <4>3. PICK part : part = {<<h, y>> : y \in anchor[t[i]][a][h]}
        OBVIOUS
      <4>6. part \in {{<<g, y>> : y \in anchor[t[i]][c][g]} :
                         c \in 0 .. set.anchor_num - 1, g \in QHeads}
        BY <4>3
      <4>7. <<h, k>> \in part
        BY <4>2, <4>3
      <4>5. <<h, k>> \in block_similar'[i]
        BY <3>3, <4>6, <4>7
      <4>4. <<h, k>>[1] = h
        OBVIOUS
      <4> QED BY <4>5, <4>4
    <3> QED BY <3>5, <3>6
  <2>4. ASSUME (HeadsMatch /\ KeysReadable /\ LooksUpOnce)'
        PROVE  AnchorsMeant /\ (set.retrieval = "KVHEAD" \/ set.anchor_num > 1 \/ IsSeq(t, n))
    <3>1. (set.retrieval = "KVHEAD" \/ set.anchor_num > 1 \/ IsSeq(table, seq_len))'
      BY <2>4 DEF LooksUpOnce
    <3>2. IsSeq(table, seq_len)' <=> IsSeq(t, n)
      BY <2>1 DEF IsSeq, Consecutive
    <3> QED BY <2>2, <2>4, <3>1, <3>2 DEF AnchorsMeant, HeadsMatch, KeysReadable, IsF16
  <2>5. RankedByOwnKeys'
    <3> SUFFICES ASSUME (HeadsMatch /\ KeysReadable /\ LooksUpOnce)', NEW i \in Competing(n)
                 PROVE  (LET complete == (table[i] + 1) * AnchorBlockLen <= anchored IN
                          /\ \A hk \in block_similar[i] :
                               LET h == hk[1]
                                   k == hk[2]
                               IN \/ k # NoKey /\ k[1] = (h * set.kv_head_num) \div QHeadNum /\ k[2] = table[i]
                                  \/ k = NoKey /\ ~complete
                          /\ complete /\ block_similar[i] # {}
                             => {hk[1] : hk \in block_similar[i]} = QHeads)'
      BY <2>1 DEF RankedByOwnKeys, Competing
    <3>1. /\ \A hk \in block_similar'[i] : OwnKey(anchored, t[i], hk[1], hk[2])
          /\ Complete(t[i], anchored) => {hk[1] : hk \in block_similar'[i]} = QHeads
      BY <2>3, <2>4
    <3> QED BY <2>1, <2>2, <3>1 DEF OwnKey, OwnHead, Complete
  <2> QED BY <1>1, <2>5 DEF RankInv
<1>5. CASE UNCHANGED anchorVars
  <2>1. RankedByOwnKeys'
    BY <1>1, <1>5 DEF anchorVars, RankedByOwnKeys, HeadsMatch, KeysReadable, LooksUpOnce, IsF16,
              IsSeq, Consecutive, Competing
  <2> QED BY <1>1, <2>1 DEF RankInv
<1> QED BY <1>3, <1>4, <1>5 DEF AnchorNext

(* Where the ranking is meant to work, whatever the settings, the prompts, *)
(* the order of the selected blocks and the size of the cache: a block     *)
(* competes by keys of its own and of the kv head of each query head, and  *)
(* a block complete at the last prompt by all heads.                       *)
THEOREM ComparedByOwnKeys == AnchorSpec => []RankedByOwnKeys
<1>1. AnchorInit => RankInv
  BY RankInit
<1>2. RankInv /\ [AnchorNext]_anchorVars => RankInv'
  BY StepRanked
<1>3. RankInv => RankedByOwnKeys
  BY DEF RankInv
<1> QED BY <1>1, <1>2, <1>3, PTL DEF AnchorSpec

-----------------------------------------------------------------------------
(***************************************************************************)
(* MoERouting: a gate takes the best experts of the groups it chose.       *)
(***************************************************************************)

Inside(groups) == {e \in MoeExperts : \E g \in groups : e \in Group(g)}
Positive(f, E) == {e \in E : f[e] > 0}

(* What RoutedByGroup says of the biased scores f, for one choice. *)
ByGroup(f, groups, S) ==
  /\ S \subseteq Inside(groups) \/ Cardinality(Positive(f, Inside(groups))) < TopK
  /\ \A e \in S \cap Inside(groups), d \in Inside(groups) \ S : f[d] <= f[e]

LEMMA ExpertsFinite == IsFiniteSet(MoeExperts) /\ TopK \in Nat
<1>1. RoutedExperts \in Nat /\ TopK \in Nat
  BY MoERoutingAssumption
<1>2. 0 \in Int /\ RoutedExperts - 1 \in Int
  BY <1>1
<1> QED BY <1>1, <1>2, FS_Interval DEF MoeExperts

(* An expert of another group is masked with 0, which no positive score of *)
(* a chosen group that is left out can be below.                           *)
LEMMA MaskedChoice ==
  ASSUME NEW f \in [MoeExperts -> Int], NEW groups,
         NEW S \in TopKOf(Masked(f, groups), TopK)
  PROVE  ByGroup(f, groups, S)
<1> DEFINE Chosen == Inside(groups)
           masked == Masked(f, groups)
<1>1. /\ masked = [e \in MoeExperts |-> IF e \in Chosen THEN f[e] ELSE 0]
      /\ Chosen \subseteq MoeExperts
  BY DEF Masked, Inside
<1>2. /\ S \subseteq MoeExperts /\ Cardinality(S) = TopK
      /\ \A e \in S, d \in MoeExperts \ S : masked[d] <= masked[e]
  BY <1>1 DEF TopKOf, kSubset
<1>3. \A e \in S \cap Chosen, d \in Chosen \ S : f[d] <= f[e]
  <2> SUFFICES ASSUME NEW e \in S \cap Chosen, NEW d \in Chosen \ S PROVE f[d] <= f[e]
    OBVIOUS
  <2>1. masked[d] = f[d] /\ masked[e] = f[e] /\ d \in MoeExperts \ S
    BY <1>1
  <2> HIDE DEF masked
  <2> QED BY <1>2, <2>1
<1>4. ASSUME ~(S \subseteq Chosen) PROVE Cardinality(Positive(f, Chosen)) < TopK
  <2>1. PICK e \in S : e \notin Chosen
    BY <1>4
  <2>2. masked[e] = 0
    BY <1>1, <1>2, <2>1
  <2>3. Positive(f, Chosen) \subseteq S \ {e}
    <3> SUFFICES ASSUME NEW d \in Chosen, f[d] > 0, d \notin S PROVE FALSE
      BY <2>1 DEF Positive
    <3>1. masked[d] = f[d] /\ d \in MoeExperts \ S /\ f[d] \in Int
      BY <1>1
    <3>2. masked[d] <= masked[e]
      <4> HIDE DEF masked
      <4> QED BY <1>2, <3>1, <2>1
    <3> QED BY <3>1, <3>2, <2>2
  <2>4. IsFiniteSet(S)
    BY <1>2, ExpertsFinite, FS_Subset
  <2>5. IsFiniteSet(S \ {e}) /\ Cardinality(S \ {e}) = TopK - 1
    BY <2>1, <2>4, <1>2, FS_RemoveElement
  <2>6. Cardinality(Positive(f, Chosen)) <= TopK - 1 /\ IsFiniteSet(Positive(f, Chosen))
    BY <2>3, <2>5, FS_Subset
  <2>7. Cardinality(Positive(f, Chosen)) \in Nat
    BY <2>6, FS_CardinalityType
  <2> QED BY <2>6, <2>7, ExpertsFinite
<1> QED BY <1>3, <1>4 DEF ByGroup

(* Without groups, or in all of them, nothing is masked. *)
LEMMA FreeChoice ==
  ASSUME NEW f \in [MoeExperts -> Int], NEW S \in TopKOf(f, TopK)
  PROVE  ByGroup(f, Groups, S)
<1>1. /\ S \subseteq MoeExperts
      /\ \A e \in S, d \in MoeExperts \ S : f[d] <= f[e]
  BY DEF TopKOf, kSubset
<1>2. Inside(Groups) = MoeExperts
  <2> DEFINE size == RoutedExperts \div NGroup
  <2> SUFFICES ASSUME NEW e \in MoeExperts PROVE \E g \in Groups : e \in Group(g)
    BY DEF Inside
  <2>1. /\ RoutedExperts \in Nat \ {0} /\ NGroup \in Nat \ {0} /\ size >= 2
        /\ RoutedExperts % NGroup = 0 /\ e \in Nat /\ e < RoutedExperts
    BY MoERoutingAssumption DEF MoeExperts
  <2>0. PICK m \in Nat, n \in Nat \ {0} : m = RoutedExperts /\ n = NGroup
    BY <2>1
  <2>2. m = (m \div n) * n + (m % n) /\ m \div n \in Nat
    BY <2>0, DivMod
  <2>9. RoutedExperts = size * NGroup + (RoutedExperts % NGroup) /\ size \in Nat
    BY <2>0, <2>2
  <2>3. PICK s \in Nat \ {0} : s = size /\ s >= 2
    BY <2>1, <2>9
  <2>4. e \div s \in Nat /\ e = (e \div s) * s + (e % s) /\ e % s \in 0 .. s - 1
    <3> HIDE DEF size
    <3> QED BY <2>1, <2>3, DivMod
  <2>5. e \div s < NGroup
    <3> PICK q \in Nat : q = e \div s
      BY <2>4
    <3>1. RoutedExperts = s * NGroup
      BY <2>1, <2>9, <2>3
    <3>2. q * s <= e
      BY <2>1, <2>3, <2>4
    <3>3. q * s < s * NGroup
      BY <3>1, <3>2, <2>1, <2>3
    <3>4. q >= NGroup => q * s >= s * NGroup
      BY <2>1, <2>3
    <3> QED BY <3>3, <3>4, <2>1, <2>3
  <2>6. e \div s \in Groups
    BY <2>4, <2>5, <2>1 DEF Groups
  <2> QED BY <2>6, <2>3 DEF Group
<1> QED BY <1>1, <1>2 DEF ByGroup

-----------------------------------------------------------------------------
GateTypes ==
  /\ gate # NoGate => gate \in Gates

RInv == GateTypes /\ RoutedByGroup

LEMMA PickedByGroup ==
  ASSUME NEW S, NEW groups, NEW scaled,
         ByGroup(Biased, groups, S), gate' = gate,
         picked' = Pick(S, groups, scaled)
  PROVE  RoutedByGroup'
<1>1. /\ picked'.groups = groups /\ picked'.experts = S
      /\ picked'.weights = Weights(S, Normalised, scaled)
  BY DEF Pick
<1>2. \A e \in S : /\ Weights(S, Normalised, scaled)[e].score = gate.scores[e]
                   /\ Weights(S, Normalised, scaled)[e].over \in {{}, S}
  BY DEF Weights, OwnWeight
<1>3. Biased' = Biased
  BY DEF Biased
<1> QED BY <1>1, <1>2, <1>3 DEF RoutedByGroup, ByGroup, Inside, Positive

LEMMA GateBiased ==
  ASSUME gate \in Gates
  PROVE  /\ Biased \in [MoeExperts -> Int] /\ gate.scores \in [MoeExperts -> Int]
         /\ gate.method \in {"greedy", "group_limited_greedy"} => Biased = gate.scores
<1>1. Scores \subseteq Nat /\ Biases \subseteq Int
  BY MoERoutingAssumption
<1>2. /\ gate.scores \in [MoeExperts -> Scores]
      /\ gate.bias = [e \in MoeExperts |-> 0] \/ gate.bias \in [MoeExperts -> Biases]
      /\ gate.method \in {"greedy", "group_limited_greedy"} => gate.bias = [e \in MoeExperts |-> 0]
  BY DEF Gates
<1>3. \A e \in MoeExperts : gate.scores[e] \in Int /\ gate.bias[e] \in Int
  <2> PICK s, b : s = gate.scores /\ b = gate.bias
    OBVIOUS
  <2>4. s \in [MoeExperts -> Scores]
    BY <1>2
  <2>1. \A e \in MoeExperts : s[e] \in Int
    <3> SUFFICES ASSUME NEW e \in MoeExperts PROVE s[e] \in Int
      OBVIOUS
    <3>1. s[e] \in Scores
      BY <2>4
    <3>2. Scores \subseteq Int
      BY <1>1
    <3> QED BY <3>1, <3>2
  <2>2. CASE b = [e \in MoeExperts |-> 0]
    BY <2>1, <2>2
  <2>3. CASE b \in [MoeExperts -> Biases]
    BY <1>1, <2>1, <2>3
  <2> QED BY <1>2, <2>2, <2>3
<1>4. gate.scores \in [MoeExperts -> Int]
  BY <1>2, <1>3
<1>5. Biased \in [MoeExperts -> Int]
  BY <1>3 DEF Biased
<1>6. ASSUME gate.method \in {"greedy", "group_limited_greedy"} PROVE Biased = gate.scores
  <2>1. \A e \in MoeExperts : gate.scores[e] + gate.bias[e] = gate.scores[e]
    BY <1>2, <1>3, <1>6
  <2> QED BY <2>1, <1>2 DEF Biased
<1> QED BY <1>4, <1>5, <1>6

LEMMA StepByGroup ==
  ASSUME RInv, [MoeNext]_moeVars PROVE RInv'
<1> SUFFICES ASSUME MoeNext PROVE RInv'
  <2> SUFFICES ASSUME UNCHANGED moeVars PROVE RInv'
    OBVIOUS
  <2> QED
    BY DEF moeVars, RInv, GateTypes, RoutedByGroup, Biased
<1>1. CASE UNCHANGED <<gate, picked>>
  BY <1>1 DEF RInv, GateTypes, RoutedByGroup, Biased
<1>2. CASE Greedy
  <2>1. PICK S \in TopKOf(gate.scores, TopK) : picked' = Pick(S, Groups, ~Normalised)
    BY <1>2 DEF Greedy
  <2>2. gate' = gate /\ gate \in Gates /\ gate.method = "greedy"
    BY <1>2 DEF Greedy, RInv, GateTypes, NoGate
  <2>3. ByGroup(Biased, Groups, S)
    BY <2>2, GateBiased, FreeChoice
  <2> QED BY <2>1, <2>2, <2>3, PickedByGroup DEF RInv, GateTypes
<1>3. CASE GroupLimitedGreedy
  <2>0. PICK groups : \E S \in TopKOf(Masked(gate.scores, groups), TopK) :
                        picked' = Pick(S, groups, ~Normalised)
    BY <1>3 DEF GroupLimitedGreedy
  <2>1. PICK S \in TopKOf(Masked(gate.scores, groups), TopK) :
          picked' = Pick(S, groups, ~Normalised)
    BY <2>0
  <2>2. gate' = gate /\ gate \in Gates /\ gate.method = "group_limited_greedy"
    BY <1>3 DEF GroupLimitedGreedy, RInv, GateTypes, NoGate
  <2>3. ByGroup(Biased, groups, S)
    BY <2>2, <2>1, GateBiased, MaskedChoice
  <2> QED BY <2>1, <2>2, <2>3, PickedByGroup DEF RInv, GateTypes
<1>4. CASE NoauxTc \/ GroupedTopk
  <2>0. PICK groups : \E S \in TopKOf(Masked(Biased, groups), TopK) :
                        picked' = Pick(S, groups, TRUE)
    BY <1>4 DEF NoauxTc, GroupedTopk, PickBiased
  <2>1. PICK S \in TopKOf(Masked(Biased, groups), TopK) : picked' = Pick(S, groups, TRUE)
    BY <2>0
  <2>2. gate' = gate /\ gate \in Gates
    BY <1>4 DEF NoauxTc, GroupedTopk, RInv, GateTypes, NoGate
  <2>3. ByGroup(Biased, groups, S)
    BY <2>2, <2>1, GateBiased, MaskedChoice
  <2> QED BY <2>1, <2>2, <2>3, PickedByGroup DEF RInv, GateTypes
<1>5. CASE Route
  BY <1>5, <1>1 DEF Route
<1>6. CASE \/ DeepseekMoE \/ Qwen2MoeSparseMoeBlock \/ MixtralSparseMoeBlock
           \/ KQwen2MoeSparseMoeBlock \/ KMistralSparseMoEBlock
           \/ KDeepseekV2MoE \/ KDeepseekV3MoE
  BY <1>6, <1>1 DEF DeepseekMoE, Qwen2MoeSparseMoeBlock, MixtralSparseMoeBlock,
       KQwen2MoeSparseMoeBlock, KMistralSparseMoEBlock, KDeepseekV2MoE, KDeepseekV3MoE, Returns
<1> QED BY <1>2, <1>3, <1>4, <1>5, <1>6 DEF MoeNext

(* RoutedByGroup: groups, biases and masks of any gate, for any scores.    *)
THEOREM BestOfTheirGroups == MoeSpec => []RoutedByGroup
<1>1. ASSUME MoeInit PROVE RInv
  BY <1>1 DEF MoeInit, RInv, GateTypes, RoutedByGroup
<1>2. RInv /\ [MoeNext]_moeVars => RInv'
  BY StepByGroup
<1>3. RInv => RoutedByGroup
  BY DEF RInv
<1> QED BY <1>1, <1>2, <1>3, PTL DEF MoeSpec

-----------------------------------------------------------------------------
(***************************************************************************)
(* MoERouting: a block gives each token to its experts.  The rows of       *)
(* moe_infer are sorted by expert, so those of an expert (and, with        *)
(* several ranks, those of a rank) are together, at the place the counts   *)
(* say; what is computed for a row comes back to where the row came from.  *)
(***************************************************************************)

(* A function on 1 .. k is a sequence. *)
LEMMA FunctionSeq ==
  ASSUME NEW S, NEW k \in Nat, NEW f \in [1 .. k -> S]
  PROVE  f \in Seq(S) /\ Len(f) = k /\ DOMAIN f = 1 .. k
OBVIOUS

(* argsort: the ranks of n keys are 1 .. n, so each row has one place, and *)
(* keys ascend by row.                                                     *)
RanksOf(rank, s, ties, n) ==
  /\ rank \in [1 .. n -> 1 .. n]
  /\ \A p, q \in 1 .. n : Before(s, ties, p, q) => rank[p] < rank[q]
  /\ \A p, q \in 1 .. n : rank[p] = rank[q] => p = q
  /\ \A row \in 1 .. n : \E p \in 1 .. n : rank[p] = row

LEMMA Ranked ==
  ASSUME NEW n \in Nat, NEW s \in [1 .. n -> Int], NEW ties
  PROVE  RanksOf([p \in 1 .. n |-> Rank(s, ties, p)], s, ties, n)
<1> PICK rank : rank = [p \in 1 .. n |-> Rank(s, ties, p)]
  OBVIOUS
<1> DEFINE below(p) == {q \in 1 .. n : Before(s, ties, q, p)}
<1> PICK count : count = [p \in 1 .. n |-> Cardinality(below(p))]
  OBVIOUS
<1>1. \A p \in 1 .. n : rank[p] = count[p] + 1
  BY DEF Rank
<1>2. \A p, q, r \in 1 .. n :
        /\ ~Before(s, ties, p, p)
        /\ p = q \/ Before(s, ties, p, q) \/ Before(s, ties, q, p)
        /\ Before(s, ties, p, q) /\ Before(s, ties, q, r) => Before(s, ties, p, r)
  BY DEF Before
<1>3. IsFiniteSet(1 .. n) /\ Cardinality(1 .. n) = n
  BY FS_Interval
<1>4. \A p \in 1 .. n : IsFiniteSet(below(p)) /\ count[p] \in Nat /\ count[p] <= n - 1
  <2> TAKE p \in 1 .. n
  <2>1. below(p) \in SUBSET ((1 .. n) \ {p})
    BY <1>2
  <2>2. IsFiniteSet((1 .. n) \ {p}) /\ Cardinality((1 .. n) \ {p}) = n - 1
    BY <1>3, FS_RemoveElement
  <2> QED BY <2>1, <2>2, FS_Subset, FS_CardinalityType
<1>5. ASSUME NEW p \in 1 .. n, NEW q \in 1 .. n, Before(s, ties, p, q)
      PROVE  count[p] < count[q]
  <2>1. below(p) \in SUBSET (below(q) \ {p}) /\ p \in below(q)
    BY <1>2, <1>5
  <2>2. IsFiniteSet(below(q) \ {p}) /\ Cardinality(below(q) \ {p}) = Cardinality(below(q)) - 1
    BY <1>4, <2>1, FS_RemoveElement
  <2>3. Cardinality(below(p)) <= Cardinality(below(q)) - 1
    BY <2>1, <2>2, FS_Subset
  <2>4. count[p] <= count[q] - 1
    BY <2>3
  <2>5. count[p] \in Nat /\ count[q] \in Nat
    BY <1>4
  <2> HIDE DEF below
  <2> QED BY <2>4, <2>5
<1> HIDE DEF below
<1>6. rank \in [1 .. n -> 1 .. n]
  <2>1. \A p \in 1 .. n : rank[p] \in 1 .. n
    <3> TAKE p \in 1 .. n
    <3>1. count[p] \in Nat /\ count[p] <= n - 1 /\ rank[p] = count[p] + 1
      BY <1>1, <1>4
    <3> QED BY <3>1
  <2> QED BY <2>1
<1>7. \A p, q \in 1 .. n : Before(s, ties, p, q) => rank[p] < rank[q]
  BY <1>1, <1>4, <1>5
<1>8. \A p, q \in 1 .. n : rank[p] = rank[q] => p = q
  <2> TAKE p, q \in 1 .. n
  <2>1. rank[p] \in Int /\ rank[q] \in Int
    BY <1>6
  <2> QED BY <2>1, <1>2, <1>7
<1>9. \A row \in 1 .. n : \E p \in 1 .. n : rank[p] = row
  <2>1. rank \in Injection(1 .. n, 1 .. n)
    BY <1>6, <1>8 DEF Injection, IsInjective
  <2>2. rank \in Surjection(1 .. n, 1 .. n)
    BY <2>1, <1>3, FS_Injection
  <2> QED BY <2>2 DEF Surjection
<1> QED BY <1>6, <1>7, <1>8, <1>9 DEF RanksOf

(* A permutation of the places, and keys ascend along it. *)
Sorts(idxs, s, n) ==
  /\ idxs \in [1 .. n -> 1 .. n]
  /\ \A a, b \in 1 .. n : idxs[a] = idxs[b] => a = b
  /\ \A p \in 1 .. n : \E a \in 1 .. n : idxs[a] = p
  /\ \A a, b \in 1 .. n : a < b => s[idxs[a]] <= s[idxs[b]]

LEMMA ArgsortSorts ==
  ASSUME NEW n \in Nat, NEW s \in [1 .. n -> Int], NEW ties
  PROVE  Sorts(Argsort(s, ties), s, n)
<1> PICK idxs : idxs = Argsort(s, ties)
  OBVIOUS
<1> PICK rank : rank = [p \in 1 .. n |-> Rank(s, ties, p)]
  OBVIOUS
<1>1. idxs = [row \in 1 .. n |-> CHOOSE p \in 1 .. n : rank[p] = row]
  <2>1. s \in Seq(Int) /\ DOMAIN s = 1 .. n
    BY FunctionSeq
  <2>2. s \o <<>> = s
    BY <2>1, ConcatEmptySeq
  <2> QED BY <2>1, <2>2 DEF Argsort
<1>2. /\ rank \in [1 .. n -> 1 .. n]
      /\ \A p, q \in 1 .. n : Before(s, ties, p, q) => rank[p] < rank[q]
      /\ \A p, q \in 1 .. n : rank[p] = rank[q] => p = q
      /\ \A row \in 1 .. n : \E p \in 1 .. n : rank[p] = row
  <2>1. RanksOf(rank, s, ties, n)
    BY Ranked, Zenon
  <2> QED BY <2>1 DEF RanksOf
<1>3. \A row \in 1 .. n : idxs[row] \in 1 .. n /\ rank[idxs[row]] = row
  BY <1>1, <1>2
<1>4. idxs \in [1 .. n -> 1 .. n]
  BY <1>1, <1>3
<1>5. \A a, b \in 1 .. n : idxs[a] = idxs[b] => a = b
  BY <1>3
<1>6. \A p \in 1 .. n : \E a \in 1 .. n : idxs[a] = p
  <2> SUFFICES ASSUME NEW p \in 1 .. n PROVE \E a \in 1 .. n : idxs[a] = p
    OBVIOUS
  <2>1. PICK a \in 1 .. n : rank[p] = a
    BY <1>2
  <2>2. rank[idxs[a]] = rank[p] /\ idxs[a] \in 1 .. n
    BY <2>1, <1>3
  <2> QED BY <2>2, <1>2
<1>7. ASSUME NEW a \in 1 .. n, NEW b \in 1 .. n, a < b PROVE s[idxs[a]] <= s[idxs[b]]
  <2>1. PICK p \in 1 .. n, q \in 1 .. n : p = idxs[a] /\ q = idxs[b]
    BY <1>3
  <2>2. rank[p] = a /\ rank[q] = b
    BY <2>1, <1>3
  <2>3. ~Before(s, ties, q, p)
    BY <1>2, <1>7, <2>2
  <2> QED BY <2>1, <2>3 DEF Before
<1> QED BY <1>4, <1>5, <1>6, <1>7 DEF Sorts

(* Slices: their lengths, when they count the places of each key.          *)
Keyed(A, key, S) == {a \in A : key[a] \in S}
Counts(counts, A, key, S) ==
  \A d \in S : counts[d] = Cardinality({a \in A : key[a] = d})

(* So many rows have a key of S. *)
LEMMA TotalCount ==
  ASSUME NEW A, IsFiniteSet(A), NEW key, NEW S, NEW counts, Counts(counts, A, key, S)
  PROVE  Total(counts, S) = Cardinality(Keyed(A, key, S))
<1> USE DEF Counts, Keyed
<1> DEFINE at(d) == {a \in A : key[a] = d}
           T == {a \in A : key[a] \in S}
           U == UNION {{d} \X (1 .. counts[d]) : d \in S}
<1>1. \A d \in S : counts[d] \in Nat /\ ExistsBijection(1 .. counts[d], at(d))
  <2> TAKE d \in S
  <2>1. IsFiniteSet(at(d))
    BY FS_Subset
  <2> QED BY <2>1, FS_CardinalityType
<1>2. IsFiniteSet(T)
  BY FS_Subset
<1> PICK pick : pick = [d \in S |-> CHOOSE f : f \in Bijection(1 .. counts[d], at(d))]
  OBVIOUS
<1>3. \A d \in S : pick[d] \in Bijection(1 .. counts[d], at(d))
  BY <1>1 DEF ExistsBijection
<1>4. \A d \in S : \A i \in 1 .. counts[d] : pick[d][i] \in A /\ key[pick[d][i]] = d
  BY <1>3 DEF Bijection, Injection
<1>5. \A d \in S : \A i, j \in 1 .. counts[d] : pick[d][i] = pick[d][j] => i = j
  <2> SUFFICES ASSUME NEW d \in S
               PROVE  \A i, j \in 1 .. counts[d] : pick[d][i] = pick[d][j] => i = j
    OBVIOUS
  <2>1. pick[d] \in [1 .. counts[d] -> at(d)] /\ IsInjective(pick[d])
    BY <1>3 DEF Bijection, Injection
  <2>2. DOMAIN pick[d] = 1 .. counts[d]
    BY <2>1
  <2> QED BY <2>1, <2>2 DEF IsInjective
<1>6. \A d \in S : \A a \in at(d) : \E i \in 1 .. counts[d] : pick[d][i] = a
  BY <1>3 DEF Bijection, Surjection
<1>7. \A w \in U : w[1] \in S /\ w[2] \in 1 .. counts[w[1]] /\ w = <<w[1], w[2]>>
  OBVIOUS
<1>8. \A d \in S : \A i \in 1 .. counts[d] : <<d, i>> \in U
  OBVIOUS
<1> HIDE DEF U
<1> PICK m : m = [w \in U |-> pick[w[1]][w[2]]]
  OBVIOUS
<1>9. \A w \in U : m[w] \in A /\ key[m[w]] = w[1]
  BY <1>4, <1>7
<1>10. m \in [U -> T]
  BY <1>7, <1>9
<1>11. \A v, w \in U : m[v] = m[w] => v = w
  <2> SUFFICES ASSUME NEW v \in U, NEW w \in U, m[v] = m[w] PROVE v = w
    OBVIOUS
  <2>1. key[m[v]] = v[1] /\ key[m[w]] = w[1]
    BY <1>9
  <2>2. v[1] = w[1]
    BY <2>1
  <2>3. pick[v[1]][v[2]] = pick[v[1]][w[2]]
    BY <2>2
  <2>4. v[1] \in S /\ v[2] \in 1 .. counts[v[1]] /\ w[2] \in 1 .. counts[v[1]]
    BY <2>2, <1>7
  <2>5. v[2] = w[2]
    BY <2>3, <2>4, <1>5
  <2> QED BY <2>2, <2>5, <1>7
<1>12. m \in Injection(U, T)
  BY <1>10, <1>11 DEF Injection, IsInjective
<1>13. \A a \in T : \E w \in U : m[w] = a
  <2> SUFFICES ASSUME NEW a \in T PROVE \E w \in U : m[w] = a
    OBVIOUS
  <2>1. PICK i \in 1 .. counts[key[a]] : pick[key[a]][i] = a
    BY <1>6
  <2>2. <<key[a], i>> \in U
    BY <1>8
  <2>3. m[<<key[a], i>>] = a
    BY <2>1, <2>2
  <2> QED BY <2>2, <2>3
<1>14. m \in Surjection(U, T)
  BY <1>10, <1>13 DEF Surjection
<1>15. Cardinality(U) = Cardinality(T)
  BY <1>2, <1>12, <1>14, FS_Injection
<1> QED BY <1>15 DEF Total, U

(* Rows 1 .. n with ascending keys z are cut in slices by the counts.      *)
Slices(counts, z, n, m) ==
  /\ \A e \in 0 .. m - 1 : /\ StartIdx(counts, e) \in Nat
                           /\ StartIdx(counts, e) + counts[e] <= n
  /\ \A row \in 1 .. n, e \in 0 .. m - 1 :
       z[row] = e <=> StartIdx(counts, e) < row /\ row <= StartIdx(counts, e) + counts[e]
  /\ \A row \in 1 .. n : SliceOf(counts, row) = z[row]

LEMMA SortedSlices ==
  ASSUME NEW n \in Nat, NEW m \in Nat, NEW z \in [1 .. n -> 0 .. m - 1],
         \A a, b \in 1 .. n : a < b => z[a] <= z[b],
         NEW counts, DOMAIN counts = 0 .. m - 1,
         Counts(counts, 1 .. n, z, 0 .. m - 1)
  PROVE  Slices(counts, z, n, m)
<1> DEFINE less(e) == {a \in 1 .. n : z[a] < e}
           upto(e) == {a \in 1 .. n : z[a] <= e}
           at(e) == {a \in 1 .. n : z[a] = e}
<1>0. IsFiniteSet(1 .. n)
  BY FS_Interval
<1>1a. \A e \in 0 .. m - 1 : counts[e] = Cardinality(at(e))
  BY DEF Counts
<1>1. ASSUME NEW e \in 0 .. m - 1 PROVE StartIdx(counts, e) = Cardinality(less(e))
  <2> DEFINE D == {d \in DOMAIN counts : d < e}
  <2>0. Counts(counts, 1 .. n, z, D)
    BY DEF Counts
  <2>1. Total(counts, D) = Cardinality(Keyed(1 .. n, z, D))
    <3> HIDE DEF D
    <3> QED BY <1>0, <2>0, TotalCount
  <2>2. Keyed(1 .. n, z, D) = less(e)
    BY DEF Keyed
  <2> QED BY <2>1, <2>2 DEF StartIdx
<1>2. ASSUME NEW e \in 0 .. m - 1
      PROVE  Cardinality(less(e)) \in 0 .. n /\ less(e) = 1 .. Cardinality(less(e))
  <2>1. less(e) \in SUBSET (1 .. n) /\ \A a \in less(e) : \A b \in 1 .. n : b < a => b \in less(e)
    OBVIOUS
  <2> HIDE DEF less
  <2> QED BY <2>1, InitialSegment
<1>3. ASSUME NEW e \in 0 .. m - 1
      PROVE  Cardinality(upto(e)) \in 0 .. n /\ upto(e) = 1 .. Cardinality(upto(e))
  <2>1. upto(e) \in SUBSET (1 .. n) /\ \A a \in upto(e) : \A b \in 1 .. n : b < a => b \in upto(e)
    OBVIOUS
  <2> HIDE DEF upto
  <2> QED BY <2>1, InitialSegment
<1>4. ASSUME NEW e \in 0 .. m - 1
      PROVE  Cardinality(upto(e)) = Cardinality(less(e)) + counts[e]
  <2>1. upto(e) = less(e) \cup at(e) /\ less(e) \cap at(e) = {}
    OBVIOUS
  <2>2. IsFiniteSet(less(e)) /\ IsFiniteSet(at(e))
    BY <1>0, FS_Subset
  <2>3. Cardinality({}) = 0 /\ Cardinality(less(e)) \in Nat /\ Cardinality(at(e)) \in Nat
    BY <2>2, FS_EmptySet, FS_CardinalityType
  <2>4. counts[e] = Cardinality(at(e))
    BY <1>1a
  <2>5. Cardinality(less(e) \cup at(e))
        = Cardinality(less(e)) + Cardinality(at(e)) - Cardinality(less(e) \cap at(e))
    <3> HIDE DEF less, at
    <3> QED BY <2>2, FS_Union
  <2>6. Cardinality(less(e) \cup at(e)) = Cardinality(less(e)) + Cardinality(at(e))
    <3> HIDE DEF less, at
    <3>1. Cardinality(less(e) \cap at(e)) = 0
      BY <2>1, <2>3
    <3> QED BY <2>3, <2>5, <3>1
  <2> HIDE DEF less, at, upto
  <2> QED BY <2>1, <2>4, <2>6, Zenon
<1>5. ASSUME NEW e \in 0 .. m - 1
      PROVE  StartIdx(counts, e) \in Nat /\ StartIdx(counts, e) + counts[e] <= n
  <2>1. PICK k \in 0 .. n, l \in 0 .. n : k = Cardinality(less(e)) /\ l = Cardinality(upto(e))
    BY <1>2, <1>3
  <2>2. StartIdx(counts, e) = k /\ l = k + counts[e]
    BY <1>1, <1>4, <2>1
  <2> HIDE DEF less, upto
  <2> QED BY <2>2
<1>6. ASSUME NEW row \in 1 .. n, NEW e \in 0 .. m - 1
      PROVE  z[row] = e <=> StartIdx(counts, e) < row /\ row <= StartIdx(counts, e) + counts[e]
  <2>1. PICK k \in 0 .. n, l \in 0 .. n : k = Cardinality(less(e)) /\ l = Cardinality(upto(e))
    BY <1>2, <1>3
  <2>2. row \in less(e) <=> row <= k
    <3>1. less(e) = 1 .. k
      BY <1>2, <2>1
    <3> HIDE DEF less
    <3> QED BY <3>1
  <2>3. row \in upto(e) <=> row <= l
    <3>1. upto(e) = 1 .. l
      BY <1>3, <2>1
    <3> HIDE DEF upto
    <3> QED BY <3>1
  <2>4. StartIdx(counts, e) = k /\ StartIdx(counts, e) + counts[e] = l
    BY <1>1, <1>4, <2>1
  <2>5. z[row] = e <=> row \in upto(e) /\ row \notin less(e)
    OBVIOUS
  <2> HIDE DEF less, upto
  <2> QED BY <2>1, <2>2, <2>3, <2>4, <2>5
<1>7. ASSUME NEW row \in 1 .. n PROVE SliceOf(counts, row) = z[row]
  <2>1. z[row] \in 0 .. m - 1
    OBVIOUS
  <2> QED BY <1>6, <2>1 DEF SliceOf
<1> QED BY <1>5, <1>6, <1>7 DEF Slices

(* Sorting keeps how many have a key, so sorted rows are in these slices.  *)
LEMMA PermutedCounts ==
  ASSUME NEW n \in Nat, NEW s, NEW idxs, Sorts(idxs, s, n), NEW S, NEW counts,
         Counts(counts, 1 .. n, s, S), NEW z, z = [row \in 1 .. n |-> s[idxs[row]]]
  PROVE  Counts(counts, 1 .. n, z, S)
<1>1. /\ \A a \in 1 .. n : idxs[a] \in 1 .. n
      /\ \A a, b \in 1 .. n : idxs[a] = idxs[b] => a = b
      /\ \A p \in 1 .. n : \E a \in 1 .. n : idxs[a] = p
  BY DEF Sorts
<1> SUFFICES ASSUME NEW d \in S
             PROVE  counts[d] = Cardinality({row \in 1 .. n : z[row] = d})
  BY DEF Counts
<1>2. PICK X, Y : X = {row \in 1 .. n : z[row] = d} /\ Y = {p \in 1 .. n : s[p] = d}
  OBVIOUS
<1>3. IsFiniteSet(Y)
  BY <1>2, FS_Interval, FS_Subset
<1>4. \A row \in X : idxs[row] \in Y
  BY <1>1, <1>2
<1>5. \A a, b \in X : idxs[a] = idxs[b] => a = b
  BY <1>1, <1>2
<1>6. \A p \in Y : \E row \in X : idxs[row] = p
  <2> TAKE p \in Y
  <2>1. PICK row \in 1 .. n : idxs[row] = p
    BY <1>1, <1>2
  <2>2. row \in X
    BY <1>2, <2>1
  <2> QED BY <2>1, <2>2
<1>7. Cardinality(X) = Cardinality(Y)
  BY <1>3, <1>4, <1>5, <1>6, OneToOne
<1> QED BY <1>2, <1>7 DEF Counts

LEMMA SortedKeys ==
  ASSUME NEW n \in Nat, NEW m \in Nat, NEW s \in [1 .. n -> 0 .. m - 1],
         NEW idxs, Sorts(idxs, s, n), NEW counts, DOMAIN counts = 0 .. m - 1,
         Counts(counts, 1 .. n, s, 0 .. m - 1)
  PROVE  Slices(counts, [row \in 1 .. n |-> s[idxs[row]]], n, m)
<1> PICK z : z = [row \in 1 .. n |-> s[idxs[row]]]
  OBVIOUS
<1>1. /\ idxs \in [1 .. n -> 1 .. n]
      /\ \A a, b \in 1 .. n : idxs[a] = idxs[b] => a = b
      /\ \A p \in 1 .. n : \E a \in 1 .. n : idxs[a] = p
      /\ \A a, b \in 1 .. n : a < b => s[idxs[a]] <= s[idxs[b]]
  BY DEF Sorts
<1>2. z \in [1 .. n -> 0 .. m - 1] /\ \A a, b \in 1 .. n : a < b => z[a] <= z[b]
  BY <1>1
<1>3. Counts(counts, 1 .. n, z, 0 .. m - 1)
  BY PermutedCounts
<1>4. Slices(counts, z, n, m)
  BY <1>2, <1>3, SortedSlices
<1> QED BY <1>4

LEMMA MoeConstants ==
  /\ TopK \in Nat \ {0} /\ RoutedExperts \in Nat \ {0} /\ EpSize \in Nat \ {0}
  /\ RoutedExperts % EpSize = 0
BY MoERoutingAssumption

-----------------------------------------------------------------------------
(* The router's table: T tokens, the experts of each differ. *)
Table(ids, T) ==
  /\ ids \in [1 .. T -> [Slots -> MoeExperts]]
  /\ \A t \in 1 .. T : \A i, j \in Slots : ids[t][i] = ids[t][j] => i = j

(* Places of a table of T rows of K entries. *)
LEMMA PlaceSplit ==
  ASSUME NEW K \in Nat \ {0}, NEW T \in Nat, NEW p \in 1 .. T * K
  PROVE  (p - 1) \div K + 1 \in 1 .. T /\ p - ((p - 1) \div K + 1 - 1) * K \in 1 .. K
<1>1. p - 1 \in Nat /\ T * K \in Nat
  OBVIOUS
<1>2. PICK q \in Nat, r \in 0 .. K - 1 : q = (p - 1) \div K /\ p - 1 = q * K + r
  BY <1>1, DivMod
<1>3. 0 \in 0 .. K - 1
  OBVIOUS
<1>4. q * K + r < T * K + 0
  BY <1>1, <1>2
<1>5. q < T
  BY <1>2, <1>3, <1>4, DivOrder
<1>6. PICK x \in Nat : x = q * K
  OBVIOUS
<1>7. p - x \in 1 .. K
  BY <1>2, <1>6
<1>8. (p - 1) \div K + 1 - 1 = q /\ q + 1 \in 1 .. T
  BY <1>2, <1>5
<1> QED BY <1>2, <1>6, <1>7, <1>8

LEMMA PlaceJoin ==
  ASSUME NEW K \in Nat \ {0}, NEW T \in Nat, NEW t \in 1 .. T, NEW j \in 1 .. K
  PROVE  (t - 1) * K + j \in 1 .. T * K /\ ((t - 1) * K + j - 1) \div K + 1 = t
<1>1. PICK u \in Nat : u = t - 1
  OBVIOUS
<1>2. PICK x \in Nat : x = u * K
  OBVIOUS
<1>3. j - 1 \in 0 .. K - 1
  OBVIOUS
<1>4. (u * K + (j - 1)) \div K = u
  BY <1>3, DivUnique
<1>5. x + j - 1 = u * K + (j - 1)
  BY <1>2
<1>6. (u + 1) * K <= T * K /\ T * K \in Nat
  BY <1>1, TimesOrder
<1>7. (u + 1) * K = x + K
  BY <1>2
<1>8. x + j \in 1 .. T * K
  BY <1>6, <1>7
<1> QED BY <1>1, <1>2, <1>4, <1>5, <1>8

FlatTable(ids, T, n, s) ==
  /\ n \in Nat /\ s \in [1 .. n -> MoeExperts]
  /\ \A p \in 1 .. n : /\ TokenOf(p) \in 1 .. T
                       /\ p - (TokenOf(p) - 1) * TopK \in Slots
                       /\ s[p] = ids[TokenOf(p)][p - (TokenOf(p) - 1) * TopK]
  /\ \A t \in 1 .. T, j \in Slots :
       /\ (t - 1) * TopK + j \in 1 .. n
       /\ TokenOf((t - 1) * TopK + j) = t
       /\ s[(t - 1) * TopK + j] = ids[t][j]

LEMMA FlatOk ==
  ASSUME NEW T \in Nat, NEW ids, Table(ids, T)
  PROVE  Len(ids) = T /\ FlatTable(ids, T, T * TopK, Flat(ids))
<1>1. Len(ids) = T
  BY FunctionSeq DEF Table
<1>2. PICK n \in Nat : n = T * TopK
  BY MoeConstants
<1>3. PICK s : s = Flat(ids)
  OBVIOUS
<1>4. s = [p \in 1 .. n |-> ids[TokenOf(p)][p - (TokenOf(p) - 1) * TopK]]
  BY <1>1, <1>2, <1>3 DEF Flat
<1>5. \A p \in 1 .. n : TokenOf(p) \in 1 .. T /\ p - (TokenOf(p) - 1) * TopK \in Slots
  BY <1>2, MoeConstants, PlaceSplit DEF TokenOf, Slots
<1>6. \A p \in 1 .. n : s[p] \in MoeExperts
  <2> TAKE p \in 1 .. n
  <2>1. PICK t \in 1 .. T, j \in Slots : t = TokenOf(p) /\ j = p - (TokenOf(p) - 1) * TopK
    BY <1>5
  <2>2. s[p] = ids[t][j]
    BY <1>4, <2>1
  <2>3. ids[t] \in [Slots -> MoeExperts]
    BY DEF Table
  <2> QED BY <2>2, <2>3
<1>7. \A t \in 1 .. T, j \in Slots :
        (t - 1) * TopK + j \in 1 .. n /\ TokenOf((t - 1) * TopK + j) = t
  BY <1>2, MoeConstants, PlaceJoin DEF TokenOf, Slots
<1>8. ASSUME NEW t \in 1 .. T, NEW j \in Slots PROVE s[(t - 1) * TopK + j] = ids[t][j]
  <2>1. PICK p \in 1 .. n : p = (t - 1) * TopK + j
    BY <1>7
  <2>2. s[p] = ids[t][p - (t - 1) * TopK]
    BY <1>4, <1>7, <2>1
  <2>3. PICK x \in Int : x = (t - 1) * TopK
    BY MoeConstants
  <2>4. p - x = j
    BY <2>1, <2>3 DEF Slots
  <2> QED BY <2>1, <2>2, <2>3, <2>4
<1>9. FlatTable(ids, T, n, s)
  BY <1>4, <1>5, <1>6, <1>7, <1>8 DEF FlatTable
<1> QED BY <1>1, <1>2, <1>3, <1>9

(* cnts counts the places of each expert: a token has it once. *)
LEMMA TokensCounted ==
  ASSUME NEW T \in Nat, NEW ids, Table(ids, T)
  PROVE  /\ DOMAIN TokensPerExpert(ids) = MoeExperts
         /\ Counts(TokensPerExpert(ids), 1 .. T * TopK, Flat(ids), MoeExperts)
<1>0. PICK n \in Nat : n = T * TopK
  BY MoeConstants
<1>1. PICK s : n = T * TopK /\ s = Flat(ids)
  BY <1>0
<1>2. FlatTable(ids, T, n, s) /\ Len(ids) = T
  BY <1>1, FlatOk
<1>3. ASSUME NEW e \in MoeExperts
      PROVE  TokensPerExpert(ids)[e] = Cardinality({p \in 1 .. n : s[p] = e})
  <2> DEFINE P == {p \in 1 .. n : s[p] = e}
             Q == {t \in 1 .. T : e \in ToSet(ids[t])}
  <2>1. PICK f : f = [p \in 1 .. n |-> TokenOf(p)]
    OBVIOUS
  <2>2. IsFiniteSet(Q)
    <3>1. IsFiniteSet(1 .. T)
      BY FS_Interval
    <3> QED BY <3>1, FS_Subset
  <2>3. \A t \in 1 .. T : ToSet(ids[t]) = {ids[t][j] : j \in Slots}
    BY DEF Table, ToSet
  <2>4. \A p \in P : f[p] \in Q
    <3> SUFFICES ASSUME NEW p \in P PROVE f[p] \in Q
      OBVIOUS
    <3>1. PICK t \in 1 .. T, j \in Slots : t = TokenOf(p) /\ j = p - (TokenOf(p) - 1) * TopK
      BY <1>2 DEF FlatTable
    <3>2. ids[t][j] = e
      BY <1>2, <3>1 DEF FlatTable
    <3> QED BY <2>1, <2>3, <3>1, <3>2
  <2>5. \A p, q \in P : f[p] = f[q] => p = q
    <3> SUFFICES ASSUME NEW p \in P, NEW q \in P, f[p] = f[q] PROVE p = q
      OBVIOUS
    <3>1. PICK t \in 1 .. T : t = TokenOf(p) /\ t = TokenOf(q)
      BY <1>2, <2>1 DEF FlatTable
    <3>2. PICK x \in Int : x = (t - 1) * TopK
      BY MoeConstants
    <3>3. p - x \in Slots /\ q - x \in Slots /\ ids[t][p - x] = e /\ ids[t][q - x] = e
      BY <1>2, <3>1, <3>2 DEF FlatTable
    <3>4. p - x = q - x
      BY <3>3 DEF Table
    <3> QED BY <3>4
  <2>6. \A t \in Q : \E p \in P : f[p] = t
    <3> SUFFICES ASSUME NEW t \in Q PROVE \E p \in P : f[p] = t
      OBVIOUS
    <3>1. PICK j \in Slots : ids[t][j] = e
      BY <2>3
    <3>2. PICK p \in 1 .. n : p = (t - 1) * TopK + j
      BY <1>2 DEF FlatTable
    <3>3. TokenOf(p) = t /\ s[p] = e
      BY <1>2, <3>1, <3>2 DEF FlatTable
    <3> QED BY <2>1, <3>3
  <2>7. Cardinality(P) = Cardinality(Q)
    <3> HIDE DEF P, Q
    <3> QED BY <2>2, <2>4, <2>5, <2>6, OneToOne
  <2>8. TokensPerExpert(ids)[e] = Cardinality(Q)
    BY <1>2 DEF TokensPerExpert, TokensOf
  <2> QED BY <2>7, <2>8
<1>4. DOMAIN TokensPerExpert(ids) = MoeExperts
  BY DEF TokensPerExpert
<1> QED BY <1>1, <1>3, <1>4 DEF Counts

(* Each token to each of its experts, once: what a block has to return for *)
(* a table, where token t of the table is called own[t].                   *)
Given(ids, own, T) ==
  [t \in 1 .. T |-> SetToBag({<<ids[t][j], own[t], <<t, j>>>> : j \in Slots})]

(* Rows put back where they came from *)
LEMMA ScatterBack ==
  ASSUME NEW n \in Nat, NEW s, NEW idxs, Sorts(idxs, s, n), NEW outs, DOMAIN outs = 1 .. n,
         NEW f, \A row \in 1 .. n : outs[row] = f[idxs[row]]
  PROVE  /\ DOMAIN Scatter(idxs, outs) = 1 .. n
         /\ \A p \in 1 .. n : Scatter(idxs, outs)[p] = f[p]
<1>1. ASSUME NEW p \in 1 .. n PROVE outs[CHOOSE row \in DOMAIN outs : idxs[row] = p] = f[p]
  <2>1. \E row \in 1 .. n : idxs[row] = p
    BY DEF Sorts
  <2>2. PICK row \in 1 .. n : row = CHOOSE x \in DOMAIN outs : idxs[x] = p
    BY <2>1
  <2>3. idxs[row] = p
    BY <2>1, <2>2
  <2> QED BY <2>2, <2>3
<1> QED BY <1>1 DEF Scatter

(* Every slot of a token, from the row that went to its expert *)
LEMMA FinalOk ==
  ASSUME NEW T \in Nat, NEW ids, Table(ids, T), NEW own, NEW new_x,
         \A p \in 1 .. T * TopK : new_x[p] = <<Flat(ids)[p], own[TokenOf(p)]>>
  PROVE  Final(new_x, T) = Given(ids, own, T)
<1>0. PICK n \in Nat : n = T * TopK
  BY MoeConstants
<1>1. PICK s : n = T * TopK /\ s = Flat(ids)
  BY <1>0
<1>2. FlatTable(ids, T, n, s)
  BY <1>1, FlatOk
<1>3. ASSUME NEW t \in 1 .. T
      PROVE  {<<new_x[p][1], new_x[p][2], <<t, p - (t - 1) * TopK>>>> :
                p \in (t - 1) * TopK + 1 .. t * TopK}
             = {<<ids[t][j], own[t], <<t, j>>>> : j \in Slots}
  <2>1. PICK x \in Nat : x = (t - 1) * TopK
    BY MoeConstants
  <2>2. t * TopK = x + TopK
    BY <2>1, MoeConstants
  <2>3. \A j \in Slots : x + j \in 1 .. n /\ TokenOf(x + j) = t /\ s[x + j] = ids[t][j]
    BY <1>2, <2>1 DEF FlatTable
  <2>4. \A j \in Slots : new_x[x + j] = <<ids[t][j], own[t]>>
    BY <1>1, <2>3
  <2>5. \A j \in Slots : new_x[x + j][1] = ids[t][j] /\ new_x[x + j][2] = own[t]
    BY <2>4
  <2>6. \A p \in x + 1 .. x + TopK : p - x \in Slots /\ p = x + (p - x)
    BY MoeConstants DEF Slots
  <2>7. \A j \in Slots : x + j \in x + 1 .. x + TopK /\ x + j - x = j
    BY MoeConstants DEF Slots
  <2>8. {<<new_x[p][1], new_x[p][2], <<t, p - x>>>> : p \in x + 1 .. x + TopK}
        = {<<ids[t][j], own[t], <<t, j>>>> : j \in Slots}
    <3>1. \A p \in x + 1 .. x + TopK :
            <<new_x[p][1], new_x[p][2], <<t, p - x>>>> = <<ids[t][p - x], own[t], <<t, p - x>>>>
      BY <2>5, <2>6
    <3>2. \A j \in Slots : <<ids[t][j], own[t], <<t, j>>>>
            = <<new_x[x + j][1], new_x[x + j][2], <<t, (x + j) - x>>>>
      <4> TAKE j \in Slots
      <4>1. PICK p \in x + 1 .. x + TopK : p = x + j
        BY <2>7
      <4>2. new_x[p][1] = ids[t][j] /\ new_x[p][2] = own[t] /\ p - x = j
        <5>1. p - x = j
          BY <4>1, MoeConstants DEF Slots
        <5> QED BY <4>1, <5>1, <2>5
      <4> QED BY <4>1, <4>2
    <3> QED BY <3>1, <3>2, <2>6, <2>7
  <2> QED BY <2>1, <2>2, <2>8
<1> QED BY <1>3 DEF Final, Given

-----------------------------------------------------------------------------
(* moe_infer with all experts here, and moe_infer_simple *)
LEMMA MoeInferOk ==
  ASSUME NEW T \in Nat, NEW ids, Table(ids, T), NEW ties
  PROVE  MoeInfer(ids, ties) = Given(ids, [t \in 1 .. T |-> t], T)
<1>1. PICK n \in Nat : n = T * TopK
  BY MoeConstants
<1>2. PICK s, counts : s = Flat(ids) /\ counts = TokensPerExpert(ids)
  OBVIOUS
<1>3. PICK idxs : idxs = Argsort(s, ties)
  OBVIOUS
<1>4. PICK outs : outs = [row \in DOMAIN idxs |-> <<SliceOf(counts, row), TokenOf(idxs[row])>>]
  OBVIOUS
<1>5. FlatTable(ids, T, n, s) /\ Len(ids) = T
  BY <1>1, <1>2, FlatOk
<1>6. s \in [1 .. n -> 0 .. RoutedExperts - 1] /\ s \in [1 .. n -> Int]
  BY <1>5, MoeConstants DEF FlatTable, MoeExperts
<1>7. Sorts(idxs, s, n)
  BY <1>3, <1>6, ArgsortSorts
<1>8. DOMAIN idxs = 1 .. n /\ \A row \in 1 .. n : idxs[row] \in 1 .. n
  BY <1>7 DEF Sorts
<1>9. DOMAIN counts = 0 .. RoutedExperts - 1 /\ Counts(counts, 1 .. n, s, 0 .. RoutedExperts - 1)
  BY <1>1, <1>2, TokensCounted DEF MoeExperts
<1>10. PICK m \in Nat : m = RoutedExperts
  BY MoeConstants
<1>11. Slices(counts, [row \in 1 .. n |-> s[idxs[row]]], n, m)
  BY <1>6, <1>7, <1>9, <1>10, SortedKeys
<1>12. \A row \in 1 .. n : SliceOf(counts, row) = s[idxs[row]]
  BY <1>11 DEF Slices
<1>13. PICK f : f = [p \in 1 .. n |-> <<s[p], TokenOf(p)>>]
  OBVIOUS
<1>14. \A row \in 1 .. n : outs[row] = f[idxs[row]]
  BY <1>4, <1>8, <1>12, <1>13
<1>15. DOMAIN outs = 1 .. n
  BY <1>4, <1>8
<1>16. \A p \in 1 .. n : Scatter(idxs, outs)[p] = f[p]
  BY <1>7, <1>14, <1>15, ScatterBack
<1>17. PICK own : own = [t \in 1 .. T |-> t]
  OBVIOUS
<1>18. \A p \in 1 .. n : Scatter(idxs, outs)[p] = <<s[p], own[TokenOf(p)]>>
  BY <1>5, <1>13, <1>16, <1>17 DEF FlatTable
<1>19. Final(Scatter(idxs, outs), T) = Given(ids, own, T)
  BY <1>1, <1>2, <1>18, FinalOk
<1>20. MoeInfer(ids, ties) = Final(Scatter(idxs, outs), T)
  BY <1>2, <1>3, <1>4, <1>5 DEF MoeInfer
<1> QED BY <1>17, <1>19, <1>20

LEMMA MoeInferSimpleOk ==
  ASSUME NEW T \in Nat, NEW ids, Table(ids, T)
  PROVE  MoeInferSimple(ids) = Given(ids, [t \in 1 .. T |-> t], T)
<1>1. Len(ids) = T
  BY FlatOk
<1> QED BY <1>1 DEF MoeInferSimple, Given, TokensOf

-----------------------------------------------------------------------------
(* The loops over experts *)

GivenIn(ids, E, t) == {<<ids[t][j], t, <<t, j>>>> : j \in {k \in Slots : ids[t][k] \in E}}

LEMMA OneHotOk ==
  ASSUME NEW T \in Nat, NEW ids, Table(ids, T), NEW E \in SUBSET MoeExperts, NEW t \in 1 .. T
  PROVE  /\ OneHot(ids, E)[t] = SetToBag(GivenIn(ids, E, t))
         /\ DOMAIN OneHot(ids, E) = 1 .. T
<1>1. Len(ids) = T
  BY FlatOk
<1>2. UNION {{<<e, w[2], <<w[2], w[1]>>>> : w \in {v \in Where(ids, e) : v[2] = t}} : e \in E}
      = GivenIn(ids, E, t)
  <2>1. \A e : {v \in Where(ids, e) : v[2] = t} = {<<j, t>> : j \in {k \in Slots : ids[t][k] = e}}
    BY <1>1 DEF Where, TokensOf
  <2>2. \A e : {<<e, w[2], <<w[2], w[1]>>>> : w \in {v \in Where(ids, e) : v[2] = t}}
               = {<<e, t, <<t, j>>>> : j \in {k \in Slots : ids[t][k] = e}}
    <3> TAKE e
    <3>1. {v \in Where(ids, e) : v[2] = t} = {<<j, t>> : j \in {k \in Slots : ids[t][k] = e}}
      BY <2>1
    <3>2. \A w \in {<<j, t>> : j \in {k \in Slots : ids[t][k] = e}} :
            \E j \in Slots : ids[t][j] = e /\ w = <<j, t>> /\ w[1] = j /\ w[2] = t
      OBVIOUS
    <3>3. \A j \in Slots : ids[t][j] = e =>
            <<j, t>> \in {v \in Where(ids, e) : v[2] = t} /\ <<j, t>>[1] = j /\ <<j, t>>[2] = t
      BY <3>1
    <3>4. \A w \in {v \in Where(ids, e) : v[2] = t} :
            \E j \in Slots : ids[t][j] = e /\ w = <<j, t>> /\ w[1] = j /\ w[2] = t
      BY <3>1, <3>2
    <3> PICK W : W = {v \in Where(ids, e) : v[2] = t}
      OBVIOUS
    <3>5. \A w \in W : \E j \in Slots : ids[t][j] = e /\ w[1] = j /\ w[2] = t
      BY <3>4
    <3>6. \A j \in Slots : ids[t][j] = e => <<j, t>> \in W
      BY <3>3
    <3>7. {<<e, w[2], <<w[2], w[1]>>>> : w \in W}
          \subseteq {<<e, t, <<t, j>>>> : j \in {k \in Slots : ids[t][k] = e}}
      BY <3>5
    <3>8. ASSUME NEW j \in Slots, ids[t][j] = e
          PROVE  <<e, t, <<t, j>>>> \in {<<e, w[2], <<w[2], w[1]>>>> : w \in W}
      <4>1. PICK w \in W : w = <<j, t>>
        BY <3>6, <3>8
      <4>2. w[1] = j /\ w[2] = t
        BY <4>1
      <4> QED BY <4>2
    <3>9. {<<e, w[2], <<w[2], w[1]>>>> : w \in W}
          = {<<e, t, <<t, j>>>> : j \in {k \in Slots : ids[t][k] = e}}
      BY <3>7, <3>8
    <3> QED BY <3>9
  <2> QED BY <2>2 DEF GivenIn
<1> QED BY <1>1, <1>2 DEF OneHot, TokensOf

LEMMA DisjointBags ==
  ASSUME NEW A, NEW B, A \cap B = {}
  PROVE  SetToBag(A) (+) SetToBag(B) = SetToBag(A \cup B)
BY DEF SetToBag, (+)

LEMMA AllHot ==
  ASSUME NEW T \in Nat, NEW ids, Table(ids, T)
  PROVE  OneHot(ids, MoeExperts) = Given(ids, [t \in 1 .. T |-> t], T)
<1>1. \A t \in 1 .. T, k \in Slots : ids[t][k] \in MoeExperts
  BY DEF Table
<1>2. \A t \in 1 .. T : GivenIn(ids, MoeExperts, t) = {<<ids[t][j], t, <<t, j>>>> : j \in Slots}
  BY <1>1 DEF GivenIn
<1>3. \A t \in 1 .. T : OneHot(ids, MoeExperts)[t] = SetToBag(GivenIn(ids, MoeExperts, t))
  BY OneHotOk
<1>4. DOMAIN OneHot(ids, MoeExperts) = 1 .. T
  <2>1. Len(ids) = T
    BY FlatOk
  <2> QED BY <2>1 DEF OneHot, TokensOf
<1> PICK h : h = OneHot(ids, MoeExperts)
  OBVIOUS
<1>5. h = [t \in DOMAIN h |-> h[t]]
  BY DEF OneHot
<1> QED BY <1>2, <1>3, <1>4, <1>5 DEF Given

(* Experts on the CPU and the others share the slots of a token. *)
LEMMA SplitGiven ==
  ASSUME NEW T \in Nat, NEW ids, Table(ids, T), NEW cpu \in SUBSET MoeExperts, NEW t \in 1 .. T
  PROVE  /\ GivenIn(ids, cpu, t) \cap GivenIn(ids, MoeExperts \ cpu, t) = {}
         /\ GivenIn(ids, cpu, t) \cup GivenIn(ids, MoeExperts \ cpu, t)
            = {<<ids[t][j], t, <<t, j>>>> : j \in Slots}
<1>1. \A j \in Slots : ids[t][j] \in MoeExperts
  BY DEF Table
<1>2. \A x \in GivenIn(ids, cpu, t) : x[1] \in cpu
  BY DEF GivenIn
<1>3. \A x \in GivenIn(ids, MoeExperts \ cpu, t) : x[1] \notin cpu
  BY DEF GivenIn
<1>4. GivenIn(ids, cpu, t) \cap GivenIn(ids, MoeExperts \ cpu, t) = {}
  BY <1>2, <1>3
<1>5. GivenIn(ids, cpu, t) \cup GivenIn(ids, MoeExperts \ cpu, t)
      \subseteq {<<ids[t][j], t, <<t, j>>>> : j \in Slots}
  BY DEF GivenIn
<1>6. \A j \in Slots : <<ids[t][j], t, <<t, j>>>>
        \in GivenIn(ids, cpu, t) \cup GivenIn(ids, MoeExperts \ cpu, t)
  BY <1>1 DEF GivenIn
<1> QED BY <1>4, <1>5, <1>6

LEMMA MarlinPrefillOk ==
  ASSUME NEW T \in Nat, NEW ids, Table(ids, T), NEW cpu \in SUBSET MoeExperts
  PROVE  MarlinPrefill(ids, cpu) = Given(ids, [t \in 1 .. T |-> t], T)
<1>1. Len(ids) = T
  BY FlatOk
<1>2. ASSUME NEW t \in 1 .. T
      PROVE  MarlinPrefill(ids, cpu)[t] = SetToBag({<<ids[t][j], t, <<t, j>>>> : j \in Slots})
  <2>1. PICK idx : idx = CpuIndexesOf(ids, cpu, t)
    OBVIOUS
  <2>2. DOMAIN idx = cpu \cap ToSet(ids[t])
    BY <2>1 DEF CpuIndexesOf
  <2>3. \A e : e \in DOMAIN idx <=> e \in cpu /\ \E j \in Slots : ids[t][j] = e
    BY <2>2 DEF ToSet, Table
  <2>4. \A j \in Slots : \A e : <<j, t>> \in Where(ids, e) <=> ids[t][j] = e
    BY <1>1 DEF Where, TokensOf
  <2>5. \A e \in DOMAIN idx : idx[e] \in Slots /\ ids[t][idx[e]] = e
    <3> TAKE e \in DOMAIN idx
    <3>1. \E j \in Slots : <<j, t>> \in Where(ids, e)
      BY <2>3, <2>4
    <3>2. idx[e] = CHOOSE j \in Slots : <<j, t>> \in Where(ids, e)
      BY <2>1, <2>2 DEF CpuIndexesOf
    <3>3. idx[e] \in Slots /\ <<idx[e], t>> \in Where(ids, e)
      BY <3>1, <3>2
    <3> QED BY <2>4, <3>3
  <2>6. \A i, j \in Slots : ids[t][i] = ids[t][j] => i = j
    BY DEF Table
  <2>7. {<<e, t, <<t, idx[e]>>>> : e \in DOMAIN idx} \subseteq GivenIn(ids, cpu, t)
    <3> SUFFICES ASSUME NEW e \in DOMAIN idx
                 PROVE  <<e, t, <<t, idx[e]>>>> \in GivenIn(ids, cpu, t)
      OBVIOUS
    <3>1. PICK j \in Slots : j = idx[e]
      BY <2>5
    <3>2. ids[t][j] = e /\ e \in cpu
      BY <2>3, <2>5, <3>1
    <3>3. <<ids[t][j], t, <<t, j>>>> \in GivenIn(ids, cpu, t)
      BY <3>2 DEF GivenIn
    <3> QED BY <3>1, <3>2, <3>3
  <2>8. GivenIn(ids, cpu, t) \subseteq {<<e, t, <<t, idx[e]>>>> : e \in DOMAIN idx}
    <3> SUFFICES ASSUME NEW j \in Slots, ids[t][j] \in cpu
                 PROVE  <<ids[t][j], t, <<t, j>>>> \in {<<e, t, <<t, idx[e]>>>> : e \in DOMAIN idx}
      BY DEF GivenIn
    <3>1. PICK e : e = ids[t][j]
      OBVIOUS
    <3>2. e \in DOMAIN idx /\ idx[e] = j
      <4>1. e \in DOMAIN idx
        BY <2>3, <3>1
      <4> QED BY <2>5, <2>6, <3>1, <4>1
    <3> QED BY <3>1, <3>2
  <2>9. MarlinPrefill(ids, cpu)[t]
        = SetToBag({<<e, t, <<t, idx[e]>>>> : e \in DOMAIN idx})
          (+) OneHot(ids, MoeExperts \ cpu)[t]
    BY <1>1, <2>1 DEF MarlinPrefill, TokensOf
  <2>10. OneHot(ids, MoeExperts \ cpu)[t] = SetToBag(GivenIn(ids, MoeExperts \ cpu, t))
    BY OneHotOk
  <2>11. PICK A, B : A = GivenIn(ids, cpu, t) /\ B = GivenIn(ids, MoeExperts \ cpu, t)
    OBVIOUS
  <2>12. A = {<<e, t, <<t, idx[e]>>>> : e \in DOMAIN idx}
    BY <2>7, <2>8, <2>11
  <2>13. A \cap B = {} /\ A \cup B = {<<ids[t][j], t, <<t, j>>>> : j \in Slots}
    BY <2>11, SplitGiven
  <2>14. SetToBag(A) (+) SetToBag(B) = SetToBag(A \cup B)
    BY <2>13, DisjointBags
  <2>15. MarlinPrefill(ids, cpu)[t] = SetToBag(A) (+) SetToBag(B)
    BY <2>9, <2>10, <2>11, <2>12
  <2> QED BY <2>13, <2>14, <2>15
<1> PICK h : h = MarlinPrefill(ids, cpu)
  OBVIOUS
<1>3. h = [t \in 1 .. T |-> h[t]]
  BY <1>1 DEF MarlinPrefill, TokensOf
<1>4. \A t \in 1 .. T : h[t] = SetToBag({<<ids[t][j], t, <<t, j>>>> : j \in Slots})
  BY <1>2
<1>5. h = [t \in 1 .. T |-> SetToBag({<<ids[t][j], t, <<t, j>>>> : j \in Slots})]
  BY <1>3, <1>4
<1>6. Given(ids, [t \in 1 .. T |-> t], T)
      = [t \in 1 .. T |-> SetToBag({<<ids[t][j], t, <<t, j>>>> : j \in Slots})]
  BY DEF Given
<1> QED BY <1>5, <1>6

(* One token, whose experts are each given to it once, with any weights *)
GivenOnce(ids, out) ==
  /\ {c[1] : c \in BagToSet(out)} = ToSet(ids[1])
  /\ out = SetToBag(BagToSet(out)) /\ Cardinality(BagToSet(out)) = TopK

LEMMA MarlinDecodeOk ==
  ASSUME NEW ids, Table(ids, 1), NEW cpu \in SUBSET MoeExperts, NEW cached
  PROVE  GivenOnce(ids, MarlinDecode(ids, cpu, cached)[1])
<1>1. PICK place : place = [e \in cpu |-> PlaceAmong(ids, cached, e)]
  OBVIOUS
<1>2. PICK A : A = {<<e, 1, <<1, place[e]>>>> : e \in cpu \cap ToSet(ids[1])}
  OBVIOUS
<1>3. PICK B : B = GivenIn(ids, MoeExperts \ cpu, 1)
  OBVIOUS
<1>4. 1 \in Nat /\ 1 \in 1 .. 1
  OBVIOUS
<1>5. OneHot(ids, MoeExperts \ cpu)[1] = SetToBag(B)
  BY <1>3, <1>4, OneHotOk
<1>6. A = {<<e, 1, <<1, PlaceAmong(ids, cached, e)>>>> : e \in cpu \cap ToSet(ids[1])}
  <2>1. \A e \in cpu \cap ToSet(ids[1]) : place[e] = PlaceAmong(ids, cached, e)
    BY <1>1
  <2> QED BY <1>2, <2>1
<1>7. ids[1] \in [Slots -> MoeExperts] /\ \A i, j \in Slots : ids[1][i] = ids[1][j] => i = j
  BY <1>4 DEF Table
<1>8. \A e : e \in ToSet(ids[1]) <=> \E j \in Slots : ids[1][j] = e
  BY <1>7 DEF ToSet
<1>9. \A x \in A : x[1] \in cpu /\ x[1] \in ToSet(ids[1])
  BY <1>2
<1>10. \A x \in B : x[1] \in MoeExperts \ cpu /\ x[1] \in ToSet(ids[1])
  BY <1>3, <1>8 DEF GivenIn
<1>11. A \cap B = {}
  BY <1>9, <1>10
<1>12. \A x, y \in A : x[1] = y[1] => x = y
  <2> TAKE x, y \in A
  <2> HAVE x[1] = y[1]
  <2>1. PICK d \in cpu : x = <<d, 1, <<1, place[d]>>>>
    BY <1>2
  <2>2. PICK e \in cpu : y = <<e, 1, <<1, place[e]>>>>
    BY <1>2
  <2>3. d = e
    BY <2>1, <2>2
  <2> QED BY <2>1, <2>2, <2>3
<1>13. \A x, y \in B : x[1] = y[1] => x = y
  <2> TAKE x, y \in B
  <2> HAVE x[1] = y[1]
  <2>1. PICK i \in Slots : x = <<ids[1][i], 1, <<1, i>>>>
    BY <1>3 DEF GivenIn
  <2>2. PICK j \in Slots : y = <<ids[1][j], 1, <<1, j>>>>
    BY <1>3 DEF GivenIn
  <2>3. i = j
    BY <1>7, <2>1, <2>2
  <2> QED BY <2>1, <2>2, <2>3
<1>14. PICK S : S = A \cup B
  OBVIOUS
<1>15. \A x, y \in S : x[1] = y[1] => x = y
  BY <1>9, <1>10, <1>12, <1>13, <1>14
<1>16. \A j \in Slots : \E x \in S : x[1] = ids[1][j]
  <2> TAKE j \in Slots
  <2>1. CASE ids[1][j] \in cpu
    <3>1. PICK e : e = ids[1][j]
      OBVIOUS
    <3>2. <<e, 1, <<1, place[e]>>>> \in A
      BY <1>2, <1>8, <2>1, <3>1
    <3>3. PICK x \in A : x = <<e, 1, <<1, place[e]>>>>
      BY <3>2
    <3> QED BY <1>14, <3>1, <3>3
  <2>2. CASE ids[1][j] \notin cpu
    <3>1. <<ids[1][j], 1, <<1, j>>>> \in B
      BY <1>3, <1>7, <2>2 DEF GivenIn
    <3>2. PICK x \in B : x = <<ids[1][j], 1, <<1, j>>>>
      BY <3>1
    <3> QED BY <1>14, <3>2
  <2> QED BY <2>1, <2>2
<1>17. PICK D : D = ToSet(ids[1])
  OBVIOUS
<1>18. \A x \in S : x[1] \in D
  BY <1>9, <1>10, <1>14, <1>17
<1>19. \A d \in D : \E x \in S : x[1] = d
  BY <1>8, <1>16, <1>17
<1>20. {x[1] : x \in S} = D
  BY <1>18, <1>19
<1>21. IsFiniteSet(D) /\ Cardinality(D) = TopK
  <2>1. IsFiniteSet(Slots) /\ Cardinality(Slots) = TopK
    BY MoeConstants, FS_Interval DEF Slots
  <2>2. PICK f : f = ids[1]
    OBVIOUS
  <2>3. \A j \in Slots : f[j] \in D
    BY <1>8, <1>17, <2>2
  <2>4. \A i, j \in Slots : f[i] = f[j] => i = j
    BY <1>7, <2>2
  <2>5. \A d \in D : \E j \in Slots : f[j] = d
    BY <1>8, <1>17, <2>2
  <2>6. IsFiniteSet(D)
    <3>1. f \in Surjection(Slots, D)
      BY <1>7, <2>2, <2>3, <2>5 DEF Surjection
    <3> QED BY <2>1, <3>1, FS_Surjection
  <2> QED BY <2>1, <2>3, <2>4, <2>5, <2>6, OneToOne
<1>22. Cardinality(S) = TopK
  <2>1. PICK f : f = [x \in S |-> x[1]]
    OBVIOUS
  <2>2. \A x \in S : f[x] \in D
    BY <1>18, <2>1
  <2>3. \A x, y \in S : f[x] = f[y] => x = y
    BY <1>15, <2>1
  <2>4. \A d \in D : \E x \in S : f[x] = d
    BY <1>19, <2>1
  <2>5. Cardinality(S) = Cardinality(D)
    BY <1>21, <2>2, <2>3, <2>4, OneToOne
  <2> QED BY <1>21, <2>5
<1>23. PICK out : out = MarlinDecode(ids, cpu, cached)[1]
  OBVIOUS
<1>24. out = SetToBag(A) (+) SetToBag(B)
  BY <1>5, <1>6, <1>23 DEF MarlinDecode
<1>25. out = SetToBag(S)
  BY <1>11, <1>14, <1>24, DisjointBags
<1>26. BagToSet(out) = S
  BY <1>25 DEF BagToSet, SetToBag
<1>27. GivenOnce(ids, out)
  BY <1>17, <1>20, <1>22, <1>25, <1>26 DEF GivenOnce
<1> QED BY <1>23, <1>27

-----------------------------------------------------------------------------
(* Rows that are cut in slices of any lengths *)
Cuts(counts, n, m) ==
  /\ n \in Nat
  /\ \A e \in 0 .. m - 1 : StartIdx(counts, e) \in Nat
  /\ \A e \in 0 .. m - 1 : \A i \in 1 .. counts[e] :
       StartIdx(counts, e) + i \in 1 .. n /\ SliceOf(counts, StartIdx(counts, e) + i) = e
  /\ \A row \in 1 .. n :
       /\ SliceOf(counts, row) \in 0 .. m - 1
       /\ row - StartIdx(counts, SliceOf(counts, row)) \in 1 .. counts[SliceOf(counts, row)]
  /\ \A a, b \in 1 .. n : a < b => SliceOf(counts, a) <= SliceOf(counts, b)

LEMMA SlicesCut ==
  ASSUME NEW n \in Nat, NEW m \in Nat, NEW counts \in [0 .. m - 1 -> Nat],
         NEW z \in [1 .. n -> 0 .. m - 1], Slices(counts, z, n, m),
         \A a, b \in 1 .. n : a < b => z[a] <= z[b]
  PROVE  Cuts(counts, n, m)
<1>1. \A e \in 0 .. m - 1 : StartIdx(counts, e) \in Nat /\ StartIdx(counts, e) + counts[e] <= n
  BY DEF Slices
<1>2. \A row \in 1 .. n, e \in 0 .. m - 1 :
        z[row] = e <=> StartIdx(counts, e) < row /\ row <= StartIdx(counts, e) + counts[e]
  BY DEF Slices
<1>3. \A row \in 1 .. n : SliceOf(counts, row) = z[row]
  BY DEF Slices
<1>4. ASSUME NEW e \in 0 .. m - 1, NEW i \in 1 .. counts[e]
      PROVE  StartIdx(counts, e) + i \in 1 .. n /\ SliceOf(counts, StartIdx(counts, e) + i) = e
  <2>1. PICK x \in Nat : x = StartIdx(counts, e)
    BY <1>1
  <2>2. PICK c \in Nat : c = counts[e]
    OBVIOUS
  <2>3. x + c <= n /\ i \in 1 .. c
    BY <1>1, <2>1, <2>2
  <2>4. x + i \in 1 .. n /\ x < x + i /\ x + i <= x + c
    BY <2>3
  <2>5. z[x + i] = e
    BY <1>2, <2>1, <2>2, <2>4
  <2> QED BY <1>3, <2>1, <2>4, <2>5
<1>5. ASSUME NEW row \in 1 .. n
      PROVE  /\ SliceOf(counts, row) \in 0 .. m - 1
             /\ row - StartIdx(counts, SliceOf(counts, row)) \in 1 .. counts[SliceOf(counts, row)]
  <2>1. PICK e \in 0 .. m - 1 : e = z[row]
    OBVIOUS
  <2>2. PICK x \in Nat : x = StartIdx(counts, e)
    BY <1>1
  <2>3. PICK c \in Nat : c = counts[e]
    OBVIOUS
  <2>4. x < row /\ row <= x + c
    BY <1>2, <2>1, <2>2, <2>3
  <2>5. row - x \in 1 .. c
    BY <2>4
  <2> QED BY <1>3, <2>1, <2>2, <2>3, <2>5
<1>6. \A a, b \in 1 .. n : a < b => SliceOf(counts, a) <= SliceOf(counts, b)
  BY <1>3
<1> QED BY <1>1, <1>4, <1>5, <1>6 DEF Cuts

(* Any lengths will do: number the pairs of a slice and a place in it, and *)
(* sort them by slice.                                                     *)
LEMMA AnyCuts ==
  ASSUME NEW m \in Nat, NEW counts \in [0 .. m - 1 -> Nat]
  PROVE  Cuts(counts, Total(counts, 0 .. m - 1), m)
<1>1. PICK U : U = UNION {{d} \X (1 .. counts[d]) : d \in 0 .. m - 1}
  OBVIOUS
<1>2. PICK n : n = Cardinality(U)
  OBVIOUS
<1>3. IsFiniteSet(U)
  <2>1. PICK sets : sets = {{d} \X (1 .. counts[d]) : d \in 0 .. m - 1}
    OBVIOUS
  <2>2. \A d \in 0 .. m - 1 : IsFiniteSet({d} \X (1 .. counts[d]))
    <3> TAKE d \in 0 .. m - 1
    <3>1. IsFiniteSet({d})
      BY FS_Singleton
    <3>2. IsFiniteSet(1 .. counts[d])
      BY FS_Interval
    <3> QED BY <3>1, <3>2, FS_Product
  <2>3. IsFiniteSet(sets)
    <3>1. IsFiniteSet(0 .. m - 1)
      BY FS_Interval
    <3>2. PICK f : f = [d \in 0 .. m - 1 |-> {d} \X (1 .. counts[d])]
      OBVIOUS
    <3>3. f \in Surjection(0 .. m - 1, sets)
      BY <2>1, <3>2 DEF Surjection
    <3> QED BY <3>1, <3>3, FS_Surjection
  <2>4. IsFiniteSet(UNION sets)
    BY <2>1, <2>2, <2>3, FS_UNION
  <2> QED BY <1>1, <2>1, <2>4
<1>4. n \in Nat /\ ExistsBijection(1 .. n, U)
  BY <1>2, <1>3, FS_CardinalityType
<1>5. PICK h : h \in Bijection(1 .. n, U)
  BY <1>4 DEF ExistsBijection
<1>6. /\ \A x \in 1 .. n : h[x] \in U
      /\ \A x, y \in 1 .. n : h[x] = h[y] => x = y
      /\ \A u \in U : \E x \in 1 .. n : h[x] = u
  BY <1>5 DEF Bijection, Injection, Surjection, IsInjective
<1>7. \A u : u \in U <=> \E d \in 0 .. m - 1 : \E i \in 1 .. counts[d] : u = <<d, i>>
  BY <1>1
<1>8. PICK key : key = [x \in 1 .. n |-> h[x][1]]
  OBVIOUS
<1>9. key \in [1 .. n -> 0 .. m - 1] /\ key \in [1 .. n -> Int]
  BY <1>6, <1>7, <1>8
<1>10. Counts(counts, 1 .. n, key, 0 .. m - 1)
  <2> SUFFICES ASSUME NEW d \in 0 .. m - 1
               PROVE  counts[d] = Cardinality({x \in 1 .. n : key[x] = d})
    BY DEF Counts
  <2>1. PICK X : X = {x \in 1 .. n : key[x] = d}
    OBVIOUS
  <2>2. PICK c \in Nat : c = counts[d]
    OBVIOUS
  <2>3. IsFiniteSet(1 .. c) /\ Cardinality(1 .. c) = c
    BY FS_Interval
  <2>4. PICK f : f = [x \in X |-> h[x][2]]
    OBVIOUS
  <2>5. \A x \in X : f[x] \in 1 .. c /\ h[x] = <<d, f[x]>>
    <3> TAKE x \in X
    <3>1. x \in 1 .. n /\ h[x][1] = d
      BY <1>8, <2>1
    <3>2. PICK e \in 0 .. m - 1 : \E i \in 1 .. counts[e] : h[x] = <<e, i>>
      BY <1>6, <1>7, <3>1
    <3>3. PICK i \in 1 .. counts[e] : h[x] = <<e, i>>
      BY <3>2
    <3>4. e = d /\ h[x][2] = i
      BY <3>1, <3>3
    <3> QED BY <2>2, <2>4, <3>3, <3>4
  <2>6. \A x, y \in X : f[x] = f[y] => x = y
    <3> TAKE x, y \in X
    <3> HAVE f[x] = f[y]
    <3>1. h[x] = h[y]
      BY <2>5, Zenon
    <3>2. x \in 1 .. n /\ y \in 1 .. n
      BY <2>1
    <3> QED BY <1>6, <3>1, <3>2
  <2>7. \A i \in 1 .. c : \E x \in X : f[x] = i
    <3> TAKE i \in 1 .. c
    <3>1. <<d, i>> \in U
      BY <1>7, <2>2
    <3>2. PICK x \in 1 .. n : h[x] = <<d, i>>
      BY <1>6, <3>1
    <3>3. x \in X
      BY <1>8, <2>1, <3>2
    <3>4. f[x] = i
      BY <2>4, <3>2, <3>3
    <3> QED BY <3>3, <3>4
  <2>8. Cardinality(X) = c
    BY <2>3, <2>5, <2>6, <2>7, OneToOne
  <2> QED BY <2>1, <2>2, <2>8
<1>11. PICK idxs : idxs = Argsort(key, "first")
  OBVIOUS
<1>12. Sorts(idxs, key, n)
  BY <1>4, <1>9, <1>11, ArgsortSorts
<1>13. PICK z : z = [row \in 1 .. n |-> key[idxs[row]]]
  OBVIOUS
<1>14. Slices(counts, z, n, m)
  BY <1>4, <1>9, <1>10, <1>12, <1>13, SortedKeys
<1>15. z \in [1 .. n -> 0 .. m - 1] /\ \A a, b \in 1 .. n : a < b => z[a] <= z[b]
  BY <1>9, <1>12, <1>13 DEF Sorts
<1>16. Cuts(counts, n, m)
  BY <1>4, <1>14, <1>15, SlicesCut
<1>17. n = Total(counts, 0 .. m - 1)
  BY <1>1, <1>2 DEF Total
<1> QED BY <1>16, <1>17

(* Rows sent to rank q: row i there came from this row of its source.      *)
SourceRow(splits, got, q, i) ==
  StartIdx(splits[SliceOf(got, i)], q) + i - StartIdx(got, SliceOf(got, i))
PlaceAt(splits, got, q, r, row) ==
  StartIdx(got, r) + row - StartIdx(splits[r], q)

(* A place at q is a row of slice q of some rank, and the other way round. *)
Exchanged(splits, got, n, k, m, q) ==
  /\ k \in Nat
  /\ \A i \in 1 .. k : /\ SliceOf(got, i) \in 0 .. m - 1
                       /\ SourceRow(splits, got, q, i) \in 1 .. n
                       /\ SliceOf(splits[SliceOf(got, i)], SourceRow(splits, got, q, i)) = q
                       /\ PlaceAt(splits, got, q, SliceOf(got, i), SourceRow(splits, got, q, i)) = i
  /\ \A r \in 0 .. m - 1, row \in 1 .. n : SliceOf(splits[r], row) = q =>
       /\ PlaceAt(splits, got, q, r, row) \in 1 .. k
       /\ SliceOf(got, PlaceAt(splits, got, q, r, row)) = r
       /\ SourceRow(splits, got, q, PlaceAt(splits, got, q, r, row)) = row
  /\ \A i, j \in 1 .. k : i < j =>
       \/ SliceOf(got, i) < SliceOf(got, j)
       \/ /\ SliceOf(got, i) = SliceOf(got, j)
          /\ SourceRow(splits, got, q, i) < SourceRow(splits, got, q, j)

LEMMA Exchange ==
  ASSUME NEW m \in Nat, NEW n \in Nat, NEW splits \in [0 .. m - 1 -> [0 .. m - 1 -> Nat]],
         \A r \in 0 .. m - 1 : Cuts(splits[r], n, m),
         NEW q \in 0 .. m - 1, NEW got, got = [r \in 0 .. m - 1 |-> splits[r][q]]
  PROVE  Exchanged(splits, got, n, Total(got, 0 .. m - 1), m, q)
<1>1. got \in [0 .. m - 1 -> Nat]
  OBVIOUS
<1>2. PICK k : k = Total(got, 0 .. m - 1)
  OBVIOUS
<1>3. Cuts(got, k, m)
  BY <1>1, <1>2, AnyCuts
<1>4. k \in Nat
  BY <1>3 DEF Cuts
<1>5. \A r \in 0 .. m - 1 : StartIdx(got, r) \in Nat /\ StartIdx(splits[r], q) \in Nat
  BY <1>3 DEF Cuts
<1>6. ASSUME NEW i \in 1 .. k
      PROVE  /\ SliceOf(got, i) \in 0 .. m - 1
             /\ SourceRow(splits, got, q, i) \in 1 .. n
             /\ SliceOf(splits[SliceOf(got, i)], SourceRow(splits, got, q, i)) = q
             /\ PlaceAt(splits, got, q, SliceOf(got, i), SourceRow(splits, got, q, i)) = i
  <2>1. PICK r \in 0 .. m - 1 : r = SliceOf(got, i)
    BY <1>3 DEF Cuts
  <2>2. PICK x \in Nat, y \in Nat : x = StartIdx(got, r) /\ y = StartIdx(splits[r], q)
    BY <1>5
  <2>3. i - x \in 1 .. got[r]
    BY <1>3, <2>1, <2>2 DEF Cuts
  <2>4. got[r] = splits[r][q]
    OBVIOUS
  <2>5. PICK d \in Nat : d = i - x
    <3>1. PICK c \in Nat : c = got[r]
      BY <1>1
    <3>2. i - x \in 1 .. c
      BY <2>3, <3>1
    <3>3. i - x \in Nat
      BY <3>2
    <3> QED BY <3>3
  <2>6. d \in 1 .. splits[r][q]
    BY <2>3, <2>4, <2>5
  <2>7. y + d \in 1 .. n /\ SliceOf(splits[r], y + d) = q
    BY <2>2, <2>6 DEF Cuts
  <2>8. SourceRow(splits, got, q, i) = y + i - x
    BY <2>1, <2>2 DEF SourceRow
  <2>9. y + i - x = y + d /\ x + (y + d) - y = i
    BY <2>2, <2>5
  <2>10. SourceRow(splits, got, q, i) = y + d
    BY <2>8, <2>9
  <2>11. PlaceAt(splits, got, q, r, y + d) = i
    BY <2>2, <2>9 DEF PlaceAt
  <2> QED BY <2>1, <2>7, <2>10, <2>11
<1>7. ASSUME NEW r \in 0 .. m - 1, NEW row \in 1 .. n, SliceOf(splits[r], row) = q
      PROVE  /\ PlaceAt(splits, got, q, r, row) \in 1 .. k
             /\ SliceOf(got, PlaceAt(splits, got, q, r, row)) = r
             /\ SourceRow(splits, got, q, PlaceAt(splits, got, q, r, row)) = row
  <2>1. PICK x \in Nat, y \in Nat : x = StartIdx(got, r) /\ y = StartIdx(splits[r], q)
    BY <1>5
  <2>2. row - y \in 1 .. splits[r][q]
    BY <1>7, <2>1 DEF Cuts
  <2>3. got[r] = splits[r][q]
    OBVIOUS
  <2>4. PICK d \in Nat : d = row - y
    BY <2>1, <2>2
  <2>5. d \in 1 .. got[r]
    BY <2>2, <2>3, <2>4
  <2>6. x + d \in 1 .. k /\ SliceOf(got, x + d) = r
    BY <1>3, <2>1, <2>5 DEF Cuts
  <2>7. x + row - y = x + d /\ y + (x + d) - x = row
    BY <2>1, <2>4
  <2>8. PlaceAt(splits, got, q, r, row) = x + d
    BY <2>1, <2>7 DEF PlaceAt
  <2>9. SourceRow(splits, got, q, x + d) = row
    BY <2>1, <2>6, <2>7 DEF SourceRow
  <2> QED BY <2>6, <2>8, <2>9
<1>8. ASSUME NEW i \in 1 .. k, NEW j \in 1 .. k, i < j
      PROVE  \/ SliceOf(got, i) < SliceOf(got, j)
             \/ /\ SliceOf(got, i) = SliceOf(got, j)
                /\ SourceRow(splits, got, q, i) < SourceRow(splits, got, q, j)
  <2>1. PICK r \in 0 .. m - 1 : r = SliceOf(got, i)
    BY <1>6
  <2>2. PICK t \in 0 .. m - 1 : t = SliceOf(got, j)
    BY <1>6
  <2>3. r <= t
    BY <1>3, <1>8, <2>1, <2>2 DEF Cuts
  <2>4. CASE r = t
    <3>1. PICK x \in Nat, y \in Nat : x = StartIdx(got, r) /\ y = StartIdx(splits[r], q)
      BY <1>5
    <3>2. SourceRow(splits, got, q, i) = y + i - x /\ SourceRow(splits, got, q, j) = y + j - x
      BY <2>1, <2>2, <2>4, <3>1 DEF SourceRow
    <3>3. y + i - x < y + j - x
      BY <1>8, <3>1
    <3> QED BY <2>1, <2>2, <2>4, <3>2, <3>3
  <2> QED BY <2>1, <2>2, <2>3, <2>4
<1>9. Exchanged(splits, got, n, k, m, q)
  BY <1>4, <1>6, <1>7, <1>8 DEF Exchanged
<1> QED BY <1>2, <1>9

(* What rank q receives, by place: the rank a row is from, its row there,  *)
(* and its expert among the h ones of rank q.                              *)
Arrived(rank, src, local, z, n, k, m, h, q) ==
  /\ rank \in [1 .. k -> 0 .. m - 1] /\ src \in [1 .. k -> 1 .. n]
  /\ local \in [1 .. k -> 0 .. h - 1]
  /\ \A i \in 1 .. k : z[rank[i]][src[i]] = q * h + local[i]
  /\ \A i, j \in 1 .. k : i < j => rank[i] < rank[j] \/ (rank[i] = rank[j] /\ src[i] < src[j])
  /\ \A r \in 0 .. m - 1, row \in 1 .. n : z[r][row] \div h = q =>
       \E i \in 1 .. k : rank[i] = r /\ src[i] = row

(* A row arrives once. *)
Distinct(rank, src, k) ==
  \A i, j \in 1 .. k : rank[i] = rank[j] /\ src[i] = src[j] => i = j
LEMMA PlacesDiffer ==
  ASSUME NEW rank, NEW src, NEW local, NEW z, NEW n \in Nat, NEW k \in Nat, NEW m \in Nat,
         NEW h, NEW q, Arrived(rank, src, local, z, n, k, m, h, q)
  PROVE  Distinct(rank, src, k)
<1> SUFFICES \A i, j \in 1 .. k : rank[i] = rank[j] /\ src[i] = src[j] => i = j
  BY DEF Distinct
<1> TAKE i, j \in 1 .. k
<1> HAVE rank[i] = rank[j] /\ src[i] = src[j]
<1>1. PICK r \in 0 .. m - 1, a \in 1 .. n : r = rank[i] /\ r = rank[j] /\ a = src[i] /\ a = src[j]
  BY DEF Arrived
<1>2. \A x, y \in 1 .. k : x < y => rank[x] < rank[y] \/ (rank[x] = rank[y] /\ src[x] < src[y])
  BY DEF Arrived
<1>3. ~(i < j)
  BY <1>1, <1>2
<1>4. ~(j < i)
  BY <1>1, <1>2
<1> QED BY <1>3, <1>4

(* Every rank has sorted its rows, and counted them by expert.             *)
AllCounted(counts, z, n, m, h) ==
  /\ \A r \in 0 .. m - 1 : z[r] \in [1 .. n -> 0 .. m * h - 1]
  /\ \A r \in 0 .. m - 1 : \A a, b \in 1 .. n : a < b => z[r][a] <= z[r][b]
  /\ \A r \in 0 .. m - 1 : Counts(counts[r], 1 .. n, z[r], 0 .. m * h - 1)

(* tokens_per_expert_group: how many of its rows each rank has for each    *)
(* expert, by expert of the rank.  The keys of the rows are in this order. *)
IsGroup(group, counts, m, h, q) ==
  group = [g \in 0 .. m * h - 1 |-> counts[g \div h][q * h + (g % h)]]
IsKey(key, rank, local, k, h) == key = [i \in 1 .. k |-> rank[i] * h + local[i]]
GroupKeys(group, key, local, k, w, h) ==
  /\ key \in [1 .. k -> 0 .. w - 1]
  /\ \A i \in 1 .. k : key[i] % h = local[i]
  /\ Counts(group, 1 .. k, key, 0 .. w - 1)
  /\ Slices(group, key, k, w)

(* Rows arrive by rank, and from each rank by expert: so in the order of   *)
(* their keys.                                                             *)
LEMMA GroupSlices ==
  ASSUME NEW m \in Nat, NEW n \in Nat, NEW k \in Nat, NEW h \in Nat \ {0}, NEW q \in 0 .. m - 1,
         NEW z, NEW counts, AllCounted(counts, z, n, m, h),
         NEW rank, NEW src, NEW local, Arrived(rank, src, local, z, n, k, m, h, q),
         NEW group, IsGroup(group, counts, m, h, q), NEW key, IsKey(key, rank, local, k, h)
  PROVE  GroupKeys(group, key, local, k, m * h, h)
<1>1. /\ rank \in [1 .. k -> 0 .. m - 1] /\ src \in [1 .. k -> 1 .. n]
      /\ local \in [1 .. k -> 0 .. h - 1]
  BY DEF Arrived
<1>2. \A i \in 1 .. k : z[rank[i]][src[i]] = q * h + local[i]
  BY DEF Arrived
<1>11. \A i, j \in 1 .. k : i < j => rank[i] < rank[j] \/ (rank[i] = rank[j] /\ src[i] < src[j])
  BY DEF Arrived
<1>12. \A r \in 0 .. m - 1, row \in 1 .. n : z[r][row] \div h = q =>
         \E i \in 1 .. k : rank[i] = r /\ src[i] = row
  BY Zenon DEF Arrived
<1>13. Distinct(rank, src, k)
  BY PlacesDiffer
<1>3. PICK w \in Nat : w = m * h
  BY TimesOrder
<1>4. ASSUME NEW i \in 1 .. k
      PROVE  /\ key[i] \in 0 .. w - 1 /\ key[i] % h = local[i] /\ key[i] \div h = rank[i]
             /\ key[i] = rank[i] * h + local[i]
  <2>1. PICK r \in 0 .. m - 1, l \in 0 .. h - 1 : r = rank[i] /\ l = local[i]
    BY <1>1
  <2>2. r * h + l \in 0 .. m * h - 1
    BY PairRange
  <2>3. (r * h + l) \div h = r /\ (r * h + l) % h = l
    <3>1. r \in Nat
      OBVIOUS
    <3> QED BY <3>1, DivUnique
  <2> QED BY <1>3, <2>1, <2>2, <2>3 DEF IsKey
<1>5. key \in [1 .. k -> 0 .. w - 1]
  BY <1>4 DEF IsKey
<1>6. ASSUME NEW i \in 1 .. k, NEW j \in 1 .. k, i < j PROVE key[i] <= key[j]
  <2>1. PICK r \in Nat, s \in Nat : r = rank[i] /\ s = rank[j]
    <3>1. PICK r \in 0 .. m - 1, s \in 0 .. m - 1 : r = rank[i] /\ s = rank[j]
      BY <1>1
    <3>2. r \in Nat /\ s \in Nat
      OBVIOUS
    <3> QED BY <3>1, <3>2
  <2>2. PICK l \in 0 .. h - 1, o \in 0 .. h - 1 : l = local[i] /\ o = local[j]
    BY <1>1
  <2>3. CASE r < s
    <3>1. r * h + l < s * h + o
      BY <2>3, DivOrder
    <3>2. r * h + l \in Int /\ s * h + o \in Int
      OBVIOUS
    <3> QED BY <1>4, <2>1, <2>2, <3>1, <3>2
  <2>4. CASE ~(r < s)
    <3>1. r = s /\ src[i] < src[j]
      BY <1>11, <1>6, <2>1, <2>4
    <3>2. r \in 0 .. m - 1
      BY <1>1, <2>1
    <3>3. PICK a \in 1 .. n, b \in 1 .. n : a = src[i] /\ b = src[j]
      BY <1>1
    <3>4. z[r][a] <= z[r][b]
      BY <3>1, <3>2, <3>3 DEF AllCounted
    <3>5. z[r][a] = q * h + l /\ z[r][b] = q * h + o
      BY <1>2, <2>1, <2>2, <3>1, <3>3
    <3>6. PICK x \in Nat : x = q * h
      OBVIOUS
    <3>7. l <= o
      BY <3>4, <3>5, <3>6
    <3>8. PICK y \in Nat : y = r * h
      OBVIOUS
    <3>9. y + l <= y + o
      BY <3>7
    <3> QED BY <1>4, <2>1, <2>2, <3>1, <3>8, <3>9
  <2> QED BY <2>3, <2>4
<1>7. ASSUME NEW g \in 0 .. w - 1 PROVE group[g] = Cardinality({i \in 1 .. k : key[i] = g})
  <2>1. PICK r \in 0 .. m - 1 : r = g \div h
    BY <1>3, PairOf
  <2>2. PICK l \in 0 .. h - 1 : l = g % h
    BY <1>3, PairOf
  <2>3. g = r * h + l
    BY <1>3, <2>1, <2>2, PairOf
  <2>4. PICK e \in 0 .. w - 1 : e = q * h + l
    BY <1>3, PairRange
  <2>5. group[g] = counts[r][e]
    BY <1>3, <2>1, <2>2, <2>4 DEF IsGroup
  <2>6. PICK Y : Y = {row \in 1 .. n : z[r][row] = e}
    OBVIOUS
  <2>7. counts[r][e] = Cardinality(Y)
    BY <1>3, <2>6 DEF AllCounted, Counts
  <2>8. PICK X : X = {i \in 1 .. k : key[i] = g}
    OBVIOUS
  <2>9. \A i \in 1 .. k : key[i] = g <=> rank[i] = r /\ local[i] = l
    BY <1>4, <2>1, <2>2, <2>3
  <2>10. \A i \in X : src[i] \in Y
    <3> TAKE i \in X
    <3>1. i \in 1 .. k /\ rank[i] = r /\ local[i] = l
      BY <2>8, <2>9
    <3>2. src[i] \in 1 .. n /\ z[r][src[i]] = q * h + l
      BY <1>1, <1>2, <3>1
    <3> QED BY <2>4, <2>6, <3>2
  <2>11. \A i, j \in X : src[i] = src[j] => i = j
    <3> TAKE i, j \in X
    <3> HAVE src[i] = src[j]
    <3>1. i \in 1 .. k /\ j \in 1 .. k /\ rank[i] = r /\ rank[j] = r
      BY <2>8, <2>9
    <3> QED BY <1>13, <3>1, Zenon DEF Distinct
  <2>12. \A row \in Y : \E i \in X : src[i] = row
    <3> TAKE row \in Y
    <3>1. row \in 1 .. n /\ z[r][row] = e
      BY <2>6
    <3>2. e \div h = q
      <4>1. q \in Nat
        OBVIOUS
      <4> QED BY <2>4, <4>1, DivUnique
    <3>2a. z[r][row] \div h = q
      BY <3>1, <3>2
    <3>3. PICK i \in 1 .. k : rank[i] = r /\ src[i] = row
      BY <1>12, <3>1, <3>2a, Zenon
    <3>4. PICK o \in 0 .. h - 1 : o = local[i]
      BY <1>1
    <3>5. q * h + o = q * h + l
      BY <1>2, <2>4, <3>1, <3>3, <3>4
    <3>6. PICK x \in Nat : x = q * h
      OBVIOUS
    <3>7. o = l
      BY <3>5, <3>6
    <3> QED BY <2>8, <2>9, <3>3, <3>4, <3>7
  <2>13. IsFiniteSet(Y)
    <3>1. IsFiniteSet(1 .. n)
      BY FS_Interval
    <3> QED BY <2>6, <3>1, FS_Subset
  <2>14. Cardinality(X) = Cardinality(Y)
    BY <2>10, <2>11, <2>12, <2>13, OneToOne
  <2> QED BY <2>5, <2>7, <2>8, <2>14
<1>8. Counts(group, 1 .. k, key, 0 .. w - 1)
  BY <1>7 DEF Counts
<1>9. DOMAIN group = 0 .. w - 1
  BY <1>3 DEF IsGroup
<1>10. Slices(group, key, k, w)
  BY <1>5, <1>6, <1>8, <1>9, SortedSlices
<1> QED BY <1>3, <1>4, <1>5, <1>8, <1>10 DEF GroupKeys

(* What a rank gives back: each row through its expert, in its place.      *)
Handled(outs, local, gathered, k, h, q) ==
  DOMAIN outs = 1 .. k /\ \A i \in 1 .. k : outs[i] = <<local[i] + q * h, gathered[i]>>

(* order, post_gather and outs of moe_infer on rank q *)
IsOrder(order, group, k, h, ties) ==
  order = Argsort([row \in 1 .. k |-> SliceOf(group, row) % h], ties)
IsPost(post, group, m, h) ==
  post = [i \in 0 .. h - 1 |-> Total(group, {g \in 0 .. m * h - 1 : g % h = i})]
IsOuts(outs, order, post, gathered, h, q) ==
  outs = Scatter(order, [row \in DOMAIN order |->
                           <<SliceOf(post, row) + q * h, gathered[order[row]]>>])

LEMMA RankHandles ==
  ASSUME NEW m \in Nat, NEW n \in Nat, NEW k \in Nat, NEW h \in Nat \ {0}, NEW q \in 0 .. m - 1,
         NEW z, NEW counts, AllCounted(counts, z, n, m, h),
         NEW rank, NEW src, NEW local, Arrived(rank, src, local, z, n, k, m, h, q),
         NEW group, IsGroup(group, counts, m, h, q),
         NEW ties, NEW order, IsOrder(order, group, k, h, ties),
         NEW post, IsPost(post, group, m, h),
         NEW gathered, NEW outs, IsOuts(outs, order, post, gathered, h, q)
  PROVE  Handled(outs, local, gathered, k, h, q)
<1>1. local \in [1 .. k -> 0 .. h - 1] /\ local \in [1 .. k -> Int]
  BY DEF Arrived
<1>2. PICK key : IsKey(key, rank, local, k, h)
  BY DEF IsKey
<1>3. PICK w \in Nat : w = m * h
  BY TimesOrder
<1>4. /\ key \in [1 .. k -> 0 .. w - 1]
      /\ \A i \in 1 .. k : key[i] % h = local[i]
      /\ Counts(group, 1 .. k, key, 0 .. w - 1)
      /\ Slices(group, key, k, w)
  <2>1. GroupKeys(group, key, local, k, m * h, h)
    BY <1>2, GroupSlices
  <2> QED BY <1>3, <2>1 DEF GroupKeys
<1>5. \A row \in 1 .. k : SliceOf(group, row) % h = local[row]
  BY <1>4 DEF Slices
<1>6. [row \in 1 .. k |-> SliceOf(group, row) % h] = local
  <2>1. [row \in 1 .. k |-> SliceOf(group, row) % h] = [row \in 1 .. k |-> local[row]]
    BY <1>5
  <2>2. local = [row \in 1 .. k |-> local[row]]
    BY <1>1
  <2> QED BY <2>1, <2>2
<1>7. order = Argsort(local, ties)
  BY <1>6 DEF IsOrder
<1>8. Sorts(order, local, k)
  BY <1>1, <1>7, ArgsortSorts
<1>9. Counts(post, 1 .. k, local, 0 .. h - 1)
  <2> SUFFICES ASSUME NEW i \in 0 .. h - 1
               PROVE  post[i] = Cardinality({x \in 1 .. k : local[x] = i})
    BY DEF Counts
  <2>1. PICK S : S = {g \in 0 .. w - 1 : g % h = i}
    OBVIOUS
  <2>2. post[i] = Total(group, S)
    BY <1>3, <2>1 DEF IsPost
  <2>3. Counts(group, 1 .. k, key, S)
    BY <1>4, <2>1 DEF Counts
  <2>4. IsFiniteSet(1 .. k)
    BY FS_Interval
  <2>5. Total(group, S) = Cardinality(Keyed(1 .. k, key, S))
    BY <2>3, <2>4, TotalCount
  <2>6. \A x \in 1 .. k : key[x] \in S <=> local[x] = i
    BY <1>4, <2>1
  <2>7. Keyed(1 .. k, key, S) = {x \in 1 .. k : local[x] = i}
    BY <2>6 DEF Keyed
  <2> QED BY <2>2, <2>5, <2>7
<1>10. DOMAIN post = 0 .. h - 1 /\ h \in Nat
  BY DEF IsPost
<1>11. Slices(post, [row \in 1 .. k |-> local[order[row]]], k, h)
  BY <1>1, <1>8, <1>9, <1>10, SortedKeys
<1>12. DOMAIN order = 1 .. k /\ \A row \in 1 .. k : order[row] \in 1 .. k
  BY <1>8 DEF Sorts
<1>13. \A row \in 1 .. k : SliceOf(post, row) = local[order[row]]
  BY <1>11 DEF Slices
<1>14. PICK rows : rows = [row \in DOMAIN order |->
                            <<SliceOf(post, row) + q * h, gathered[order[row]]>>]
  OBVIOUS
<1>15. PICK f : f = [i \in 1 .. k |-> <<local[i] + q * h, gathered[i]>>]
  OBVIOUS
<1>16. DOMAIN rows = 1 .. k /\ \A row \in 1 .. k : rows[row] = f[order[row]]
  BY <1>12, <1>13, <1>14, <1>15
<1>17. outs = Scatter(order, rows)
  BY <1>14 DEF IsOuts
<1>18. DOMAIN outs = 1 .. k /\ \A i \in 1 .. k : outs[i] = f[i]
  BY <1>8, <1>16, <1>17, ScatterBack
<1> QED BY <1>15, <1>18 DEF Handled

(* One rank's rows, in the order of their experts, and cut by the rank     *)
(* that has the expert.                                                    *)
Sends(s, idxs, counts, z, splits, n, R, h) ==
  /\ Sorts(idxs, s, n)
  /\ z \in [1 .. n -> 0 .. R * h - 1] /\ \A row \in 1 .. n : z[row] = s[idxs[row]]
  /\ \A a, b \in 1 .. n : a < b => z[a] <= z[b]
  /\ Counts(counts, 1 .. n, z, 0 .. R * h - 1)
  /\ splits \in [0 .. R - 1 -> Nat] /\ Cuts(splits, n, R)
  /\ \A row \in 1 .. n : SliceOf(splits, row) = z[row] \div h

(* The numbers of the experts a rank has. *)
ExpertsOfRank(S, R, h, q) ==
  /\ S \subseteq 0 .. R * h - 1
  /\ \A g \in 0 .. R * h - 1 : g \in S <=> g \div h = q

LEMMA RankRange ==
  ASSUME NEW R \in Nat, NEW h \in Nat \ {0}, NEW q \in 0 .. R - 1
  PROVE  ExpertsOfRank(q * h .. (q + 1) * h - 1, R, h, q)
<1>1. PICK x \in Nat : x = q * h
  OBVIOUS
<1>2. (q + 1) * h = x + h
  BY <1>1
<1>3. PICK S : S = q * h .. (q + 1) * h - 1
  OBVIOUS
<1>4. S = x .. x + h - 1
  BY <1>1, <1>2, <1>3
<1>5. ASSUME NEW g \in S PROVE g \in 0 .. R * h - 1 /\ g \div h = q
  <2>1. PICK r \in 0 .. h - 1 : g = x + r
    <3>1. g - x \in 0 .. h - 1 /\ g = x + (g - x)
      BY <1>4
    <3> QED BY <3>1
  <2>2. q * h + r \in 0 .. R * h - 1
    BY PairRange
  <2>3. (q * h + r) \div h = q
    <3>1. q \in Nat
      OBVIOUS
    <3> QED BY <3>1, DivUnique
  <2> QED BY <1>1, <2>1, <2>2, <2>3
<1>6. ASSUME NEW g \in 0 .. R * h - 1, g \div h = q PROVE g \in S
  <2>1. g % h \in 0 .. h - 1 /\ g = (g \div h) * h + (g % h)
    BY PairOf
  <2>2. PICK r \in 0 .. h - 1 : r = g % h
    BY <2>1
  <2>3. g = x + r
    BY <1>1, <1>6, <2>1, <2>2
  <2> QED BY <1>4, <2>3
<1> QED BY <1>3, <1>5, <1>6 DEF ExpertsOfRank

(* What moe_infer computes on one rank before it sends *)
RankOf(ids, ties, s, idxs, counts, z, splits, n, R, h) ==
  /\ s = Flat(ids) /\ idxs = Argsort(s, ties) /\ counts = TokensPerExpert(ids)
  /\ z = [row \in 1 .. n |-> s[idxs[row]]]
  /\ splits = [q \in 0 .. R - 1 |-> Total(counts, q * h .. (q + 1) * h - 1)]

LEMMA RankSends ==
  ASSUME NEW R \in Nat \ {0}, NEW h \in Nat \ {0}, R * h = RoutedExperts, NEW T \in Nat,
         NEW ids, Table(ids, T), NEW ties, NEW n \in Nat, n = T * TopK,
         NEW s, NEW idxs, NEW counts, NEW z, NEW splits,
         RankOf(ids, ties, s, idxs, counts, z, splits, n, R, h)
  PROVE  Sends(s, idxs, counts, z, splits, n, R, h)
<1>1. PICK w \in Nat : w = R * h /\ w = RoutedExperts
  BY TimesOrder
<1>2. FlatTable(ids, T, n, s)
  BY FlatOk DEF RankOf
<1>3. s \in [1 .. n -> 0 .. w - 1] /\ s \in [1 .. n -> Int]
  BY <1>1, <1>2 DEF FlatTable, MoeExperts
<1>4. Sorts(idxs, s, n)
  <2>1. idxs = Argsort(s, ties)
    BY DEF RankOf
  <2> QED BY <1>3, <2>1, ArgsortSorts
<1>5. \A row \in 1 .. n : idxs[row] \in 1 .. n
  BY <1>4 DEF Sorts
<1>6. z \in [1 .. n -> 0 .. w - 1] /\ \A row \in 1 .. n : z[row] = s[idxs[row]]
  BY <1>3, <1>5 DEF RankOf
<1>7. \A a, b \in 1 .. n : a < b => z[a] <= z[b]
  <2> TAKE a, b \in 1 .. n
  <2> HAVE a < b
  <2>1. s[idxs[a]] <= s[idxs[b]]
    BY <1>4 DEF Sorts
  <2>2. z[a] = s[idxs[a]] /\ z[b] = s[idxs[b]]
    BY <1>6
  <2> QED BY <2>1, <2>2
<1>8. Counts(counts, 1 .. n, s, 0 .. w - 1)
  <2>1. Counts(TokensPerExpert(ids), 1 .. T * TopK, Flat(ids), MoeExperts)
    BY TokensCounted
  <2>2. counts = TokensPerExpert(ids) /\ s = Flat(ids)
    BY DEF RankOf
  <2> QED BY <1>1, <2>1, <2>2 DEF MoeExperts
<1>9. Counts(counts, 1 .. n, z, 0 .. w - 1)
  <2>1. z = [row \in 1 .. n |-> s[idxs[row]]]
    BY DEF RankOf
  <2> QED BY <1>4, <1>8, <2>1, PermutedCounts
<1>10. PICK y : y = [row \in 1 .. n |-> z[row] \div h]
  OBVIOUS
<1>11. \A row \in 1 .. n : z[row] \in 0 .. R * h - 1
  BY <1>1, <1>6
<1>12. \A row \in 1 .. n : y[row] \in 0 .. R - 1
  <2> TAKE row \in 1 .. n
  <2>1. PICK g \in 0 .. R * h - 1 : g = z[row]
    BY <1>11
  <2>2. g \div h \in 0 .. R - 1
    BY PairOf
  <2> QED BY <1>10, <2>1, <2>2
<1>13. y \in [1 .. n -> 0 .. R - 1]
  BY <1>10, <1>12
<1>14. ASSUME NEW a \in 1 .. n, NEW b \in 1 .. n, a < b PROVE y[a] <= y[b]
  <2>1. PICK c \in Nat, d \in Nat : c = z[a] /\ d = z[b]
    <3>1. z[a] \in Nat /\ z[b] \in Nat
      BY <1>6
    <3> QED BY <3>1
  <2>2. c <= d
    BY <1>7, <1>14, <2>1
  <2>3. c \div h <= d \div h
    BY <2>2, DivMonotone
  <2> QED BY <1>10, <2>1, <2>3
<1>15. ASSUME NEW q \in 0 .. R - 1
       PROVE  splits[q] = Cardinality({row \in 1 .. n : y[row] = q})
  <2>1. PICK S : S = q * h .. (q + 1) * h - 1
    OBVIOUS
  <2>2. ExpertsOfRank(S, R, h, q)
    BY <2>1, RankRange
  <2>3. S \subseteq 0 .. w - 1 /\ \A g \in 0 .. w - 1 : g \in S <=> g \div h = q
    BY <1>1, <2>2 DEF ExpertsOfRank
  <2>4. Counts(counts, 1 .. n, z, S)
    BY <1>9, <2>3 DEF Counts
  <2>5. IsFiniteSet(1 .. n)
    BY FS_Interval
  <2>6. Total(counts, S) = Cardinality(Keyed(1 .. n, z, S))
    BY <2>4, <2>5, TotalCount
  <2>7. \A row \in 1 .. n : z[row] \in S <=> y[row] = q
    BY <1>6, <1>10, <2>3
  <2>8. Keyed(1 .. n, z, S) = {row \in 1 .. n : y[row] = q}
    BY <2>7 DEF Keyed
  <2> QED BY <2>1, <2>6, <2>8 DEF RankOf
<1>16. Counts(splits, 1 .. n, y, 0 .. R - 1) /\ DOMAIN splits = 0 .. R - 1
  BY <1>15 DEF Counts, RankOf
<1>17. Slices(splits, y, n, R)
  BY <1>13, <1>14, <1>16, SortedSlices
<1>18. splits \in [0 .. R - 1 -> Nat]
  <2>1. \A q \in 0 .. R - 1 : splits[q] \in Nat
    <3> TAKE q \in 0 .. R - 1
    <3>1. IsFiniteSet({row \in 1 .. n : y[row] = q})
      <4>1. IsFiniteSet(1 .. n)
        BY FS_Interval
      <4> QED BY <4>1, FS_Subset
    <3> QED BY <1>15, <3>1, FS_CardinalityType
  <2> QED BY <2>1 DEF RankOf
<1>19. Cuts(splits, n, R)
  BY <1>13, <1>14, <1>17, <1>18, SlicesCut
<1>20. \A row \in 1 .. n : SliceOf(splits, row) = z[row] \div h
  BY <1>10, <1>17 DEF Slices
<1> QED BY <1>1, <1>4, <1>6, <1>7, <1>9, <1>18, <1>19, <1>20 DEF Sends

(* All ranks send; what q gets, by rank; the rows it gathers.              *)
AllSend(s, idxs, counts, z, splits, n, R, h) ==
  /\ splits \in [0 .. R - 1 -> [0 .. R - 1 -> Nat]]
  /\ \A r \in 0 .. R - 1 : Sends(s[r], idxs[r], counts[r], z[r], splits[r], n, R, h)
IsReceived(got, splits, R, q) == got = [r \in 0 .. R - 1 |-> splits[r][q]]
IsGathered(gathered, got, splits, idxs, k, q) ==
  gathered = [row \in 1 .. k |->
    LET r == SliceOf(got, row)
    IN <<r, TokenOf(idxs[r][StartIdx(splits[r], q) + row - StartIdx(got, r)])>>]

(* Where a row comes back from, and what its expert made of it.            *)
Answers(outs, got, splits, idxs, z, n, R, h, q) ==
  \A r \in 0 .. R - 1, row \in 1 .. n : z[r][row] \div h = q =>
    outs[PlaceAt(splits, got, q, r, row)] = <<z[r][row], <<r, TokenOf(idxs[r][row])>>>>

LEMMA RowsArrive ==
  ASSUME NEW R \in Nat \ {0}, NEW h \in Nat \ {0}, NEW n \in Nat,
         NEW s, NEW idxs, NEW counts, NEW z, NEW splits,
         AllSend(s, idxs, counts, z, splits, n, R, h), NEW q \in 0 .. R - 1,
         NEW got, NEW k \in Nat, Exchanged(splits, got, n, k, R, q),
         NEW rank, rank = [i \in 1 .. k |-> SliceOf(got, i)],
         NEW src, src = [i \in 1 .. k |-> SourceRow(splits, got, q, i)],
         NEW local, local = [i \in 1 .. k |-> z[rank[i]][src[i]] % h]
  PROVE  Arrived(rank, src, local, z, n, k, R, h, q)
<1>1. \A i \in 1 .. k : /\ rank[i] = SliceOf(got, i) /\ src[i] = SourceRow(splits, got, q, i)
                        /\ rank[i] \in 0 .. R - 1 /\ src[i] \in 1 .. n
                        /\ SliceOf(splits[rank[i]], src[i]) = q
  BY DEF Exchanged
<1>2. rank \in [1 .. k -> 0 .. R - 1] /\ src \in [1 .. k -> 1 .. n]
  BY <1>1
<1>3. \A r \in 0 .. R - 1, row \in 1 .. n :
        z[r][row] \in 0 .. R * h - 1 /\ SliceOf(splits[r], row) = z[r][row] \div h
  BY DEF AllSend, Sends
<1>4. ASSUME NEW i \in 1 .. k
      PROVE  local[i] \in 0 .. h - 1 /\ z[rank[i]][src[i]] = q * h + local[i]
  <2>1. PICK g \in 0 .. R * h - 1 : g = z[rank[i]][src[i]]
    BY <1>1, <1>3
  <2>2. g \div h = q
    BY <1>1, <1>3, <2>1, Zenon
  <2>3. g % h \in 0 .. h - 1 /\ g = (g \div h) * h + (g % h)
    BY PairOf
  <2>4. local[i] = g % h
    BY <2>1
  <2> QED BY <2>1, <2>2, <2>3, <2>4
<1>5. local \in [1 .. k -> 0 .. h - 1]
  BY <1>4
<1>6. \A i, j \in 1 .. k : i < j => rank[i] < rank[j] \/ (rank[i] = rank[j] /\ src[i] < src[j])
  <2>1. \A i, j \in 1 .. k : i < j =>
          \/ SliceOf(got, i) < SliceOf(got, j)
          \/ /\ SliceOf(got, i) = SliceOf(got, j)
             /\ SourceRow(splits, got, q, i) < SourceRow(splits, got, q, j)
    BY DEF Exchanged
  <2> QED BY <1>1, <2>1, Zenon
<1>7. ASSUME NEW r \in 0 .. R - 1, NEW row \in 1 .. n, z[r][row] \div h = q
      PROVE  \E i \in 1 .. k : rank[i] = r /\ src[i] = row
  <2>1. SliceOf(splits[r], row) = q
    BY <1>3, <1>7, Zenon
  <2>2. PICK i \in 1 .. k : i = PlaceAt(splits, got, q, r, row)
    BY <2>1, Zenon DEF Exchanged
  <2>3. SliceOf(got, i) = r /\ SourceRow(splits, got, q, i) = row
    BY <2>1, <2>2, Zenon DEF Exchanged
  <2> QED BY <1>1, <2>3, Zenon
<1> QED BY <1>2, <1>4, <1>5, <1>6, <1>7, Zenon DEF Arrived

LEMMA RankAnswers ==
  ASSUME NEW R \in Nat \ {0}, NEW h \in Nat \ {0}, NEW n \in Nat,
         NEW s, NEW idxs, NEW counts, NEW z, NEW splits,
         AllSend(s, idxs, counts, z, splits, n, R, h), NEW q \in 0 .. R - 1,
         NEW got, IsReceived(got, splits, R, q), NEW k, k = Total(got, 0 .. R - 1),
         NEW gathered, IsGathered(gathered, got, splits, idxs, k, q),
         NEW group, IsGroup(group, counts, R, h, q),
         NEW ties, NEW order, IsOrder(order, group, k, h, ties),
         NEW post, IsPost(post, group, R, h),
         NEW outs, IsOuts(outs, order, post, gathered, h, q)
  PROVE  Answers(outs, got, splits, idxs, z, n, R, h, q)
<1>1. Exchanged(splits, got, n, k, R, q)
  <2>1. \A r \in 0 .. R - 1 : Cuts(splits[r], n, R)
    BY DEF AllSend, Sends
  <2>2. splits \in [0 .. R - 1 -> [0 .. R - 1 -> Nat]]
    BY DEF AllSend
  <2>3. got = [r \in 0 .. R - 1 |-> splits[r][q]] /\ R \in Nat
    BY DEF IsReceived
  <2> QED BY <2>1, <2>2, <2>3, Exchange
<1>2. k \in Nat
  BY <1>1 DEF Exchanged
<1>3. PICK rank, src : /\ rank = [i \in 1 .. k |-> SliceOf(got, i)]
                       /\ src = [i \in 1 .. k |-> SourceRow(splits, got, q, i)]
  OBVIOUS
<1>4. PICK local : local = [i \in 1 .. k |-> z[rank[i]][src[i]] % h]
  OBVIOUS
<1>5. Arrived(rank, src, local, z, n, k, R, h, q)
  BY <1>1, <1>2, <1>3, <1>4, RowsArrive
<1>6. AllCounted(counts, z, n, R, h)
  BY DEF AllSend, Sends, AllCounted
<1>7. Handled(outs, local, gathered, k, h, q)
  <2>1. R \in Nat
    OBVIOUS
  <2> QED BY <1>2, <1>5, <1>6, <2>1, RankHandles
<1>8. ASSUME NEW r \in 0 .. R - 1, NEW row \in 1 .. n, z[r][row] \div h = q
      PROVE  outs[PlaceAt(splits, got, q, r, row)] = <<z[r][row], <<r, TokenOf(idxs[r][row])>>>>
  <2>1. SliceOf(splits[r], row) = q
    BY <1>8, Zenon DEF AllSend, Sends
  <2>2. PICK i \in 1 .. k : i = PlaceAt(splits, got, q, r, row)
    BY <1>1, <2>1, Zenon DEF Exchanged
  <2>3. SliceOf(got, i) = r /\ SourceRow(splits, got, q, i) = row
    BY <1>1, <2>1, <2>2, Zenon DEF Exchanged
  <2>4. rank[i] = r /\ src[i] = row
    BY <1>3, <2>3
  <2>5. outs[i] = <<local[i] + q * h, gathered[i]>>
    BY <1>7 DEF Handled
  <2>6. z[r][row] = q * h + local[i] /\ local[i] \in 0 .. h - 1
    BY <1>5, <2>4, Zenon DEF Arrived
  <2>7. q * h + local[i] = local[i] + q * h
    <3>1. PICK x \in Nat : x = q * h
      OBVIOUS
    <3>2. PICK l \in 0 .. h - 1 : l = local[i]
      BY <2>6
    <3>3. x + l = l + x
      OBVIOUS
    <3> QED BY <3>1, <3>2, <3>3
  <2>8. gathered[i] = <<r, TokenOf(idxs[r][SourceRow(splits, got, q, i)])>>
    BY <2>3 DEF IsGathered, SourceRow
  <2>9. gathered[i] = <<r, TokenOf(idxs[r][row])>>
    BY <2>3, <2>8
  <2> QED BY <2>2, <2>5, <2>6, <2>7, <2>9
<1> QED BY <1>8, Zenon DEF Answers

(* What comes back to rank r *)
IsBack(back, idxs, splits, received, outs, r) ==
  back = [row \in DOMAIN idxs |->
    LET q == SliceOf(splits, row)
    IN outs[q][StartIdx(received[q], r) + row - StartIdx(splits, q)]]

(* What a rank calls its tokens. *)
IsOwn(own, r, T) == own = [t \in 1 .. T |-> <<r, t>>]
AllAnswer(outs, received, splits, idxs, z, n, R, h) ==
  \A q \in 0 .. R - 1 : Answers(outs[q], received[q], splits, idxs, z, n, R, h, q)
Gathers(idxs, back, ids, own, T) == Final(Scatter(idxs, back), T) = Given(ids, own, T)

LEMMA RankGathers ==
  ASSUME NEW R \in Nat \ {0}, NEW h \in Nat \ {0}, NEW T \in Nat, NEW n \in Nat, n = T * TopK,
         NEW s, NEW idxs, NEW counts, NEW z, NEW splits,
         AllSend(s, idxs, counts, z, splits, n, R, h),
         NEW received, NEW outs, AllAnswer(outs, received, splits, idxs, z, n, R, h),
         NEW r \in 0 .. R - 1, NEW ids, Table(ids, T), s[r] = Flat(ids),
         NEW back, IsBack(back, idxs[r], splits[r], received, outs, r),
         NEW own, IsOwn(own, r, T)
  PROVE  Gathers(idxs[r], back, ids, own, T)
<1>1. PICK sr, ix, zr : sr = s[r] /\ ix = idxs[r] /\ zr = z[r]
  OBVIOUS
<1>2. Sends(sr, ix, counts[r], zr, splits[r], n, R, h)
  BY <1>1 DEF AllSend
<1>3. Sorts(ix, sr, n) /\ \A row \in 1 .. n : zr[row] = sr[ix[row]]
  BY <1>2 DEF Sends
<1>4. DOMAIN ix = 1 .. n /\ \A row \in 1 .. n : ix[row] \in 1 .. n
  BY <1>3 DEF Sorts
<1>5. DOMAIN back = 1 .. n
  BY <1>1, <1>4 DEF IsBack
<1>6. PICK f : f = [p \in 1 .. n |-> <<sr[p], <<r, TokenOf(p)>>>>]
  OBVIOUS
<1>7. ASSUME NEW row \in 1 .. n PROVE back[row] = f[ix[row]]
  <2>1. PICK q : q = zr[row] \div h
    OBVIOUS
  <2>2. SliceOf(splits[r], row) = q
    BY <1>2, <2>1, Zenon DEF Sends
  <2>3. q \in 0 .. R - 1
    <3>1. zr[row] \in 0 .. R * h - 1
      BY <1>2 DEF Sends
    <3>2. PICK g \in 0 .. R * h - 1 : g = zr[row]
      BY <3>1
    <3>3. R \in Nat
      OBVIOUS
    <3>4. g \div h \in 0 .. R - 1
      BY <3>3, PairOf
    <3> QED BY <2>1, <3>2, <3>4
  <2>4. back[row] = outs[q][PlaceAt(splits, received[q], q, r, row)]
    BY <1>1, <1>4, <2>2 DEF IsBack, PlaceAt
  <2>5. outs[q][PlaceAt(splits, received[q], q, r, row)]
        = <<z[r][row], <<r, TokenOf(idxs[r][row])>>>>
    <3>1. Answers(outs[q], received[q], splits, idxs, z, n, R, h, q)
      BY <2>3 DEF AllAnswer
    <3>2. z[r][row] \div h = q
      BY <1>1, <2>1
    <3> QED BY <3>1, <3>2, Zenon DEF Answers
  <2>6. back[row] = <<sr[ix[row]], <<r, TokenOf(ix[row])>>>>
    BY <1>1, <1>3, <2>4, <2>5
  <2> QED BY <1>4, <1>6, <2>6
<1>8. \A p \in 1 .. n : Scatter(ix, back)[p] = f[p]
  BY <1>3, <1>5, <1>7, ScatterBack
<1>10. FlatTable(ids, T, n, sr)
  BY <1>1, FlatOk
<1>11. \A p \in 1 .. n : Scatter(ix, back)[p] = <<sr[p], own[TokenOf(p)]>>
  <2> TAKE p \in 1 .. n
  <2>1. TokenOf(p) \in 1 .. T
    BY <1>10 DEF FlatTable
  <2>2. own[TokenOf(p)] = <<r, TokenOf(p)>>
    BY <2>1 DEF IsOwn
  <2> QED BY <1>6, <1>8, <2>2
<1>12. PICK new_x : new_x = Scatter(ix, back)
  OBVIOUS
<1>13. \A p \in 1 .. T * TopK : new_x[p] = <<Flat(ids)[p], own[TokenOf(p)]>>
  BY <1>1, <1>11, <1>12
<1>14. Final(new_x, T) = Given(ids, own, T)
  BY <1>13, FinalOk
<1> QED BY <1>1, <1>12, <1>14 DEF Gathers

-----------------------------------------------------------------------------
(* moe_infer with several ranks *)
LEMMA EvenlyShared ==
  ASSUME NEW R \in Nat \ {0}, RoutedExperts % R = 0
  PROVE  RoutedExperts \div R \in Nat \ {0} /\ R * (RoutedExperts \div R) = RoutedExperts
<1>1. RoutedExperts \in Nat /\ RoutedExperts # 0
  BY MoeConstants
<1>2. /\ RoutedExperts \div R \in Nat
      /\ RoutedExperts = (RoutedExperts \div R) * R + (RoutedExperts % R)
  BY <1>1, DivMod
<1>3. PICK d \in Nat : d = RoutedExperts \div R
  BY <1>2
<1>4. RoutedExperts = d * R
  BY <1>2, <1>3
<1>5. d * R = R * d /\ d # 0
  BY <1>1, <1>4
<1> QED BY <1>3, <1>4, <1>5

(* What the ranks have to return *)
AllGiven(ids, R, T) == [r \in 1 .. R |-> Given(ids[r], [t \in 1 .. T |-> <<r - 1, t>>], T)]

LEMMA MoeInferEpOk ==
  ASSUME NEW R \in Nat \ {0}, RoutedExperts % R = 0, NEW T \in Nat,
         NEW ids, DOMAIN ids = 1 .. R, Len(ids) = R,
         \A r \in 1 .. R : Table(ids[r], T), NEW ties
  PROVE  MoeInferEp(ids, ties) = AllGiven(ids, R, T)
<1> DEFINE ranks == 0 .. Len(ids) - 1
           here == RoutedExperts \div Len(ids)
           idxs == [r \in ranks |-> Argsort(Flat(ids[r + 1]), ties)]
           counts == [r \in ranks |-> TokensPerExpert(ids[r + 1])]
           splits == [r \in ranks |-> [q \in ranks |->
                        Total(counts[r], q * here .. (q + 1) * here - 1)]]
           received == [q \in ranks |-> [r \in ranks |-> splits[r][q]]]
           group == [q \in ranks |-> [g \in MoeExperts |->
                       counts[g \div here][q * here + (g % here)]]]
           gathered == [q \in ranks |-> [row \in 1 .. Total(received[q], ranks) |->
             LET r == SliceOf(received[q], row)
             IN <<r, TokenOf(idxs[r][StartIdx(splits[r], q) + row
                                     - StartIdx(received[q], r)])>>]]
           order == [q \in ranks |->
             Argsort([row \in DOMAIN gathered[q] |-> SliceOf(group[q], row) % here], ties)]
           post_gather == [q \in ranks |-> [i \in 0 .. here - 1 |->
             Total(group[q], {g \in MoeExperts : g % here = i})]]
           outs == [q \in ranks |-> Scatter(order[q], [row \in DOMAIN order[q] |->
             <<SliceOf(post_gather[q], row) + q * here, gathered[q][order[q][row]]>>])]
           back == [r \in ranks |-> [row \in DOMAIN idxs[r] |->
             LET q == SliceOf(splits[r], row)
             IN outs[q][StartIdx(received[q], r) + row - StartIdx(splits[r], q)]]]
<1>1. MoeInferEp(ids, ties)
      = [r \in DOMAIN ids |-> Final(Scatter(idxs[r - 1], back[r - 1]), Len(ids[r]))]
  BY DEF MoeInferEp
<1>2. PICK n \in Nat : n = T * TopK
  BY MoeConstants
<1>3. here \in Nat \ {0} /\ R * here = RoutedExperts
  BY EvenlyShared
<1>4. ranks = 0 .. R - 1
  OBVIOUS
<1> DEFINE s == [r \in ranks |-> Flat(ids[r + 1])]
           z == [r \in ranks |-> [row \in 1 .. n |-> s[r][idxs[r][row]]]]
<1>5. ASSUME NEW r \in 0 .. R - 1
      PROVE  RankOf(ids[r + 1], ties, s[r], idxs[r], counts[r], z[r], splits[r], n, R, here)
  BY DEF RankOf
<1>6. MoeExperts = 0 .. R * here - 1
  BY <1>3 DEF MoeExperts
<1>7. ASSUME NEW q \in 0 .. R - 1
      PROVE  /\ IsReceived(received[q], splits, R, q)
             /\ IsGathered(gathered[q], received[q], splits, idxs, Total(received[q], 0 .. R - 1), q)
             /\ DOMAIN gathered[q] = 1 .. Total(received[q], 0 .. R - 1)
             /\ IsGroup(group[q], counts, R, here, q)
  BY <1>6 DEF IsReceived, IsGathered, IsGroup
<1>8. ASSUME NEW q \in 0 .. R - 1
      PROVE  /\ IsOrder(order[q], group[q], Total(received[q], 0 .. R - 1), here, ties)
             /\ IsPost(post_gather[q], group[q], R, here)
             /\ IsOuts(outs[q], order[q], post_gather[q], gathered[q], here, q)
  BY <1>6 DEF IsOrder, IsPost, IsOuts
<1>9. ASSUME NEW r \in 0 .. R - 1
      PROVE  IsBack(back[r], idxs[r], splits[r], received, outs, r)
  BY DEF IsBack
<1>10. /\ splits = [r \in 0 .. R - 1 |-> splits[r]]
       /\ \A r \in 0 .. R - 1 : s[r] = Flat(ids[r + 1])
  OBVIOUS
<1> HIDE DEF ranks, here, idxs, counts, splits, received, group, gathered, order, post_gather, outs,
             back, s, z
<1>11. \A r \in 0 .. R - 1 : r + 1 \in 1 .. R /\ Table(ids[r + 1], T)
  OBVIOUS
<1>12. \A r \in 0 .. R - 1 : Sends(s[r], idxs[r], counts[r], z[r], splits[r], n, R, here)
  BY <1>2, <1>3, <1>5, <1>11, RankSends
<1>13. AllSend(s, idxs, counts, z, splits, n, R, here)
  <2>1. \A r \in 0 .. R - 1 : splits[r] \in [0 .. R - 1 -> Nat]
    BY <1>12 DEF Sends
  <2>2. splits \in [0 .. R - 1 -> [0 .. R - 1 -> Nat]]
    BY <1>10, <2>1
  <2> QED BY <1>12, <2>2 DEF AllSend
<1>14. ASSUME NEW q \in 0 .. R - 1
       PROVE  Answers(outs[q], received[q], splits, idxs, z, n, R, here, q)
  <2>1. PICK got, ga, gr, ord, post, out :
          /\ got = received[q] /\ ga = gathered[q] /\ gr = group[q] /\ ord = order[q]
          /\ post = post_gather[q] /\ out = outs[q]
    OBVIOUS
  <2>2. PICK k : k = Total(got, 0 .. R - 1)
    OBVIOUS
  <2>3. /\ IsReceived(got, splits, R, q) /\ IsGathered(ga, got, splits, idxs, k, q)
        /\ IsGroup(gr, counts, R, here, q)
    BY <1>7, <2>1, <2>2
  <2>4. /\ IsOrder(ord, gr, k, here, ties) /\ IsPost(post, gr, R, here)
        /\ IsOuts(out, ord, post, ga, here, q)
    BY <1>8, <2>1, <2>2
  <2>5. Answers(out, got, splits, idxs, z, n, R, here, q)
    BY <1>3, <1>13, <2>2, <2>3, <2>4, RankAnswers
  <2> QED BY <2>1, <2>5
<1>15. ASSUME NEW r \in 0 .. R - 1
       PROVE  Final(Scatter(idxs[r], back[r]), T)
              = Given(ids[r + 1], [t \in 1 .. T |-> <<r, t>>], T)
  <2>1. PICK tab, bk : tab = ids[r + 1] /\ bk = back[r]
    OBVIOUS
  <2>2. Table(tab, T) /\ s[r] = Flat(tab)
    BY <1>10, <1>11, <2>1
  <2>3. IsBack(bk, idxs[r], splits[r], received, outs, r)
    BY <1>9, <2>1
  <2>4. AllAnswer(outs, received, splits, idxs, z, n, R, here)
    BY <1>14 DEF AllAnswer
  <2>5. PICK own : own = [t \in 1 .. T |-> <<r, t>>]
    OBVIOUS
  <2>6. IsOwn(own, r, T)
    BY <2>5 DEF IsOwn
  <2>7. Gathers(idxs[r], bk, tab, own, T)
    BY <1>2, <1>3, <1>13, <2>2, <2>3, <2>4, <2>6, RankGathers
  <2> QED BY <2>1, <2>5, <2>7 DEF Gathers
<1>16. ASSUME NEW r \in 1 .. R
       PROVE  Final(Scatter(idxs[r - 1], back[r - 1]), Len(ids[r]))
              = Given(ids[r], [t \in 1 .. T |-> <<r - 1, t>>], T)
  <2>1. PICK p \in 0 .. R - 1 : p = r - 1
    OBVIOUS
  <2>2. Len(ids[r]) = T
    BY FlatOk
  <2>3. p + 1 = r
    BY <2>1
  <2> QED BY <1>15, <2>1, <2>2, <2>3
<1> QED BY <1>1, <1>16 DEF AllGiven

(***************************************************************************)
(* The blocks: what each of them returns is what the router said.          *)
(***************************************************************************)

RightRow(out, ids, own, t) ==
  IF moe.experts = "KExpertsMarlin" /\ moe.tokens = 1
  THEN /\ {c[1] : c \in BagToSet(out)} = ToSet(ids[t])
       /\ out = SetToBag(BagToSet(out)) /\ Cardinality(BagToSet(out)) = TopK
  ELSE out = SetToBag({<<ids[t][j], own, <<t, j>>>> : j \in Slots})
RightRouted(routed) ==
  \A r \in DOMAIN topk_ids, t \in 1 .. moe.tokens :
    RightRow(routed[r][t], topk_ids[r], IF moe.ranks > 1 THEN <<r - 1, t>> ELSE t, t)
Served ==
  /\ moe.block = "KDeepseekV2" /\ moe.n_shared_experts
  /\ moe.experts \in {"KExpertsCPU", "KExpertsMarlin"}
Right(x) ==
  /\ x.kind = "output" => x.shared = HasShared /\ RightRouted(x.routed)
  /\ Served => x # Raises

RoutedTables ==
  /\ DOMAIN topk_ids = 1 .. moe.ranks /\ Len(topk_ids) = moe.ranks
  /\ \A r \in 1 .. moe.ranks : Table(topk_ids[r], moe.tokens)

(* A block has been chosen, then its tables, then it has returned.         *)
BlockTypes ==
  /\ moe = NoBlock \/ moe \in Blocks
  /\ moe = NoBlock => topk_ids = <<>>
  /\ topk_ids = <<>> => result = Pending
  /\ topk_ids # <<>> => RoutedTables

GivenInv == BlockTypes /\ GivenToItsExperts

LEMMA BlockConstants ==
  ASSUME moe \in Blocks
  PROVE  /\ moe.ranks \in {1, EpSize} /\ moe.tokens \in Nat \ {0}
         /\ moe.ranks \in Nat \ {0} /\ RoutedExperts % moe.ranks = 0
         /\ moe.n_shared_experts \in BOOLEAN
         /\ moe.block \notin {"DeepseekV2", "DeepseekV3"} => moe.ranks = 1
         /\ moe.block \notin KBlocks => moe.experts = "ModuleList"
         /\ moe.experts \in {"ModuleList", "KExpertsCPU", "KExpertsMarlin", "KExpertsTorch"}
<1>1. MaxTokens \in Nat /\ EpTokens \in Nat /\ EpSize \in Nat \ {0} /\ RoutedExperts \in Nat
  BY MoERoutingAssumption
<1>2. RoutedExperts % 1 = 0 /\ RoutedExperts % EpSize = 0
  BY <1>1, MoeConstants
<1>3. moe.ranks \in {1, EpSize}
  BY DEF Blocks
<1>4. moe.tokens \in 1 .. MaxTokens \/ moe.tokens \in 1 .. EpTokens
  BY DEF Blocks
<1>5. moe.n_shared_experts \in BOOLEAN
  BY DEF Blocks
<1>6. moe.block \notin {"DeepseekV2", "DeepseekV3"} => moe.ranks = 1
  BY DEF Blocks
<1>7. moe.block \notin KBlocks => moe.experts = "ModuleList"
  BY DEF Blocks
<1>8. moe.experts \in {"ModuleList", "KExpertsCPU", "KExpertsMarlin", "KExpertsTorch"}
  BY DEF Blocks
<1> QED BY <1>1, <1>2, <1>3, <1>4, <1>5, <1>6, <1>7, <1>8

(* What has to be returned for one rank, and for several *)
OneRank == Given(ids1, [t \in 1 .. moe.tokens |-> t], moe.tokens)

LEMMA RightHere ==
  ASSUME RoutedTables, moe.ranks = 1, ~(moe.experts = "KExpertsMarlin" /\ moe.tokens = 1)
  PROVE  Right(Sum(HasShared, Here(OneRank)))
<1>1. DOMAIN topk_ids = 1 .. 1
  BY DEF RoutedTables
<1>2. \A t \in 1 .. moe.tokens :
        OneRank[t] = SetToBag({<<ids1[t][j], t, <<t, j>>>> : j \in Slots})
  BY DEF OneRank, Given
<1>3. PICK routed : routed = Here(OneRank)
  OBVIOUS
<1>4. routed[1] = OneRank
  BY <1>3 DEF Here
<1>5. RightRouted(routed)
  BY <1>1, <1>2, <1>4 DEF RightRouted, RightRow, ids1
<1> QED BY <1>3, <1>5 DEF Right, Sum, Raises

LEMMA RightDecode ==
  ASSUME RoutedTables, moe.ranks = 1, moe.experts = "KExpertsMarlin", moe.tokens = 1,
         NEW outs, GivenOnce(ids1, outs[1])
  PROVE  Right(Sum(HasShared, Here(outs)))
<1>1. DOMAIN topk_ids = 1 .. 1
  BY DEF RoutedTables
<1>2. PICK routed : routed = Here(outs)
  OBVIOUS
<1>3. routed[1] = outs
  BY <1>2 DEF Here
<1>4. RightRow(routed[1][1], topk_ids[1], 1, 1)
  BY <1>3 DEF RightRow, GivenOnce, ids1
<1>5. RightRouted(routed)
  BY <1>1, <1>4 DEF RightRouted
<1> QED BY <1>2, <1>5 DEF Right, Sum, Raises

LEMMA RightThere ==
  ASSUME RoutedTables, moe.ranks \in Nat, moe.ranks > 1, moe.experts = "ModuleList", NEW routed,
         routed = [r \in 1 .. moe.ranks |->
                     Given(topk_ids[r], [t \in 1 .. moe.tokens |-> <<r - 1, t>>], moe.tokens)]
  PROVE  Right(Sum(HasShared, routed))
<1>1. DOMAIN topk_ids = 1 .. moe.ranks
  BY DEF RoutedTables
<1>2. ASSUME NEW r \in 1 .. moe.ranks, NEW t \in 1 .. moe.tokens
      PROVE  RightRow(routed[r][t], topk_ids[r], <<r - 1, t>>, t)
  <2>1. PICK own : own = [x \in 1 .. moe.tokens |-> <<r - 1, x>>]
    OBVIOUS
  <2>2. routed[r] = Given(topk_ids[r], own, moe.tokens)
    BY <2>1
  <2>3. own[t] = <<r - 1, t>>
    BY <2>1
  <2>4. routed[r][t] = SetToBag({<<topk_ids[r][t][j], own[t], <<t, j>>>> : j \in Slots})
    BY <2>2 DEF Given
  <2> QED BY <2>3, <2>4 DEF RightRow
<1>3. RightRouted(routed)
  BY <1>1, <1>2 DEF RightRouted
<1> QED BY <1>3 DEF Right, Sum, Raises

LEMMA RightRaises == ASSUME ~Served PROVE Right(Raises)
BY DEF Right, Raises

(* The ways of one rank that are not those of a single token on the GPU *)
LEMMA WaysAgree ==
  ASSUME RoutedTables, moe.ranks = 1, moe.tokens \in Nat
  PROVE  /\ Len(ids1) = moe.tokens
         /\ \A ties : MoeInfer(ids1, ties) = OneRank
         /\ MoeInferSimple(ids1) = OneRank /\ KExpertsCPUForward(ids1) = OneRank
         /\ OneHot(ids1, MoeExperts) = OneRank
         /\ \A cpu \in SUBSET MoeExperts : MarlinPrefill(ids1, cpu) = OneRank
<1>1. Table(ids1, moe.tokens)
  BY DEF RoutedTables, ids1
<1>0. PICK T \in Nat : T = moe.tokens
  OBVIOUS
<1>2. PICK ids : T = moe.tokens /\ ids = ids1
  BY <1>0
<1>3. Table(ids, T)
  BY <1>1, <1>2
<1>4. OneRank = Given(ids, [t \in 1 .. T |-> t], T)
  BY <1>2 DEF OneRank
<1>5. Len(ids) = T
  BY <1>3, FlatOk
<1>6. \A ties : MoeInfer(ids, ties) = Given(ids, [t \in 1 .. T |-> t], T)
  BY <1>3, MoeInferOk
<1>7. MoeInferSimple(ids) = Given(ids, [t \in 1 .. T |-> t], T)
  BY <1>3, MoeInferSimpleOk
<1>8. OneHot(ids, MoeExperts) = Given(ids, [t \in 1 .. T |-> t], T)
  BY <1>3, AllHot
<1>9. \A cpu \in SUBSET MoeExperts :
        MarlinPrefill(ids, cpu) = Given(ids, [t \in 1 .. T |-> t], T)
  BY <1>3, MarlinPrefillOk
<1> QED BY <1>2, <1>4, <1>5, <1>6, <1>7, <1>8, <1>9 DEF KExpertsCPUForward

(* A plain list of experts; KDeepseekV2MoE over the experts of a rule.     *)
LEMMA RightOnList ==
  ASSUME RoutedTables, moe.ranks = 1, moe.tokens \in Nat, moe.experts = "ModuleList", NEW ties
  PROVE  Right(OnList(ties))
<1>1. ~Served
  BY DEF Served
<1>2. Right(Raises)
  BY <1>1, RightRaises
<1>3. Right(Sum(HasShared, Here(OneRank)))
  BY RightHere
<1>4. MoeInfer(ids1, ties) = OneRank /\ MoeInferSimple(ids1) = OneRank
  BY WaysAgree
<1> QED BY <1>2, <1>3, <1>4 DEF OnList

LEMMA RightOneDecode ==
  ASSUME RoutedTables, moe.ranks = 1, moe.tokens \in Nat, moe.experts = "KExpertsCPU"
  PROVE  Right(OneDecode(HasShared))
<1>1. Right(Sum(HasShared, Here(OneRank)))
  BY RightHere
<1>2. KExpertsCPUForward(ids1) = OneRank
  BY WaysAgree
<1> QED BY <1>1, <1>2 DEF OneDecode

LEMMA RightCaptured ==
  ASSUME RoutedTables, moe.ranks = 1, moe.tokens \in Nat, moe.experts = "KExpertsCPU"
  PROVE  Right(Captured)
<1>1. Right(OneDecode(HasShared))
  BY RightOneDecode
<1>2. ~moe.n_shared_experts => Right(Raises)
  BY RightRaises DEF Served
<1> QED BY <1>1, <1>2 DEF Captured

LEMMA RightOnExperts ==
  ASSUME RoutedTables, moe.ranks = 1, moe.tokens \in Nat, moe.block = "KDeepseekV2",
         moe.experts \in {"KExpertsCPU", "KExpertsMarlin", "KExpertsTorch"},
         NEW cpu \in SUBSET MoeExperts, NEW cached
  PROVE  Right(OnExperts(cpu, cached))
<1>1. CASE ~moe.n_shared_experts \/ moe.experts = "KExpertsTorch"
  <2>1. ~Served
    BY <1>1 DEF Served
  <2> QED BY <1>1, <2>1, RightRaises DEF OnExperts
<1>2. CASE moe.n_shared_experts /\ moe.experts # "KExpertsTorch"
  <2>1. HasShared = 1
    BY <1>2 DEF HasShared
  <2>2. Len(ids1) = moe.tokens
    BY WaysAgree
  <2>3. CASE moe.experts = "KExpertsCPU"
    <3>1. OnExperts(cpu, cached) = Sum(1, Here(KExpertsCPUForward(ids1)))
      BY <1>2, <2>3 DEF OnExperts
    <3>2. Right(OneDecode(HasShared))
      BY <2>3, RightOneDecode
    <3> QED BY <2>1, <3>1, <3>2 DEF OneDecode
  <2>4. CASE moe.experts = "KExpertsMarlin" /\ moe.tokens = 1
    <3>1. OnExperts(cpu, cached) = Sum(1, Here(MarlinDecode(ids1, cpu, cached)))
      BY <1>2, <2>2, <2>4 DEF OnExperts, OneToken
    <3>2. Table(ids1, 1)
      BY <2>4 DEF RoutedTables, ids1
    <3>3. GivenOnce(ids1, MarlinDecode(ids1, cpu, cached)[1])
      BY <3>2, MarlinDecodeOk
    <3> QED BY <2>1, <2>4, <3>1, <3>3, RightDecode
  <2>5. CASE moe.experts = "KExpertsMarlin" /\ moe.tokens # 1
    <3>1. OnExperts(cpu, cached) = Sum(1, Here(MarlinPrefill(ids1, cpu)))
      BY <1>2, <2>2, <2>5 DEF OnExperts, OneToken
    <3>2. MarlinPrefill(ids1, cpu) = OneRank
      BY WaysAgree
    <3>3. Right(Sum(HasShared, Here(OneRank)))
      BY <2>5, RightHere
    <3> QED BY <2>1, <3>1, <3>2, <3>3
  <2> QED BY <1>2, <2>3, <2>4, <2>5
<1> QED BY <1>1, <1>2

(* Several ranks *)
LEMMA RightEp ==
  ASSUME moe \in Blocks, RoutedTables, moe.ranks > 1, moe.experts = "ModuleList", NEW ties
  PROVE  Right(Sum(HasShared, MoeInferEp(topk_ids, ties)))
<1>1. moe.ranks \in Nat \ {0} /\ RoutedExperts % moe.ranks = 0 /\ moe.tokens \in Nat
  BY BlockConstants
<1>2. PICK R \in Nat \ {0}, T \in Nat : R = moe.ranks /\ T = moe.tokens
  BY <1>1
<1>3. PICK ids : ids = topk_ids
  OBVIOUS
<1>4. DOMAIN ids = 1 .. R /\ Len(ids) = R /\ \A r \in 1 .. R : Table(ids[r], T)
  BY <1>2, <1>3 DEF RoutedTables
<1>5. RoutedExperts % R = 0
  BY <1>1, <1>2
<1>6. MoeInferEp(ids, ties) = AllGiven(ids, R, T)
  BY <1>4, <1>5, MoeInferEpOk
<1>7. PICK routed : routed = MoeInferEp(ids, ties)
  OBVIOUS
<1>8. routed = [r \in 1 .. moe.ranks |->
                  Given(topk_ids[r], [t \in 1 .. moe.tokens |-> <<r - 1, t>>], moe.tokens)]
  BY <1>2, <1>3, <1>6, <1>7 DEF AllGiven
<1>9. Right(Sum(HasShared, routed))
  BY <1>1, <1>8, RightThere
<1> QED BY <1>3, <1>7, <1>9

-----------------------------------------------------------------------------
(* A step that returns x *)
LEMMA StepReturns ==
  ASSUME GivenInv, moe \in Blocks, topk_ids # <<>>, NEW x, Right(x), Returns(x)
  PROVE  GivenInv'
<1>1. result' = x /\ moe' = moe /\ topk_ids' = topk_ids
  BY DEF Returns
<1>2. BlockTypes'
  BY <1>1 DEF GivenInv, BlockTypes, RoutedTables
<1>3. Right(result)'
  <2>1. HasShared' = HasShared
    BY <1>1 DEF HasShared
  <2>2. Served' <=> Served
    BY <1>1 DEF Served
  <2>3. ASSUME RightRouted(x.routed) PROVE RightRouted(result.routed)'
    <3>1. \A out, ids, own, t :
            RightRow(out, ids, own, t)' <=> RightRow(out, ids, own, t)
      BY <1>1, Zenon DEF RightRow
    <3>2. moe' = moe /\ topk_ids' = topk_ids /\ result' = x
      BY <1>1
    <3> QED BY <2>3, <3>1, <3>2, Zenon DEF RightRouted
  <2> QED BY <1>1, <2>1, <2>2, <2>3 DEF Right
<1>4. GivenToItsExperts'
  BY <1>3 DEF GivenToItsExperts, Right, RightRouted, RightRow, Served
<1> QED BY <1>2, <1>4 DEF GivenInv

LEMMA StepGiven ==
  ASSUME GivenInv, [MoeNext]_moeVars PROVE GivenInv'
<1>1. CASE UNCHANGED <<moe, topk_ids, result>>
  <2>1. HasShared' = HasShared
    BY <1>1 DEF HasShared
  <2>2. BlockTypes'
    BY <1>1 DEF GivenInv, BlockTypes, RoutedTables
  <2>3. GivenToItsExperts'
    BY <1>1, <2>1 DEF GivenInv, GivenToItsExperts
  <2> QED BY <2>2, <2>3 DEF GivenInv
<1>2. CASE Greedy \/ GroupLimitedGreedy \/ NoauxTc \/ GroupedTopk
  BY <1>1, <1>2 DEF Greedy, GroupLimitedGreedy, NoauxTc, GroupedTopk
<1>3. CASE Route
  <2>1. moe \in Blocks /\ moe' = moe /\ result' = result /\ result = Pending /\ moe # NoBlock
    BY <1>3 DEF Route, GivenInv, BlockTypes
  <2>2. PICK R \in Nat \ {0}, T \in Nat \ {0} : R = moe.ranks /\ T = moe.tokens
    BY <2>1, BlockConstants
  <2>3. RouterChoices \subseteq {f \in [Slots -> MoeExperts] :
                                   \A i, j \in Slots : f[i] = f[j] => i = j}
    BY DEF RouterChoices, Injection, IsInjective
  <2>4. PICK ids : ids = topk_ids'
    OBVIOUS
  <2>5. ids \in [1 .. R -> [1 .. T -> RouterChoices]]
    BY <1>3, <2>2, <2>4 DEF Route
  <2>6. ASSUME NEW r \in 1 .. R PROVE Table(ids[r], T)
    <3>1. PICK tab \in [1 .. T -> RouterChoices] : tab = ids[r]
      BY <2>5
    <3>2. \A t \in 1 .. T : /\ tab[t] \in [Slots -> MoeExperts]
                            /\ \A i, j \in Slots : tab[t][i] = tab[t][j] => i = j
      BY <2>3
    <3> QED BY <3>1, <3>2 DEF Table
  <2>7. DOMAIN ids = 1 .. R /\ Len(ids) = R
    BY <2>5, FunctionSeq
  <2>8. ids # <<>>
    BY <2>7
  <2>9. BlockTypes'
    BY <2>1, <2>2, <2>4, <2>6, <2>7, <2>8 DEF BlockTypes, RoutedTables
  <2>10. GivenToItsExperts'
    BY <2>1 DEF GivenToItsExperts, Pending, Raises
  <2> QED BY <2>9, <2>10 DEF GivenInv
<1>4. ASSUME topk_ids # <<>>
      PROVE  /\ moe \in Blocks /\ RoutedTables /\ moe.tokens \in Nat /\ moe.ranks \in Nat
             /\ moe.block \notin {"DeepseekV2", "DeepseekV3"} => moe.ranks = 1
             /\ moe.block \notin KBlocks => moe.experts = "ModuleList"
  BY <1>4, BlockConstants DEF GivenInv, BlockTypes
<1>5. CASE DeepseekMoE
  <2>1. topk_ids # <<>> /\ moe.block \in {"DeepseekV2", "DeepseekV3"}
    BY <1>5 DEF DeepseekMoE, Routed
  <2>2. /\ moe \in Blocks /\ RoutedTables /\ moe.tokens \in Nat /\ moe.ranks \in Nat \ {0}
        /\ moe.experts = "ModuleList"
    BY <1>4, <2>1, BlockConstants DEF KBlocks
  <2>3. PICK ties : Returns(Sum(HasShared, IF moe.ranks > 1 THEN MoeInferEp(topk_ids, ties)
                                          ELSE Here(MoeInfer(ids1, ties))))
    BY <1>5 DEF DeepseekMoE
  <2>4. CASE moe.ranks > 1
    <3>1. Right(Sum(HasShared, MoeInferEp(topk_ids, ties)))
      BY <2>2, <2>4, RightEp
    <3> QED BY <2>1, <2>2, <2>3, <2>4, <3>1, StepReturns
  <2>5. CASE ~(moe.ranks > 1)
    <3>1. moe.ranks = 1
      BY <2>2, <2>5
    <3>2. Right(Sum(HasShared, Here(OneRank)))
      BY <2>2, <3>1, RightHere
    <3>3. MoeInfer(ids1, ties) = OneRank
      BY <2>2, <3>1, WaysAgree
    <3>4. Returns(Sum(HasShared, Here(OneRank)))
      BY <2>3, <2>5, <3>3
    <3> QED BY <2>1, <2>2, <3>2, <3>4, StepReturns
  <2> QED BY <2>4, <2>5
<1>6. CASE Qwen2MoeSparseMoeBlock \/ MixtralSparseMoeBlock
  <2>1. topk_ids # <<>> /\ moe.block \in {"Qwen2Moe", "Mixtral"}
    BY <1>6 DEF Qwen2MoeSparseMoeBlock, MixtralSparseMoeBlock, Routed
  <2>2. /\ moe \in Blocks /\ RoutedTables /\ moe.tokens \in Nat /\ moe.ranks = 1
        /\ moe.experts = "ModuleList"
    BY <1>4, <2>1 DEF KBlocks
  <2>3. Returns(Sum(HasShared, Here(OneHot(ids1, MoeExperts))))
    BY <1>6 DEF Qwen2MoeSparseMoeBlock, MixtralSparseMoeBlock
  <2>4. OneHot(ids1, MoeExperts) = OneRank
    BY <2>2, WaysAgree
  <2>5. Right(Sum(HasShared, Here(OneRank)))
    BY <2>2, RightHere
  <2>6. Returns(Sum(HasShared, Here(OneRank)))
    BY <2>3, <2>4
  <2> QED BY <2>1, <2>2, <2>5, <2>6, StepReturns
<1>7. CASE KQwen2MoeSparseMoeBlock \/ KMistralSparseMoEBlock
  <2>1. topk_ids # <<>> /\ moe.block \in {"KQwen2Moe", "KMistral"}
    BY <1>7 DEF KQwen2MoeSparseMoeBlock, KMistralSparseMoEBlock, Routed
  <2>2. moe \in Blocks /\ RoutedTables /\ moe.tokens \in Nat /\ moe.ranks = 1
    BY <1>4, <2>1
  <2>3. Right(Raises)
    BY <2>1, RightRaises DEF Served
  <2>4. SubmitsForOneDecode => Right(OneDecode(HasShared))
    BY <2>2, RightOneDecode DEF SubmitsForOneDecode
  <2>5. PICK x : /\ Returns(x)
                 /\ x = Raises \/ (SubmitsForOneDecode /\ x = OneDecode(HasShared))
    BY <1>7, Zenon DEF KQwen2MoeSparseMoeBlock, KMistralSparseMoEBlock
  <2>6. Right(x)
    BY <2>3, <2>4, <2>5
  <2> QED BY <2>1, <2>2, <2>5, <2>6, StepReturns
<1>8. CASE KDeepseekV3MoE
  <2>1. topk_ids # <<>> /\ moe.block = "KDeepseekV3"
    BY <1>8 DEF KDeepseekV3MoE, Routed
  <2>2. moe \in Blocks /\ RoutedTables /\ moe.tokens \in Nat /\ moe.ranks = 1
    BY <1>4, <2>1
  <2>3. Right(Raises)
    BY <2>1, RightRaises DEF Served
  <2>4. SubmitsForOneDecode => Right(Captured)
    BY <2>2, RightCaptured DEF SubmitsForOneDecode
  <2>5. \A ties : IsList => Right(OnList(ties))
    BY <2>2, RightOnList DEF IsList
  <2>6. PICK ties : Returns(IF IsList THEN OnList(ties)
                            ELSE IF OneToken /\ SubmitsForOneDecode /\ moe.capturing THEN Captured
                            ELSE Raises)
    BY <1>8 DEF KDeepseekV3MoE
  <2>7. PICK x : x = IF IsList THEN OnList(ties)
                     ELSE IF OneToken /\ SubmitsForOneDecode /\ moe.capturing THEN Captured
                     ELSE Raises
    OBVIOUS
  <2>8. Right(x) /\ Returns(x)
    BY <2>3, <2>4, <2>5, <2>6, <2>7
  <2> QED BY <2>1, <2>2, <2>8, StepReturns
<1>9. CASE KDeepseekV2MoE
  <2>1. topk_ids # <<>> /\ moe.block = "KDeepseekV2"
    BY <1>9 DEF KDeepseekV2MoE, Routed
  <2>2. /\ moe \in Blocks /\ RoutedTables /\ moe.tokens \in Nat /\ moe.ranks = 1
        /\ moe.experts \in {"ModuleList", "KExpertsCPU", "KExpertsMarlin", "KExpertsTorch"}
    BY <1>4, <2>1, BlockConstants
  <2>3. PICK ties : \E cpu, cached \in SUBSET MoeExperts :
          Returns(IF IsList THEN OnList(ties)
                  ELSE IF OneToken /\ SubmitsForOneDecode /\ moe.capturing THEN Captured
                  ELSE OnExperts(cpu, cached))
    BY <1>9, Zenon DEF KDeepseekV2MoE
  <2>9. PICK cpu \in SUBSET MoeExperts, cached \in SUBSET MoeExperts :
          Returns(IF IsList THEN OnList(ties)
                  ELSE IF OneToken /\ SubmitsForOneDecode /\ moe.capturing THEN Captured
                  ELSE OnExperts(cpu, cached))
    BY <2>3, Zenon
  <2>4. SubmitsForOneDecode => Right(Captured)
    BY <2>2, RightCaptured DEF SubmitsForOneDecode
  <2>5. IsList => Right(OnList(ties))
    BY <2>2, RightOnList DEF IsList
  <2>6. ~IsList => Right(OnExperts(cpu, cached))
    BY <2>1, <2>2, RightOnExperts DEF IsList
  <2>7. PICK x : x = IF IsList THEN OnList(ties)
                     ELSE IF OneToken /\ SubmitsForOneDecode /\ moe.capturing THEN Captured
                     ELSE OnExperts(cpu, cached)
    OBVIOUS
  <2>8. Right(x) /\ Returns(x)
    BY <2>4, <2>5, <2>6, <2>7, <2>9
  <2> QED BY <2>1, <2>2, <2>8, StepReturns
<1>10. CASE UNCHANGED moeVars
  BY <1>1, <1>10 DEF moeVars
<1> QED BY <1>2, <1>3, <1>5, <1>6, <1>7, <1>8, <1>9, <1>10 DEF MoeNext

(* GivenToItsExperts: any number of experts, tokens and ranks, and any     *)
(* order of rows with equal keys that argsort may leave.                   *)
THEOREM TokensToTheirExperts == MoeSpec => []GivenToItsExperts
<1>1. ASSUME MoeInit PROVE GivenInv
  <2>1. result = Pending /\ topk_ids = <<>> /\ (moe = NoBlock \/ moe \in Blocks)
    BY <1>1 DEF MoeInit
  <2> QED BY <2>1 DEF GivenInv, BlockTypes, GivenToItsExperts, Pending, Raises
<1>2. GivenInv /\ [MoeNext]_moeVars => GivenInv'
  BY StepGiven
<1>3. GivenInv => GivenToItsExperts
  BY DEF GivenInv
<1> QED BY <1>1, <1>2, <1>3, PTL DEF MoeSpec

-----------------------------------------------------------------------------
(***************************************************************************)
(* GGUFTensors: a tensor that is loaded has what was written.              *)
(***************************************************************************)

(* The place of an element of a block of 256: half n, quarter j of it,     *)
(* half h of this, and the rest.                                           *)
At(e, n, j, h, l) ==
  /\ e \div 128 = n /\ (e % 128) \div 32 = j /\ (e % 32) \div 16 = h /\ e % 16 = l
  /\ e \div 32 = 4 * n + j /\ e % 32 = 16 * h + l
  /\ e \div 16 = 8 * n + 2 * j + h

LEMMA Places ==
  ASSUME NEW e \in 0 .. 255
  PROVE  \E n \in 0 .. 1, j \in 0 .. 3, h \in 0 .. 1, l \in 0 .. 15 : At(e, n, j, h, l)
<1>1. PICK n \in 0 .. 1, j \in 0 .. 3, h \in 0 .. 1, l \in 0 .. 15 :
        e = 128 * n + 32 * j + 16 * h + l
  <2>1. /\ e \div 128 \in 0 .. 1 /\ (e % 128) \div 32 \in 0 .. 3
        /\ (e % 32) \div 16 \in 0 .. 1 /\ e % 16 \in 0 .. 15
    OBVIOUS
  <2>2. e = 128 * (e \div 128) + 32 * ((e % 128) \div 32) + 16 * ((e % 32) \div 16) + (e % 16)
    OBVIOUS
  <2> QED BY <2>1, <2>2
<1>2. e \div 128 = n /\ e % 128 = 32 * j + 16 * h + l
  BY <1>1
<1>3. (e % 128) \div 32 = j
  BY <1>2
<1>4. e \div 32 = 4 * n + j /\ e % 32 = 16 * h + l
  BY <1>1
<1>5. (e % 32) \div 16 = h
  BY <1>4
<1>6. e \div 16 = 8 * n + 2 * j + h /\ e % 16 = l
  BY <1>1
<1> QED BY <1>2, <1>3, <1>4, <1>5, <1>6 DEF At

LEMMA SameQ8_0 == \A e : dequantize_q8_0(e) = q8_0_kernel(e)
BY DEF dequantize_q8_0, q8_0_kernel

LEMMA SameQ2_K == \A e \in 0 .. 255 : dequantize_q2_k(e) = q2_k_kernel(e)
<1> SUFFICES ASSUME NEW e \in 0 .. 255 PROVE dequantize_q2_k(e) = q2_k_kernel(e)
  OBVIOUS
<1>1. PICK n \in 0 .. 1, j \in 0 .. 3, h \in 0 .. 1, l \in 0 .. 15 : At(e, n, j, h, l)
  BY Places
<1>2. PICK k \in 0 .. 15 : k = 8 * n + 2 * j + h
  OBVIOUS
<1>3. Row(e, 16) = k /\ In(e, 16) = l
  BY <1>1, <1>2 DEF Row, In, At
<1>4. k \div 8 = n /\ k % 2 = h /\ (k % 8) \div 2 = j
  BY <1>2
<1>5. /\ e \div 128 = n /\ (e % 128) \div 32 = j /\ (e % 32) \div 16 = h /\ e % 16 = l
      /\ 16 + 32 * n + 16 * h + l \in Nat
  BY <1>1 DEF At
<1>6. dequantize_q2_k(e) =
        ElementWithMin(80, <<<<k, 0, 4>>>>, <<<<16 + 32 * n + 16 * h + l, 2 * j, 2>>>>,
                       82, <<<<k, 4, 4>>>>)
  BY <1>3, <1>4 DEF dequantize_q2_k
<1>7. q2_k_kernel(e) =
        ElementWithMin(80, <<<<k, 0, 4>>>>, <<<<16 + 32 * n + 16 * h + l, 2 * j, 2>>>>,
                       82, <<<<k, 4, 4>>>>)
  BY <1>2, <1>5 DEF q2_k_kernel
<1> QED BY <1>6, <1>7

LEMMA SameQ3_K == \A e \in 0 .. 255 : dequantize_q3_k(e) = q3_k_kernel(e)
<1> SUFFICES ASSUME NEW e \in 0 .. 255 PROVE dequantize_q3_k(e) = q3_k_kernel(e)
  OBVIOUS
<1>1. PICK n \in 0 .. 1, j \in 0 .. 3, h \in 0 .. 1, l \in 0 .. 15 : At(e, n, j, h, l)
  BY Places
<1>2. /\ e \div 128 = n /\ (e % 128) \div 32 = j /\ (e % 32) \div 16 = h /\ e % 16 = l
      /\ Row(e, 16) = 8 * n + 2 * j + h /\ In(e, 16) = l
  BY <1>1 DEF At, Row, In
<1> DEFINE k == Row(e, 16)
           is == 8 * (e \div 128) + 2 * ((e % 128) \div 32) + (e % 32) \div 16
<1>3. is = k /\ k \in 0 .. 15
  BY <1>2
<1>4. k \div 8 = n /\ k % 2 = h /\ (k % 8) \div 2 = j /\ k \div 2 = 4 * n + j
  <2>1. PICK c \in 0 .. 15 : c = k /\ c = 8 * n + 2 * j + h
    BY <1>2, <1>3
  <2> HIDE DEF k
  <2>2. c \div 8 = n /\ c % 2 = h /\ (c % 8) \div 2 = j /\ c \div 2 = 4 * n + j
    BY <2>1
  <2> QED BY <2>1, <2>2
<1>5. k \div 4 \in {0, 1, 2, 3} /\ k % 4 \in 0 .. 3
  BY <1>3
<1>6. PICK scale :
        scale = <<<<96 + 4 * ((k \div 4) % 2) + (k % 4), IF k \div 4 >= 2 THEN 4 ELSE 0, 4>>,
                  <<104 + (k % 4), 2 * (k \div 4), 2>>>>
  OBVIOUS
<1>7. [r \in 0 .. 3 |-> <<<<(IF r % 2 = 0 THEN 96 ELSE 100) + (k % 4), 4 * (r \div 2), 4>>,
                         <<104 + (k % 4), 2 * r, 2>>>>][k \div 4] = scale
  BY <1>5, <1>6
<1>8. [i \in 0 .. 3 |-> <<<<96 + 4 * (i % 2) + (is % 4), IF i >= 2 THEN 4 ELSE 0, 4>>,
                         <<96 + 4 * 2 + (is % 4), <<0, 2, 4, 6>>[i + 1], 2>>>>][is \div 4] = scale
  <2> HIDE DEF is, k
  <2> QED BY <1>3, <1>5, <1>6
<1>9. dequantize_q3_k(e) =
        Element(108, scale, 32,
          <<<<32 + 32 * (k \div 8) + 16 * (k % 2) + In(e, 16), 2 * ((k % 8) \div 2), 2>>,
            <<16 * (k % 2) + In(e, 16), k \div 2, 1>>>>, 4)
  BY <1>7, Zenon DEF dequantize_q3_k
<1>10. q3_k_kernel(e) =
         Element(108, scale, 32,
           <<<<32 + 32 * (e \div 128) + 16 * ((e % 32) \div 16) + (e % 16), 2 * ((e % 128) \div 32), 2>>,
             <<16 * ((e % 32) \div 16) + (e % 16), 4 * (e \div 128) + (e % 128) \div 32, 1>>>>, 4)
  BY <1>8, ZenonT(30) DEF q3_k_kernel
<1> HIDE DEF k, is
<1>11. /\ 32 * (k \div 8) + 16 * (k % 2) = 32 * (e \div 128) + 16 * ((e % 32) \div 16)
       /\ 16 * (k % 2) = 16 * ((e % 32) \div 16) /\ In(e, 16) = e % 16
       /\ (k % 8) \div 2 = (e % 128) \div 32
       /\ k \div 2 = 4 * (e \div 128) + (e % 128) \div 32
  BY <1>2, <1>4
<1>12. 32 + 32 * (k \div 8) + 16 * (k % 2) = 32 + 32 * (e \div 128) + 16 * ((e % 32) \div 16)
  BY <1>2, <1>4
<1> QED BY <1>9, <1>10, <1>11, <1>12

LEMMA SameQ6_K == \A e \in 0 .. 255 : dequantize_q6_k(e) = q6_k_kernel(e)
<1> SUFFICES ASSUME NEW e \in 0 .. 255 PROVE dequantize_q6_k(e) = q6_k_kernel(e)
  OBVIOUS
<1>1. PICK n \in 0 .. 1, j \in 0 .. 3, h \in 0 .. 1, l \in 0 .. 15 : At(e, n, j, h, l)
  BY Places
<1>2. PICK q \in 0 .. 7 : q = 4 * n + j
  OBVIOUS
<1>3. Row(e, 32) = q /\ In(e, 32) = 16 * h + l /\ Row(e, 16) = 8 * n + 2 * j + h
  BY <1>1, <1>2 DEF Row, In, At
<1>4. q \div 4 = n /\ q % 2 = j % 2 /\ q % 4 = j
  BY <1>2
<1>5. j \in {0, 1, 2, 3}
  OBVIOUS
<1>6. /\ e \div 128 = n /\ (e % 128) \div 32 = j /\ e % 32 = 16 * h + l
      /\ (16 * h + l) \div 16 = h
  BY <1>1 DEF At
<1>7. /\ <<0, 32, 0, 32>>[j + 1] = 32 * (j % 2)
      /\ <<0, 0, 4, 4>>[j + 1] = IF j < 2 THEN 0 ELSE 4
  BY <1>5
<1>8. PICK scale, quant :
        /\ scale = <<<<192 + (8 * n + 2 * j + h), 0, 8>>>>
        /\ quant = <<<<64 * n + 32 * (j % 2) + (16 * h + l), IF j < 2 THEN 0 ELSE 4, 4>>,
                     <<128 + 32 * n + (16 * h + l), 2 * j, 2>>>>
  OBVIOUS
<1>9. dequantize_q6_k(e) = Element(208, scale, 0, quant, 32)
  <2>1. dequantize_q6_k(e) =
          Element(208, <<<<192 + Row(e, 16), 0, 8>>>>, 0,
            <<<<64 * (Row(e, 32) \div 4) + 32 * (Row(e, 32) % 2) + In(e, 32),
                IF Row(e, 32) % 4 < 2 THEN 0 ELSE 4, 4>>,
              <<128 + 32 * (Row(e, 32) \div 4) + In(e, 32), 2 * (Row(e, 32) % 4), 2>>>>, 32)
    BY Zenon DEF dequantize_q6_k
  <2>2. Row(e, 32) \div 4 = n /\ Row(e, 32) % 2 = j % 2 /\ Row(e, 32) % 4 = j
    BY <1>3, <1>4
  <2>3. <<<<192 + Row(e, 16), 0, 8>>>> = scale
    BY <1>3, <1>8
  <2>4. <<<<64 * (Row(e, 32) \div 4) + 32 * (Row(e, 32) % 2) + In(e, 32),
            IF Row(e, 32) % 4 < 2 THEN 0 ELSE 4, 4>>,
          <<128 + 32 * (Row(e, 32) \div 4) + In(e, 32), 2 * (Row(e, 32) % 4), 2>>>> = quant
    BY <1>3, <1>8, <2>2
  <2> QED BY <2>1, <2>3, <2>4
<1>10. q6_k_kernel(e) = Element(208, scale, 0, quant, 32)
  BY <1>6, <1>7, <1>8 DEF q6_k_kernel
<1> QED BY <1>9, <1>10

LEMMA SameQ4_K == \A e \in 0 .. 255 : dequantize_q4_k(e) = q4_k_kernel(e)
<1> SUFFICES ASSUME NEW e \in 0 .. 255 PROVE dequantize_q4_k(e) = q4_k_kernel(e)
  OBVIOUS
<1>1. PICK s \in 0 .. 7 : s = e \div 32
  OBVIOUS
<1>2. Row(e, 32) = s /\ In(e, 32) = e % 32 /\ e \div 64 = s \div 2 /\ (e % 64) \div 32 = s % 2
      /\ 2 * (s \div 2) + (s % 2) = s
  BY <1>1 DEF Row, In
<1>3. GetScaleMinK4(s, 4).d = Factors(s) /\ GetScaleMinK4(s, 4).m = Offsets(s)
  BY DEF GetScaleMinK4, Factors, Offsets
<1> QED BY <1>2, <1>3 DEF dequantize_q4_k, q4_k_kernel

LEMMA SameQ5_K == \A e \in 0 .. 255 : dequantize_q5_k(e) = q5_k_kernel(e)
<1> SUFFICES ASSUME NEW e \in 0 .. 255 PROVE dequantize_q5_k(e) = q5_k_kernel(e)
  OBVIOUS
<1>1. PICK s \in 0 .. 7 : s = e \div 32
  OBVIOUS
<1>2. Row(e, 32) = s /\ In(e, 32) = e % 32 /\ e \div 64 = s \div 2 /\ (e % 64) \div 32 = s % 2
      /\ 2 * (s \div 2) + (s % 2) = s
  BY <1>1 DEF Row, In
<1>3. GetScaleMinK4(s, 4).d = Factors(s) /\ GetScaleMinK4(s, 4).m = Offsets(s)
  BY DEF GetScaleMinK4, Factors, Offsets
<1> QED BY <1>2, <1>3 DEF dequantize_q5_k, q5_k_kernel

LEMMA SameIQ4_XS == \A e \in 0 .. 255 : dequantize_iq4_xs(e) = iq4_xs_kernel(e)
<1> SUFFICES ASSUME NEW e \in 0 .. 255 PROVE dequantize_iq4_xs(e) = iq4_xs_kernel(e)
  OBVIOUS
<1>1. PICK s \in 0 .. 7 : s = e \div 32
  OBVIOUS
<1>2. Row(e, 32) = s /\ In(e, 32) = e % 32 /\ In(e, 16) = e % 16
  BY <1>1 DEF Row, In
<1>3. (2 * s) \div 8 = s \div 4 /\ (2 * s) % 8 = 2 * (s % 4)
  OBVIOUS
<1>4. 4 * ((e % 32) \div 16) = IF e % 32 < 16 THEN 0 ELSE 4
  OBVIOUS
<1> QED BY <1>1, <1>2, <1>3, <1>4 DEF dequantize_iq4_xs, iq4_xs_kernel, Element

(* A kernel reads the bits that numpy reads, whatever the type. *)
LEMMA SameBitsHold ==
  ASSUME NEW type \in GGML_NAMES \ (Copied \cup NoKernel)
  PROVE  SameBits[type]
<1>1. type \in {"Q8_0", "Q2_K", "Q3_K", "Q4_K", "Q5_K", "Q6_K", "IQ4_XS"}
  BY DEF GGML_NAMES, BLOCK_SIZES, Copied, NoKernel
<1>2. SameBits[type] = \A e \in 0 .. ELEMENTS_PER_BLOCK[type] - 1 :
                         GGML_DEQUANTIZE(type, e) = GGML_DEQUANTIZE_GPU(type, e)
  BY DEF SameBits
<1>3. ELEMENTS_PER_BLOCK[type] \in {32, 256} /\ (type # "Q8_0" => ELEMENTS_PER_BLOCK[type] = 256)
  BY <1>1 DEF ELEMENTS_PER_BLOCK
<1>4. ASSUME NEW e \in 0 .. ELEMENTS_PER_BLOCK[type] - 1
      PROVE  GGML_DEQUANTIZE(type, e) = GGML_DEQUANTIZE_GPU(type, e)
  <2>1. CASE type = "Q8_0"
    BY <2>1, SameQ8_0 DEF GGML_DEQUANTIZE, GGML_DEQUANTIZE_GPU
  <2>2. CASE type # "Q8_0"
    <3>1. e \in 0 .. 255
      BY <1>3, <2>2
    <3> QED BY <1>1, <2>2, <3>1, SameQ2_K, SameQ3_K, SameQ4_K, SameQ5_K, SameQ6_K, SameIQ4_XS
            DEF GGML_DEQUANTIZE, GGML_DEQUANTIZE_GPU
  <2> QED BY <2>1, <2>2
<1> QED BY <1>2, <1>4

(* The two tables agree on the bytes of a block. *)
LEMMA BlockBytes ==
  ASSUME NEW type \in GGML_NAMES
  PROVE  /\ type \in Types /\ QUANT_SIZES[type][2] = BLOCK_SIZES[type]
         /\ BLOCK_SIZES[type] \in Nat /\ ELEMENTS_PER_BLOCK[type] \in Nat \ {0}
BY DEF GGML_NAMES, Types, QUANT_SIZES, BLOCK_SIZES, ELEMENTS_PER_BLOCK

-----------------------------------------------------------------------------
(* Alignment: rounding up commutes with adding a multiple. *)

LEMMA Pad ==
  ASSUME NEW A \in Nat \ {0}, NEW x \in Nat
  PROVE  LET up == x + ((A - (x % A)) % A) IN up \in Nat /\ up % A = 0
<1>1. PICK q \in Nat, r \in 0 .. A - 1 : q = x \div A /\ r = x % A /\ x = q * A + r
  BY DivMod
<1>2. CASE r = 0
  <2>1. 0 \in 0 .. A - 1 /\ A = 1 * A + 0 /\ q * A + 0 = q * A
    OBVIOUS
  <2>2. A % A = 0 /\ (q * A) % A = 0
    BY <2>1, DivUnique
  <2>3. x % A = 0 /\ A - 0 = A /\ x = q * A
    BY <1>1, <1>2
  <2> QED BY <2>2, <2>3
<1>3. CASE r # 0
  <2>1. PICK s \in 0 .. A - 1 : s = A - r
    BY <1>3
  <2>2. s = 0 * A + s /\ 0 \in 0 .. A - 1
    OBVIOUS
  <2>3. s % A = s
    BY <2>2, DivUnique
  <2>4. x + s = (q + 1) * A + 0
    BY <1>1, <2>1
  <2>5. (x + s) % A = 0
    <3>1. PICK p \in Nat : p = q + 1
      OBVIOUS
    <3>2. (p * A + 0) % A = 0
      BY <2>2, DivUnique
    <3> QED BY <2>4, <3>1, <3>2
  <2> QED BY <1>1, <2>1, <2>3, <2>5
<1> QED BY <1>2, <1>3

LEMMA PadShift ==
  ASSUME NEW A \in Nat \ {0}, NEW x \in Nat, NEW c \in Nat, c % A = 0
  PROVE  (x + c) % A = x % A
<1>1. PICK q \in Nat, r \in 0 .. A - 1 : q = x \div A /\ r = x % A /\ x = q * A + r
  BY DivMod
<1>2. PICK m \in Nat : m = c \div A /\ c = m * A + 0
  BY DivMod
<1>3. PICK p \in Nat : p = q + m
  OBVIOUS
<1>4. p * A = q * A + m * A
  BY <1>3
<1>5. x + c = p * A + r
  <2>1. PICK u \in Nat, v \in Nat : u = q * A /\ v = m * A
    OBVIOUS
  <2>2. x = u + r /\ c = v /\ r \in Nat
    BY <1>1, <1>2, <2>1
  <2>3. x + c = (u + v) + r
    BY <2>2
  <2> QED BY <1>4, <2>1, <2>3
<1>6. (p * A + r) % A = r
  BY DivUnique
<1> QED BY <1>1, <1>5, <1>6

(* The blocks of an expert, by elements and by blocks. *)
WholeBlocks(blocks, per, experts, x) ==
  x = (blocks * per) \div experts /\ x % per = 0

LEMMA ExpertBlocks ==
  ASSUME NEW blocks \in Nat, NEW per \in Nat \ {0}, NEW experts \in Nat \ {0},
         NEW x \in Nat, WholeBlocks(blocks, per, experts, x)
  PROVE  x \div per = blocks \div experts
<1>1. PICK n \in Nat : n = blocks * per
  OBVIOUS
<1>2. PICK r \in 0 .. experts - 1 : x = n \div experts /\ n = x * experts + r
  <2>1. n % experts \in 0 .. experts - 1 /\ n = (n \div experts) * experts + (n % experts)
    BY DivMod
  <2>2. PICK r \in 0 .. experts - 1 : r = n % experts
    BY <2>1
  <2> QED BY <1>1, <2>1, <2>2 DEF WholeBlocks
<1>3. PICK b \in Nat : b = x \div per /\ x = b * per
  <2>1. x % per = 0
    BY DEF WholeBlocks
  <2>2. x = (x \div per) * per + (x % per) /\ x \div per \in Nat
    BY DivMod
  <2>3. PICK b \in Nat : b = x \div per
    BY <2>2
  <2> QED BY <2>1, <2>2, <2>3
<1>4. PICK w \in Nat : w = b * experts
  OBVIOUS
<1>5. blocks * per = w * per + r
  <2>1. x * experts = (b * experts) * per
    <3>1. (b * per) * experts = (b * experts) * per
      OBVIOUS
    <3> QED BY <1>3, <3>1
  <2> QED BY <1>1, <1>2, <1>4, <2>1
<1>6. r \in Nat
  OBVIOUS
<1>7. w <= blocks
  <2> SUFFICES ASSUME blocks + 1 <= w PROVE FALSE
    OBVIOUS
  <2>1. PICK d \in Nat : w = blocks + 1 + d
    <3>1. w = blocks + 1 + (w - (blocks + 1)) /\ w - (blocks + 1) \in Nat
      OBVIOUS
    <3> QED BY <3>1
  <2>2. w * per = blocks * per + per + d * per /\ d * per \in Nat /\ blocks * per \in Nat
    BY <2>1
  <2> QED BY <1>5, <1>6, <2>2
<1>8. PICK s \in Nat : blocks = w + s
  <2>1. blocks = w + (blocks - w) /\ blocks - w \in Nat
    BY <1>7
  <2> QED BY <2>1
<1>9. s * per = r
  <2>1. blocks * per = w * per + s * per /\ w * per \in Nat /\ s * per \in Nat
    BY <1>8
  <2> QED BY <1>5, <1>6, <2>1
<1>10. s \in 0 .. experts - 1
  <2>1. PICK p \in Nat : per = p + 1
    <3>1. per = (per - 1) + 1 /\ per - 1 \in Nat
      OBVIOUS
    <3> QED BY <3>1
  <2>2. s * per = s * p + s /\ s * p \in Nat
    BY <2>1
  <2> QED BY <1>9, <2>2
<1>11. blocks \div experts = b
  BY <1>4, <1>8, <1>10, DivUnique
<1> QED BY <1>1, <1>2, <1>3, <1>11

-----------------------------------------------------------------------------
(* Converted blocks *)

Formats == {"bf16", "fp16", "fp32"}
LoadedBlocks == [from : Int, by : {"copy", "cpu", "cuda"}, bits : Formats, dtype : Formats]

LEMMA ConcatSeq ==
  ASSUME NEW S, NEW s \in Seq(S), NEW t \in Seq(S)
  PROVE  s \o t \in Seq(S) /\ Len(s \o t) = Len(s) + Len(t)
OBVIOUS

(* Block v is block b of the tensor, whichever device converted it. *)
IsBlock(v, b) == v.from = Written(b) /\ (v.by = "cuda" => SameBits[gguf.type])

(* What torch takes the bits of a converted block for. *)
Taken(v) == IF gguf.type = "BF16" THEN v.bits = "bf16" ELSE v.bits = v.dtype

(* k blocks converted from block a of the bytes data on *)
AreBlocks(vs, data, a, k) ==
  /\ vs \in Seq(LoadedBlocks) /\ Len(vs) = k
  /\ \A i \in 1 .. k : /\ vs[i].from = data + (a + i - 1) * BLOCK_SIZES[gguf.type]
                       /\ vs[i].by = "cuda" => SameBits[gguf.type]
                       /\ Taken(vs[i])

LEMMA ConvertBlocks ==
  ASSUME ~NotImplemented, request.device \in {"cpu", "cuda"}, NEW data \in Int, NEW a \in Nat, NEW b \in Nat, a <= b,
         NEW target \in Formats
  PROVE  AreBlocks(Convert(data, a, b, target), data, a, b - a)
<1> PICK k \in Nat : k = b - a
  OBVIOUS
<1> PICK vs : vs = Convert(data, a, b, target)
  OBVIOUS
<1>1. gguf.type \in GGML_NAMES /\ (request.device = "cuda" => gguf.type \notin NoKernel)
  BY DEF NotImplemented
<1>2. ASSUME NEW i \in 1 .. k
      PROVE  /\ vs[i] \in LoadedBlocks
             /\ vs[i].from = data + (a + i - 1) * BLOCK_SIZES[gguf.type]
             /\ vs[i].by = "cuda" => SameBits[gguf.type]
             /\ Taken(vs[i])
  <2>1. BLOCK_SIZES[gguf.type] \in Nat
    BY <1>1, BlockBytes
  <2>2. PICK from \in Int : from = data + (a + i - 1) * BLOCK_SIZES[gguf.type]
    <3>0. a + i - 1 \in Nat
      OBVIOUS
    <3>1. PICK n \in Nat, size \in Nat : n = a + i - 1 /\ size = BLOCK_SIZES[gguf.type]
      BY <2>1, <3>0
    <3>2. n * size \in Nat
      OBVIOUS
    <3> QED BY <3>1, <3>2
  <2>3. PICK by : by = IF gguf.type \in Copied THEN "copy" ELSE request.device
    OBVIOUS
  <2>4. PICK bits : bits = IF gguf.type = "BF16" THEN "bf16"
                          ELSE IF request.device = "cuda" THEN target
                          ELSE IF gguf.type \in Copied THEN Native(gguf.type) ELSE "fp32"
    OBVIOUS
  <2>5. vs[i] = [from |-> from, by |-> by, bits |-> bits,
                 dtype |-> IF gguf.type = "BF16" THEN "fp16" ELSE bits]
    BY <2>2, <2>3, <2>4 DEF Convert
  <2>6. bits \in Formats
    BY <2>4 DEF Native, Formats
  <2>7. by = "cuda" => SameBits[gguf.type]
    BY <1>1, <2>3, SameBitsHold
  <2>8. by \in {"copy", "cpu", "cuda"}
    BY <2>3
  <2>9. PICK dtype \in Formats : dtype = IF gguf.type = "BF16" THEN "fp16" ELSE bits
    BY <2>6 DEF Formats
  <2>10. vs[i] = [from |-> from, by |-> by, bits |-> bits, dtype |-> dtype]
    BY <2>5, <2>9
  <2>11. vs[i] \in LoadedBlocks
    BY <2>6, <2>8, <2>10 DEF LoadedBlocks
  <2>12. Taken(vs[i])
    BY <2>4, <2>9, <2>10 DEF Taken
  <2> QED BY <2>2, <2>7, <2>10, <2>11, <2>12
<1>3. vs = [i \in 1 .. k |-> vs[i]]
  BY DEF Convert
<1>4. vs \in [1 .. k -> LoadedBlocks]
  BY <1>2, <1>3
<1>5. vs \in Seq(LoadedBlocks) /\ Len(vs) = k
  BY <1>4, FunctionSeq
<1>6. AreBlocks(vs, data, a, k)
  BY <1>2, <1>5 DEF AreBlocks
<1> QED BY <1>6

LEMMA ViewBlocks ==
  ASSUME NEW vs \in Seq(LoadedBlocks)
  PROVE  /\ ViewAll(vs) \in Seq(LoadedBlocks) /\ Len(ViewAll(vs)) = Len(vs)
         /\ \A i \in 1 .. Len(vs) :
              /\ ViewAll(vs)[i].from = vs[i].from /\ ViewAll(vs)[i].by = vs[i].by
              /\ ViewAll(vs)[i].bits = vs[i].bits
              /\ ViewAll(vs)[i].dtype = IF gguf.type = "BF16" THEN "bf16" ELSE vs[i].dtype
<1>1. DOMAIN vs = 1 .. Len(vs) /\ Len(vs) \in Nat
  OBVIOUS
<1>2. ASSUME NEW i \in 1 .. Len(vs)
      PROVE  /\ ViewAll(vs)[i] \in LoadedBlocks
             /\ ViewAll(vs)[i].from = vs[i].from /\ ViewAll(vs)[i].by = vs[i].by
             /\ ViewAll(vs)[i].bits = vs[i].bits
             /\ ViewAll(vs)[i].dtype = IF gguf.type = "BF16" THEN "bf16" ELSE vs[i].dtype
  <2>1. vs[i] \in LoadedBlocks
    OBVIOUS
  <2>2. ViewAll(vs)[i] = ViewBF16(vs[i])
    BY <1>1 DEF ViewAll
  <2>3. PICK v \in LoadedBlocks : v = vs[i]
    BY <2>1
  <2>4. CASE gguf.type = "BF16"
    <3>1. ViewBF16(v) = [v EXCEPT !.dtype = "bf16"]
      BY <2>4 DEF ViewBF16
    <3>2. [v EXCEPT !.dtype = "bf16"] \in LoadedBlocks
      BY DEF LoadedBlocks, Formats
    <3> QED BY <2>2, <2>3, <2>4, <3>1, <3>2 DEF LoadedBlocks
  <2>5. CASE gguf.type # "BF16"
    BY <2>2, <2>3, <2>5 DEF ViewBF16
  <2> QED BY <2>4, <2>5
<1>3. ViewAll(vs) \in [1 .. Len(vs) -> LoadedBlocks]
  BY <1>1, <1>2 DEF ViewAll
<1> QED BY <1>1, <1>2, <1>3, FunctionSeq

LEMMA AssignBlocks ==
  ASSUME NEW vs \in Seq(LoadedBlocks), NEW target \in Formats,
         \A i \in 1 .. Len(vs) : vs[i].bits = vs[i].dtype
  PROVE  /\ AssignAll(vs, target) \in Seq(LoadedBlocks) /\ Len(AssignAll(vs, target)) = Len(vs)
         /\ \A i \in 1 .. Len(vs) :
              /\ AssignAll(vs, target)[i].from = vs[i].from
              /\ AssignAll(vs, target)[i].by = vs[i].by
              /\ AssignAll(vs, target)[i].bits = target
              /\ AssignAll(vs, target)[i].dtype = target
<1>1. DOMAIN vs = 1 .. Len(vs) /\ Len(vs) \in Nat
  OBVIOUS
<1>2. ASSUME NEW i \in 1 .. Len(vs)
      PROVE  /\ AssignAll(vs, target)[i] \in LoadedBlocks
             /\ AssignAll(vs, target)[i].from = vs[i].from
             /\ AssignAll(vs, target)[i].by = vs[i].by
             /\ AssignAll(vs, target)[i].bits = target
             /\ AssignAll(vs, target)[i].dtype = target
  <2>1. vs[i] \in LoadedBlocks /\ vs[i].bits = vs[i].dtype
    OBVIOUS
  <2>2. AssignAll(vs, target)[i] = Assigned(vs[i], target)
    BY <1>1 DEF AssignAll
  <2> QED BY <2>1, <2>2 DEF Assigned, LoadedBlocks
<1>3. AssignAll(vs, target) \in [1 .. Len(vs) -> LoadedBlocks]
  BY <1>1, <1>2 DEF AssignAll
<1> QED BY <1>1, <1>2, <1>3, FunctionSeq

-----------------------------------------------------------------------------
(* The invariant: the offset is where the tensor was written, and the loop *)
(* over a large tensor has converted the blocks before its next piece.     *)

FileTypes ==
  /\ gguf.type \in Types /\ gguf.blocks \in Nat \ {0} /\ gguf.experts \in Nat \ {0}
  /\ gguf.before \in TensorsBefore /\ gguf.header_end \in Nat /\ gguf.alignment \in Nat \ {0}
  /\ request.call \in {"tensor", "expert"} /\ request.expert_id \in Nat
  /\ request.device \in {"cpu", "cuda"} /\ request.target_dtype \in Formats

OffsetInv ==
  offset # -1 => offset \in Nat /\ offset = Aligned(gguf.header_end) + BadOffset

Upto(l) == IF l * BlocksPerIter < gguf.blocks THEN l * BlocksPerIter ELSE gguf.blocks

Pieces(l, vs) ==
  /\ vs \in Seq(LoadedBlocks) /\ Len(vs) = Upto(l)
  /\ \A i \in 1 .. Len(vs) : /\ IsBlock(vs[i], i - 1)
                             /\ vs[i].bits = request.target_dtype
                             /\ vs[i].dtype = request.target_dtype

LoopInv ==
  outcome = "none" /\ request.call = "tensor" /\ IsLarge =>
    loop \in Nat /\ loop <= Iterations /\ Pieces(loop, values)

TensorInv == FileTypes /\ OffsetInv /\ LoopInv /\ LoadedAsWritten

(* The conclusion of LoadedAsWritten, of the values vs *)
AsWritten(vs) ==
  /\ Len(vs) = BlockCount
  /\ \A i \in DOMAIN vs :
       /\ IsBlock(vs[i], FirstBlock + i - 1)
       /\ \/ vs[i].bits = vs[i].dtype
          \/ /\ gguf.type = "BF16" /\ IsLarge
             /\ request.call = "tensor" /\ request.target_dtype = "fp16"

(* Where block b was written *)
LEMMA WrittenAt ==
  ASSUME FileTypes, OffsetInv, offset # -1, gguf.type \in GGML_NAMES
  PROVE  \A b : Written(b) = offset + b * BLOCK_SIZES[gguf.type]
BY BlockBytes DEF OffsetInv, Written

LEMMA OffsetFound ==
  ASSUME FileTypes
  PROVE  /\ Aligned(gguf.header_end + BadOffset) \in Nat
         /\ Aligned(gguf.header_end + BadOffset) = Aligned(gguf.header_end) + BadOffset
<1> PICK A \in Nat \ {0}, h \in Nat : A = gguf.alignment /\ h = gguf.header_end
  BY DEF FileTypes
<1>1. PICK bytes \in Nat : bytes = ItemBytes(gguf.before.type, gguf.before.blocks)
  <2>1. gguf.before.type \in Types /\ gguf.before.blocks \in Nat
    BY GGUFAssumption, TensorsBeforeAssumption DEF FileTypes
  <2>2. PICK n \in Nat \ {0}, m \in Nat, k \in Nat :
          /\ n = QUANT_SIZES[gguf.before.type][1] /\ m = QUANT_SIZES[gguf.before.type][2]
          /\ k = gguf.before.blocks
    <3>1. /\ QUANT_SIZES[gguf.before.type][1] \in Nat \ {0}
          /\ QUANT_SIZES[gguf.before.type][2] \in Nat
      BY <2>1 DEF Types, QUANT_SIZES
    <3> QED BY <2>1, <3>1
  <2>3. PICK x \in Nat : x = (k * n) * m
    OBVIOUS
  <2>4. x \div n \in Nat
    BY DivMod
  <2> QED BY <2>2, <2>3, <2>4 DEF ItemBytes
<1>2. PICK c \in Nat : c = BadOffset /\ c % A = 0
  BY <1>1, Pad DEF BadOffset, Aligned
<1>3. PICK x \in Nat : x = h + c
  OBVIOUS
<1>4. x % A = h % A
  <2>1. (h + c) % A = h % A
    BY <1>2, PadShift
  <2> QED BY <1>3, <2>1
<1>5. PICK p \in Nat : p = (A - (h % A)) % A
  <2>1. PICK r \in 0 .. A - 1 : r = h % A
    BY DivMod
  <2>2. PICK y \in Nat : y = A - r
    OBVIOUS
  <2>3. y % A \in Nat
    <3>1. y % A \in 0 .. A - 1
      BY DivMod
    <3> QED BY <3>1
  <2> QED BY <2>1, <2>2, <2>3
<1>6. Aligned(gguf.header_end + BadOffset) = x + p
  BY <1>2, <1>3, <1>4, <1>5 DEF Aligned
<1>7. Aligned(gguf.header_end) = h + p
  BY <1>5 DEF Aligned
<1> QED BY <1>2, <1>3, <1>6, <1>7

(* Pieces of B blocks: one more while blocks are left. *)
LEMMA PieceCut ==
  ASSUME NEW n \in Nat \ {0}, NEW B \in Nat \ {0}
  PROVE  LET all == (n + B - 1) \div B
         IN /\ all \in Nat /\ n <= all * B
            /\ \A l \in Nat : l < all => l * B < n /\ (l + 1) * B = l * B + B
<1>1. PICK m \in Nat : m = n + B - 1
  OBVIOUS
<1>2. PICK p \in Nat, r \in 0 .. B - 1 : p = m \div B /\ m = p * B + r
  BY DivMod
<1>3. n <= p * B
  <2>1. PICK w \in Nat : w = p * B
    OBVIOUS
  <2> QED BY <1>1, <1>2, <2>1
<1>4. ASSUME NEW l \in Nat, l < p PROVE l * B < n /\ (l + 1) * B = l * B + B
  <2>1. l + 1 <= p /\ l + 1 \in Nat
    BY <1>4
  <2>2. (l + 1) * B <= p * B
    BY <2>1, TimesOrder
  <2>3. (l + 1) * B = l * B + B
    OBVIOUS
  <2>4. PICK w \in Nat, u \in Nat : w = p * B /\ u = l * B
    OBVIOUS
  <2> QED BY <1>1, <1>2, <2>2, <2>3, <2>4
<1> QED BY <1>1, <1>2, <1>3, <1>4

LEMMA PiecesCut ==
  ASSUME FileTypes
  PROVE  /\ Iterations \in Nat /\ Upto(0) = 0 /\ Upto(Iterations) = gguf.blocks
         /\ \A l \in Nat : l < Iterations =>
              /\ Upto(l) = BlocksBegin(l) /\ Upto(l + 1) = BlocksEnd(l)
              /\ BlocksBegin(l) \in Nat /\ BlocksEnd(l) \in Nat /\ BlocksBegin(l) <= BlocksEnd(l)
<1> PICK n \in Nat \ {0}, B \in Nat \ {0} : n = gguf.blocks /\ B = BlocksPerIter
  BY GGUFAssumption DEF FileTypes
<1>1. PICK all \in Nat : all = (n + B - 1) \div B /\ all = Iterations
  BY PieceCut DEF Iterations
<1>2. n <= all * B /\ \A l \in Nat : l < all => l * B < n /\ (l + 1) * B = l * B + B
  BY <1>1, PieceCut
<1>3. Upto(0) = 0
  BY DEF Upto
<1>4. Upto(Iterations) = gguf.blocks
  <2>1. all * B \in Nat
    OBVIOUS
  <2> QED BY <1>1, <1>2, <2>1 DEF Upto
<1>5. ASSUME NEW l \in Nat, l < Iterations
      PROVE  /\ Upto(l) = BlocksBegin(l) /\ Upto(l + 1) = BlocksEnd(l)
             /\ BlocksBegin(l) \in Nat /\ BlocksEnd(l) \in Nat /\ BlocksBegin(l) <= BlocksEnd(l)
  <2>1. l * B < n /\ (l + 1) * B = l * B + B
    BY <1>1, <1>2, <1>5
  <2>2. PICK x \in Nat : x = l * B
    OBVIOUS
  <2> QED BY <2>1, <2>2 DEF Upto, BlocksBegin, BlocksEnd
<1> QED BY <1>1, <1>3, <1>4, <1>5

LEMMA InitTensor == ASSUME GgufInit PROVE TensorInv
<1>1. FileTypes
  <2>1. /\ gguf.type \in Types /\ gguf.blocks \in 1 .. MaxBlocks
        /\ gguf.experts \in 1 .. MaxExperts /\ gguf.before \in TensorsBefore
        /\ gguf.header_end \in HeaderEnds /\ gguf.alignment \in Alignments
    BY DEF GgufInit
  <2>2. /\ MaxBlocks \in Nat /\ MaxExperts \in Nat /\ HeaderEnds \subseteq Nat
        /\ Alignments \subseteq Nat \ {0}
    BY GGUFAssumption
  <2>3. gguf.blocks \in Nat \ {0} /\ gguf.experts \in Nat \ {0}
    BY <2>1, <2>2
  <2>4. /\ request.call \in {"tensor", "expert"} /\ request.expert_id \in {0} \cup 0 .. MaxExperts - 1
        /\ request.device \in {"cpu", "cuda"} /\ request.target_dtype \in {"bf16", "fp16", "fp32"}
    BY DEF GgufInit, Requests
  <2>5. request.expert_id \in Nat
    BY <2>2, <2>4
  <2> QED BY <2>1, <2>2, <2>3, <2>4, <2>5 DEF FileTypes, Formats
<1>2. OffsetInv /\ LoadedAsWritten
  BY DEF GgufInit, OffsetInv, LoadedAsWritten
<1>3. LoopInv
  <2>1. Len(values) = 0 /\ values \in Seq(LoadedBlocks) /\ loop = 0
    BY DEF GgufInit
  <2> QED BY <1>1, <2>1, PiecesCut DEF LoopInv, Pieces
<1> QED BY <1>1, <1>2, <1>3 DEF TensorInv

(* What a step leaves of the file and the request decides what is written. *)
LEMMA SameFile ==
  ASSUME FileTypes, UNCHANGED <<gguf, request>>,
         outcome' = "loaded" => AsWritten(values')
  PROVE  FileTypes' /\ LoadedAsWritten'
<1>1. FileTypes'
  BY DEF FileTypes
<1>2. /\ BlockCount' = BlockCount /\ FirstBlock' = FirstBlock /\ (IsLarge' <=> IsLarge)
      /\ gguf' = gguf /\ request' = request
  BY DEF BlockCount, FirstBlock, IsLarge
<1>3. \A b : Written(b)' = Written(b)
  BY DEF Written, Aligned, BadOffset, ItemBytes
<1>4. SameBits' = SameBits
  BY DEF SameBits
<1> QED BY <1>1, <1>2, <1>3, <1>4 DEF LoadedAsWritten, AsWritten, IsBlock

(* Values cut from the tensor at offset, one iteration or the only piece *)
LEMMA StepTensor == ASSUME TensorInv, [GgufNext]_ggufVars PROVE TensorInv'
<1>1. FileTypes /\ OffsetInv /\ LoopInv /\ LoadedAsWritten
  BY DEF TensorInv
<1>2. CASE LoadGguf
  <2>1. UNCHANGED <<gguf, request, loop, values>> /\ outcome' \in {"none", "raises"}
        /\ outcome = "none"
    BY <1>2 DEF LoadGguf
  <2>2. FileTypes' /\ LoadedAsWritten'
    BY <1>1, <2>1, SameFile
  <2>3. OffsetInv'
    <3>1. offset' = offset \/ offset' = Aligned(gguf.header_end + BadOffset)
      BY <1>2 DEF LoadGguf
    <3>2. /\ offset' # -1 => offset' \in Nat
          /\ offset' # -1 => offset' = Aligned(gguf.header_end) + BadOffset
      BY <1>1, <3>1, OffsetFound DEF OffsetInv
    <3>3. Aligned(gguf.header_end)' = Aligned(gguf.header_end) /\ BadOffset' = BadOffset
      BY <2>1 DEF Aligned, BadOffset, ItemBytes
    <3> QED BY <3>2, <3>3 DEF OffsetInv
  <2>4. LoopInv'
    BY <1>1, <2>1 DEF LoopInv, IsLarge, Iterations, Pieces, Upto, IsBlock, Written, Aligned,
              BadOffset, ItemBytes, SameBits
  <2> QED BY <2>2, <2>3, <2>4 DEF TensorInv
<1>3. ASSUME UNCHANGED <<gguf, offset, request>>
      PROVE  /\ OffsetInv'
             /\ \A l, vs : Pieces(l, vs)' <=> Pieces(l, vs)
             /\ (IsLarge' <=> IsLarge) /\ Iterations' = Iterations
  <2>1. OffsetInv'
    BY <1>1, <1>3 DEF OffsetInv, Aligned, BadOffset, ItemBytes
  <2>2. \A b : Written(b)' = Written(b)
    BY <1>3 DEF Written, Aligned, BadOffset, ItemBytes
  <2>3. SameBits' = SameBits
    BY DEF SameBits
  <2>4. \A l, vs : Pieces(l, vs)' <=> Pieces(l, vs)
    BY <1>3, <2>2, <2>3 DEF Pieces, IsBlock, Upto
  <2> QED BY <1>3, <2>1, <2>4 DEF IsLarge, Iterations
<1>4. CASE Refuse
  <2>1. UNCHANGED <<gguf, offset, request>> /\ outcome' = "raises"
    BY <1>4 DEF Refuse
  <2>2. LoopInv'
    BY <2>1 DEF LoopInv
  <2> QED BY <1>1, <1>3, <2>1, <2>2, SameFile DEF TensorInv
<1>5. ASSUME Loading
      PROVE  /\ ~NotImplemented /\ gguf.type \in GGML_NAMES /\ offset \in Nat
             /\ \A b : Written(b) = offset + b * BLOCK_SIZES[gguf.type]
             /\ request.device \in {"cpu", "cuda"} /\ request.target_dtype \in Formats
  <2>1. ~NotImplemented /\ gguf.type \in GGML_NAMES /\ offset # -1
    BY <1>5 DEF Loading, NotImplemented
  <2> QED BY <1>1, <2>1, WrittenAt DEF OffsetInv, FileTypes
<1>6. CASE LoadSmallTensor
  <2>1. /\ Loading /\ request.call = "tensor" /\ UNCHANGED <<gguf, offset, request>>
        /\ outcome' = "loaded"
    BY <1>6 DEF LoadSmallTensor
  <2>2. PICK vs : vs = Convert(offset, 0, gguf.blocks, ImportedDtype)
    OBVIOUS
  <2>3. values' = ViewAll(vs)
    BY <1>6, <2>2 DEF LoadSmallTensor
  <2>4. PICK n \in Nat : n = gguf.blocks
    BY <1>1 DEF FileTypes
  <2>5. /\ vs \in Seq(LoadedBlocks) /\ Len(vs) = n
        /\ \A i \in 1 .. n :
             /\ vs[i].from = offset + (0 + i - 1) * BLOCK_SIZES[gguf.type]
             /\ vs[i].by = "cuda" => SameBits[gguf.type]
             /\ Taken(vs[i])
    <3>1. ImportedDtype \in Formats /\ offset \in Int /\ 0 <= n /\ n - 0 = n
      BY <1>5, <2>1 DEF ImportedDtype, Formats
    <3>2. ~NotImplemented /\ request.device \in {"cpu", "cuda"}
      BY <1>5, <2>1
    <3>3. vs = Convert(offset, 0, n, ImportedDtype)
      BY <2>2, <2>4
    <3>4. AreBlocks(Convert(offset, 0, n, ImportedDtype), offset, 0, n - 0)
      BY <3>1, <3>2, ConvertBlocks
    <3> QED BY <3>1, <3>3, <3>4 DEF AreBlocks
  <2>6. AsWritten(values')
    <3>1. BlockCount = n /\ FirstBlock = 0
      BY <2>1, <2>4 DEF BlockCount, FirstBlock
    <3>2. Len(values') = n /\ DOMAIN values' = 1 .. n
      BY <2>3, <2>5, ViewBlocks
    <3>3. ASSUME NEW i \in 1 .. n
          PROVE IsBlock(values'[i], 0 + i - 1) /\ values'[i].bits = values'[i].dtype
      <4>1. /\ values'[i].from = vs[i].from /\ values'[i].by = vs[i].by
            /\ values'[i].bits = vs[i].bits
            /\ values'[i].dtype = IF gguf.type = "BF16" THEN "bf16" ELSE vs[i].dtype
        BY <2>3, <2>5, ViewBlocks
      <4> QED BY <1>5, <2>1, <2>5, <4>1 DEF IsBlock, Taken
    <3> QED BY <3>1, <3>2, <3>3 DEF AsWritten
  <2>7. LoopInv'
    BY <2>1 DEF LoopInv
  <2> QED BY <1>1, <1>3, <2>1, <2>6, <2>7, SameFile DEF TensorInv
<1>7. CASE LoadIteration
  <2>1. /\ Loading /\ request.call = "tensor" /\ IsLarge /\ loop < Iterations
        /\ UNCHANGED <<gguf, offset, request, outcome>> /\ loop' = loop + 1 /\ outcome = "none"
    BY <1>7 DEF LoadIteration, Loading
  <2>2. loop \in Nat /\ Pieces(loop, values)
    BY <1>1, <2>1 DEF LoopInv
  <2>3. PICK a \in Nat, b \in Nat :
          a = BlocksBegin(loop) /\ b = BlocksEnd(loop) /\ a <= b /\ Upto(loop) = a /\ Upto(loop + 1) = b
    BY <1>1, <2>1, <2>2, PiecesCut
  <2>4. PICK k \in Nat : k = b - a
    BY <2>3
  <2>5. PICK target \in Formats : target = request.target_dtype
    BY <1>5, <2>1
  <2>6. PICK vs : vs = Convert(offset, a, b, target)
    OBVIOUS
  <2>7. /\ vs \in Seq(LoadedBlocks) /\ Len(vs) = k
        /\ \A i \in 1 .. k :
             /\ vs[i].from = offset + (a + i - 1) * BLOCK_SIZES[gguf.type]
             /\ vs[i].by = "cuda" => SameBits[gguf.type]
             /\ Taken(vs[i])
    <3>1. offset \in Int
      BY <1>5, <2>1
    <3>2. ~NotImplemented /\ request.device \in {"cpu", "cuda"}
      BY <1>5, <2>1
    <3>3. AreBlocks(Convert(offset, a, b, target), offset, a, b - a)
      BY <2>3, <3>1, <3>2, ConvertBlocks
    <3> QED BY <2>4, <2>6, <3>3 DEF AreBlocks
  <2>8. PICK ws : ws = ViewAll(vs)
    OBVIOUS
  <2>9. /\ ws \in Seq(LoadedBlocks) /\ Len(ws) = k
        /\ \A i \in 1 .. k : /\ ws[i].from = vs[i].from /\ ws[i].by = vs[i].by
                             /\ ws[i].bits = ws[i].dtype
    <3>1. /\ ws \in Seq(LoadedBlocks) /\ Len(ws) = Len(vs)
          /\ \A i \in 1 .. Len(vs) :
               /\ ws[i].from = vs[i].from /\ ws[i].by = vs[i].by /\ ws[i].bits = vs[i].bits
               /\ ws[i].dtype = IF gguf.type = "BF16" THEN "bf16" ELSE vs[i].dtype
      BY <2>7, <2>8, ViewBlocks
    <3> QED BY <2>7, <3>1 DEF Taken
  <2>10. PICK xs : xs = AssignAll(ws, target)
    OBVIOUS
  <2>11. /\ xs \in Seq(LoadedBlocks) /\ Len(xs) = k
         /\ \A i \in 1 .. k : /\ xs[i].from = ws[i].from /\ xs[i].by = ws[i].by
                              /\ xs[i].bits = target /\ xs[i].dtype = target
    <3>1. \A i \in 1 .. Len(ws) : ws[i].bits = ws[i].dtype
      BY <2>9
    <3>2. /\ xs \in Seq(LoadedBlocks) /\ Len(xs) = Len(ws)
          /\ \A i \in 1 .. Len(ws) : /\ xs[i].from = ws[i].from /\ xs[i].by = ws[i].by
                                     /\ xs[i].bits = target /\ xs[i].dtype = target
      BY <2>9, <2>10, <3>1, AssignBlocks
    <3> QED BY <2>9, <3>2
  <2>12. values' = values \o xs
    BY <1>7, <2>3, <2>5, <2>6, <2>8, <2>10 DEF LoadIteration
  <2>13. values \in Seq(LoadedBlocks) /\ Len(values) = a
    BY <2>2, <2>3 DEF Pieces
  <2>14. values' \in Seq(LoadedBlocks) /\ Len(values') = b
    <3>1. values' \in Seq(LoadedBlocks) /\ Len(values') = a + k
      BY <2>11, <2>12, <2>13, ConcatSeq
    <3> QED BY <2>3, <2>4, <3>1
  <2>15. ASSUME NEW i \in 1 .. b
         PROVE /\ IsBlock(values'[i], i - 1)
               /\ values'[i].bits = target /\ values'[i].dtype = target
    <3>1. CASE i <= a
      <4>1. values'[i] = values[i] /\ i \in 1 .. Len(values)
        BY <2>11, <2>12, <2>13, <3>1
      <4> QED BY <2>2, <2>5, <4>1 DEF Pieces
    <3>2. CASE ~(i <= a)
      <4>1. PICK j \in 1 .. k : j = i - a
        BY <2>3, <2>4, <3>2
      <4>2. values'[i] = xs[j]
        BY <2>4, <2>11, <2>12, <2>13, <3>2, <4>1
      <4>3. a + j - 1 = i - 1
        BY <4>1
      <4>4. xs[j].from = offset + (i - 1) * BLOCK_SIZES[gguf.type]
        BY <2>7, <2>9, <2>11, <4>3
      <4>5. xs[j].by = "cuda" => SameBits[gguf.type]
        BY <2>7, <2>9, <2>11
      <4>6. xs[j].from = Written(i - 1)
        BY <1>5, <2>1, <4>4
      <4>7. xs[j].bits = target /\ xs[j].dtype = target
        BY <2>11
      <4> QED BY <4>2, <4>5, <4>6, <4>7 DEF IsBlock
    <3> QED BY <3>1, <3>2
  <2>16. Pieces(loop + 1, values')
    BY <2>3, <2>5, <2>14, <2>15 DEF Pieces
  <2>17. loop + 1 \in Nat /\ loop + 1 <= Iterations
    BY <1>1, <2>1, <2>2, PiecesCut
  <2>18. LoopInv'
    <3>1. Pieces(loop, values)'
      BY <1>3, <2>1, <2>16
    <3> QED BY <1>3, <2>1, <2>17, <3>1 DEF LoopInv
  <2> QED BY <1>1, <1>3, <2>1, <2>18, SameFile DEF TensorInv
<1>8. CASE LoadLargeTensor
  <2>1. /\ Loading /\ request.call = "tensor" /\ IsLarge /\ loop = Iterations
        /\ UNCHANGED <<gguf, offset, request>> /\ values' = ViewAll(values)
        /\ outcome' = IF gguf.type = "BF16" /\ request.target_dtype = "fp32"
                      THEN "raises" ELSE "loaded"
    BY <1>8 DEF LoadLargeTensor
  <2>2. Pieces(loop, values)
    BY <1>1, <2>1 DEF LoopInv, Loading
  <2>3. PICK n \in Nat : n = gguf.blocks /\ Upto(loop) = n
    BY <1>1, <2>1, PiecesCut DEF FileTypes
  <2>4. values \in Seq(LoadedBlocks) /\ Len(values) = n
    BY <2>2, <2>3 DEF Pieces
  <2>5. ASSUME outcome' = "loaded" PROVE AsWritten(values')
    <3>1. BlockCount = n /\ FirstBlock = 0
      BY <2>1, <2>3 DEF BlockCount, FirstBlock
    <3>2. Len(values') = n /\ DOMAIN values' = 1 .. n
      BY <2>1, <2>4, ViewBlocks
    <3>3. ASSUME NEW i \in 1 .. n
          PROVE /\ IsBlock(values'[i], 0 + i - 1)
                /\ \/ values'[i].bits = values'[i].dtype
                   \/ gguf.type = "BF16" /\ request.target_dtype = "fp16"
      <4>1. /\ values'[i].from = values[i].from /\ values'[i].by = values[i].by
            /\ values'[i].bits = values[i].bits
            /\ values'[i].dtype = IF gguf.type = "BF16" THEN "bf16" ELSE values[i].dtype
        BY <2>1, <2>4, ViewBlocks
      <4>2. /\ IsBlock(values[i], i - 1) /\ values[i].bits = request.target_dtype
            /\ values[i].dtype = request.target_dtype
        BY <2>2, <2>4 DEF Pieces
      <4>3. gguf.type = "BF16" => request.target_dtype \in {"bf16", "fp16"}
        BY <1>5, <2>1, <2>5 DEF Formats
      <4> QED BY <4>1, <4>2, <4>3 DEF IsBlock
    <3> QED BY <2>1, <3>1, <3>2, <3>3 DEF AsWritten
  <2>6. LoopInv'
    BY <2>1 DEF LoopInv
  <2> QED BY <1>1, <1>3, <2>1, <2>5, <2>6, SameFile DEF TensorInv
<1>9. CASE LoadExpertTensor
  <2>1. /\ Loading /\ request.call = "expert" /\ UNCHANGED <<gguf, offset, request>>
    BY <1>9 DEF LoadExpertTensor
  <2>2. LoopInv'
    BY <2>1 DEF LoopInv
  <2>3. PICK n \in Nat, per \in Nat \ {0}, experts \in Nat \ {0}, size \in Nat, id \in Nat :
          /\ n = gguf.blocks /\ per = ELEMENTS_PER_BLOCK[gguf.type] /\ experts = gguf.experts
          /\ size = BLOCK_SIZES[gguf.type] /\ id = request.expert_id
    <3>1. /\ ELEMENTS_PER_BLOCK[gguf.type] \in Nat \ {0} /\ BLOCK_SIZES[gguf.type] \in Nat
      BY <1>5, <2>1, BlockBytes
    <3> QED BY <1>1, <3>1 DEF FileTypes
  <2>4. PICK k \in Nat : k = n \div experts
    BY DivMod
  <2>5. ASSUME outcome' = "loaded" PROVE AsWritten(values')
    <3>1. ((n * per) \div experts) % per = 0
      BY <1>9, <2>3, <2>5 DEF LoadExpertTensor
    <3>2. ((n * per) \div experts) \div per = k
      <4>1. PICK m \in Nat : m = n * per
        OBVIOUS
      <4>2. m \div experts \in Nat
        BY DivMod
      <4>3. PICK x \in Nat : x = (n * per) \div experts
        BY <4>1, <4>2
      <4>4. x \div per = n \div experts
        <5>1. WholeBlocks(n, per, experts, x)
          BY <3>1, <4>3 DEF WholeBlocks
        <5> QED BY <5>1, ExpertBlocks
      <4> QED BY <2>4, <4>3, <4>4
    <3>3. PICK start \in Nat : start = id * size * k
      <4>1. PICK x \in Nat : x = id * size
        OBVIOUS
      <4>2. x * k \in Nat
        OBVIOUS
      <4> QED BY <4>1, <4>2
    <3>4. PICK data \in Int : data = offset + start
      BY <1>5, <2>1
    <3>5. PICK vs : vs = Convert(data, 0, k, request.target_dtype)
      OBVIOUS
    <3>6. values' = ViewAll(vs)
      BY <1>9, <2>3, <3>1, <3>2, <3>3, <3>4, <3>5 DEF LoadExpertTensor
    <3>7. /\ vs \in Seq(LoadedBlocks) /\ Len(vs) = k
          /\ \A i \in 1 .. k : /\ vs[i].from = data + (0 + i - 1) * BLOCK_SIZES[gguf.type]
                               /\ vs[i].by = "cuda" => SameBits[gguf.type]
                               /\ Taken(vs[i])
      <4>1. 0 <= k /\ k - 0 = k
        OBVIOUS
      <4>2. /\ ~NotImplemented /\ request.device \in {"cpu", "cuda"}
            /\ request.target_dtype \in Formats
        BY <1>5, <2>1
      <4>3. AreBlocks(Convert(data, 0, k, request.target_dtype), data, 0, k - 0)
        BY <4>1, <4>2, ConvertBlocks
      <4> QED BY <3>5, <4>1, <4>3 DEF AreBlocks
    <3>8. BlockCount = k /\ FirstBlock = id * k
      BY <2>1, <2>3, <2>4 DEF BlockCount, FirstBlock
    <3>9. Len(values') = k /\ DOMAIN values' = 1 .. k
      BY <3>6, <3>7, ViewBlocks
    <3>10. ASSUME NEW i \in 1 .. k
           PROVE IsBlock(values'[i], id * k + i - 1) /\ values'[i].bits = values'[i].dtype
      <4>1. /\ values'[i].from = vs[i].from /\ values'[i].by = vs[i].by
            /\ values'[i].bits = vs[i].bits
            /\ values'[i].dtype = IF gguf.type = "BF16" THEN "bf16" ELSE vs[i].dtype
        BY <3>6, <3>7, ViewBlocks
      <4>2. data + (0 + i - 1) * size = offset + (id * k + i - 1) * size
        <5>1. PICK p \in Nat, j \in Nat : p = id * k /\ j = i - 1
          OBVIOUS
        <5>2. start = p * size
          <6>1. (id * size) * k = (id * k) * size
            OBVIOUS
          <6> QED BY <3>3, <5>1, <6>1
        <5>3. (p + j) * size = p * size + j * size
          OBVIOUS
        <5>4. PICK u \in Nat, v \in Nat : u = p * size /\ v = j * size
          OBVIOUS
        <5>5. data + v = offset + (u + v)
          BY <1>5, <2>1, <3>4, <5>2, <5>4
        <5>6. 0 + i - 1 = j /\ id * k + i - 1 = p + j
          BY <5>1
        <5> QED BY <5>3, <5>4, <5>5, <5>6
      <4>3. values'[i].from = Written(id * k + i - 1)
        BY <1>5, <2>1, <2>3, <3>7, <4>1, <4>2
      <4> QED BY <3>7, <4>1, <4>3 DEF IsBlock, Taken
    <3> QED BY <3>8, <3>9, <3>10 DEF AsWritten
  <2> QED BY <1>1, <1>3, <2>1, <2>2, <2>5, SameFile DEF TensorInv
<1>10. CASE UNCHANGED ggufVars
  <2>1. UNCHANGED <<gguf, offset, request, loop, values, outcome>>
    BY <1>10 DEF ggufVars
  <2>2. outcome' = "loaded" => AsWritten(values')
    BY <1>1, <2>1 DEF LoadedAsWritten, AsWritten, IsBlock
  <2>3. LoopInv'
    BY <1>1, <1>3, <2>1 DEF LoopInv
  <2> QED BY <1>1, <1>3, <2>1, <2>2, <2>3, SameFile DEF TensorInv
<1> QED BY <1>2, <1>4, <1>6, <1>7, <1>8, <1>9, <1>10 DEF GgufNext

THEOREM TensorsAsWritten == GgufSpec => []LoadedAsWritten
<1>1. GgufInit => TensorInv
  BY InitTensor
<1>2. TensorInv /\ [GgufNext]_ggufVars => TensorInv'
  BY StepTensor
<1>3. TensorInv => LoadedAsWritten
  BY DEF TensorInv
<1> QED BY <1>1, <1>2, <1>3, PTL DEF GgufSpec

(***************************************************************************)
(* ModelLoading: a model that is loaded is as the rules say.  The proof is *)
(* for any list of rules; what it needs to know of names is                *)
(* NamesAssumption, which is finite.                                       *)
(***************************************************************************)

(* A rule and what it leads to, as the code finds them *)
Reached(m) == \A a \in Above(m) : Recursive(a)
RuleList == \E n \in Nat : rules \in [1 .. n -> Rules]
Models == [family : Families, merged : BOOLEAN]

LEMMA FirstRule ==
  ASSUME RuleList, NEW m
  PROVE  /\ FirstMatching(m) = 0 <=> Matching(m) = {}
         /\ Matching(m) # {} => /\ FirstMatching(m) \in Matching(m)
                                /\ \A j \in Matching(m) : FirstMatching(m) <= j
         /\ FirstMatching(m) \in Nat
<1>1. Matching(m) \subseteq Nat \ {0}
  BY DEF RuleList, Matching
<1>2. CASE Matching(m) = {}
  BY <1>2 DEF FirstMatching
<1>3. CASE Matching(m) # {}
  <2>1. \E i \in Matching(m) : \A j \in Matching(m) : i <= j
    BY <1>1, <1>3, Least
  <2>2. FirstMatching(m) = CHOOSE i \in Matching(m) : \A j \in Matching(m) : i <= j
    BY <1>3 DEF FirstMatching
  <2>3. FirstMatching(m) \in Matching(m) /\ \A j \in Matching(m) : FirstMatching(m) <= j
    BY <2>1, <2>2
  <2> QED BY <1>1, <1>3, <2>3
<1> QED BY <1>2, <1>3

(* gen_optimize_config reaches the modules that no rule cuts off. *)
LEMMA ReachedUncut ==
  ASSUME RuleList, NEW m
  PROVE  Reached(m) <=> ~Cut(m)
<1>1. ASSUME NEW a
      PROVE  ~Recursive(a) <=> \E i \in DOMAIN rules :
                                 /\ Matches(rules[i], a) /\ ~rules[i].recursive
                                 /\ \A j \in 1 .. i - 1 : ~Matches(rules[j], a)
  <2>1. PICK n \in Nat : DOMAIN rules = 1 .. n
    BY DEF RuleList
  <2>2. \A i : i \in Matching(a) <=> i \in 1 .. n /\ Matches(rules[i], a)
    BY <2>1 DEF Matching
  <2>3. ASSUME ~Recursive(a)
        PROVE  \E i \in DOMAIN rules : /\ Matches(rules[i], a) /\ ~rules[i].recursive
                                       /\ \A j \in 1 .. i - 1 : ~Matches(rules[j], a)
    <3>1. FirstMatching(a) # 0 /\ ~rules[FirstMatching(a)].recursive
      BY <2>3 DEF Recursive
    <3>2. PICK i \in 1 .. n : i = FirstMatching(a) /\ Matches(rules[i], a)
      BY <2>2, <3>1, FirstRule
    <3>3. \A j \in 1 .. n : Matches(rules[j], a) => i <= j
      BY <2>2, <3>1, <3>2, FirstRule
    <3>4. \A j \in 1 .. i - 1 : ~Matches(rules[j], a)
      BY <3>3
    <3> QED BY <2>1, <3>1, <3>2, <3>4
  <2>4. ASSUME NEW i \in DOMAIN rules, Matches(rules[i], a), ~rules[i].recursive,
               \A j \in 1 .. i - 1 : ~Matches(rules[j], a)
        PROVE  ~Recursive(a)
    <3>1. i \in Matching(a)
      BY <2>1, <2>2, <2>4
    <3>2. PICK f \in 1 .. n : f = FirstMatching(a) /\ Matches(rules[f], a) /\ f <= i
      BY <2>2, <3>1, FirstRule
    <3>3. f = i
      BY <2>1, <2>4, <3>2
    <3> QED BY <2>4, <3>2, <3>3 DEF Recursive
  <2> QED BY <2>3, <2>4
<1> QED BY <1>1 DEF Reached, Cut

LEMMA RuleFound ==
  ASSUME NEW m
  PROVE  Rule(m) = IF Cut(m) THEN 0 ELSE FirstMatching(m)
BY DEF Rule, FirstMatching, Matching

LEMMA AboveTransitive ==
  ASSUME model \in Models, NEW m \in Modules, NEW a \in Above(m), NEW b \in Above(a)
  PROVE  b \in Above(m)
<1>1. /\ m \in Seq(STRING) /\ a \in Seq(STRING) /\ b \in Seq(STRING)
      /\ IsStrictPrefix(b, a) /\ IsStrictPrefix(a, m) /\ b \in Modules
  BY NamesAssumption DEF Above, Modules, Models
<1>2. IsStrictPrefix(b, m)
  BY <1>1 DEF IsStrictPrefix, IsPrefix
<1> QED BY <1>1, <1>2 DEF Above

LEMMA ParameterNames ==
  ASSUME model \in Models, NEW p \in Parameters
  PROVE  IsPrefix(<<>>, p) /\ Front(p) \in Modules /\ p \notin Modules
<1>1. PICK m \in Modules : \E w \in ParamsOf(KindOf(m)) : p = Append(m, w)
  BY DEF Parameters, ParametersOf, Modules, KindOf
<1>2. PICK w : p = Append(m, w)
  BY <1>1
<1>3. m \in Seq(STRING)
  BY NamesAssumption DEF Modules, Models
<1>4. PICK S : S = STRING \cup {w}
  OBVIOUS
<1>5. w \in S /\ m \in Seq(S)
  BY <1>3, <1>4, SeqMonotonic
<1>6. Append(m, w) \in Seq(S) /\ Len(Append(m, w)) = Len(m) + 1
  BY <1>5, AppendProperties
<1>7. \A i \in 1 .. Len(m) : Append(m, w)[i] = m[i]
  BY <1>5, AppendProperties
<1>8. SubSeq(p, 1, Len(p) - 1) = m
  BY <1>2, <1>5, <1>6, <1>7, SeqEqual, LenProperties, SubSeqProperties
<1>9. Front(p) = m
  BY <1>8 DEF Front
<1>10. IsPrefix(<<>>, p)
  BY <1>2, <1>6 DEF IsPrefix
<1>11. p \notin Modules
  BY NamesAssumption DEF Parameters, Modules, Models
<1> QED BY <1>1, <1>9, <1>10, <1>11

LEMMA WholeModel ==
  ASSUME model \in Models, NEW m \in Modules
  PROVE  IsPrefix(<<>>, m)
<1>1. m \in Seq(STRING)
  BY NamesAssumption DEF Modules, Models
<1> QED BY <1>1 DEF IsPrefix

(* What inject leaves *)
Configured ==
  optimize_config = [m \in {m \in Modules : Reached(m)} |-> ConfigOf(m)]
Replacing ==
  /\ injected = [m \in {m \in DOMAIN optimize_config : optimize_config[m].class # "default"}
                   |-> optimize_config[m].class]
  /\ DOMAIN tensor_device_map = {optimize_config[m].key : m \in DOMAIN optimize_config}
  /\ \A m \in DOMAIN optimize_config :
       (\A n \in DOMAIN optimize_config : optimize_config[n].key = optimize_config[m].key => n = m)
       => tensor_device_map[optimize_config[m].key] = optimize_config[m].device

LEMMA ConfigFound ==
  ASSUME RuleList, NEW m
  PROVE  /\ Rule(m) \in Nat /\ ConfigOf(m).key = Translated[m]
         /\ ~Cut(m) => /\ ConfigOf(m).class = IF Rule(m) = 0 THEN "default" ELSE rules[Rule(m)].class
                       /\ ConfigOf(m).device = IF Rule(m) = 0 THEN "cuda:0" ELSE rules[Rule(m)].device
<1>1. CASE FirstMatching(m) = 0
  BY <1>1, RuleFound DEF ConfigOf
<1>2. CASE FirstMatching(m) # 0
  <2>1. FirstMatching(m) \in Nat
    BY FirstRule
  <2> QED BY <1>2, <2>1, RuleFound DEF ConfigOf
<1> QED BY <1>1, <1>2

LEMMA InjectedAsRuled ==
  ASSUME RuleList, Configured, Replacing, NEW m \in Modules
  PROVE  /\ m \in DOMAIN optimize_config <=> ~Cut(m)
         /\ m \in DOMAIN injected <=> Rule(m) # 0 /\ rules[Rule(m)].class # "default"
         /\ m \in DOMAIN injected /\ injected[m] = "operator" <=> IsOperator(m)
<1>1. m \in DOMAIN optimize_config <=> ~Cut(m)
  BY ReachedUncut DEF Configured
<1>2. CASE Cut(m)
  <2>1. Rule(m) = 0
    BY <1>2, RuleFound
  <2> QED BY <1>1, <1>2, <2>1 DEF Replacing, IsOperator
<1>3. CASE ~Cut(m)
  <2>1. optimize_config[m] = ConfigOf(m)
    BY <1>1, <1>3 DEF Configured
  <2>2. m \in DOMAIN injected <=> ConfigOf(m).class # "default"
    BY <1>1, <1>3, <2>1 DEF Replacing
  <2>3. m \in DOMAIN injected => injected[m] = ConfigOf(m).class
    BY <2>1 DEF Replacing
  <2>4. ConfigOf(m).class = IF Rule(m) = 0 THEN "default" ELSE rules[Rule(m)].class
    BY <1>3, ConfigFound
  <2> QED BY <1>1, <1>3, <2>2, <2>3, <2>4 DEF IsOperator
<1> QED BY <1>2, <1>3

Ready == RuleList /\ model \in Models /\ (model.merged => model.family = "DeepseekV3")
         /\ Configured /\ Replacing

LEMMA OwnLoads ==
  ASSUME Ready, NEW m \in Modules
  PROVE  OwnLoad(m) <=> \E a \in Above(m) \cup {m} : IsOperator(a)
<1>1. \A a \in Self(m) : a \in DOMAIN injected /\ injected[a] = "operator" <=> IsOperator(a)
  BY InjectedAsRuled DEF Ready, Self, Above
<1> QED BY <1>1 DEF OwnLoad, InjectedAbove, Self

LEMMA OuterOperators ==
  ASSUME Ready, NEW m \in Modules
  PROVE  m \in OperatorsBelow(<<>>) <=> IsOperator(m) /\ ~(\E a \in Above(m) : IsOperator(a))
<1>1. IsPrefix(<<>>, m)
  BY WholeModel DEF Ready
<1>2. \A a \in Above(m) : a \in Modules /\ Above(a) \subseteq Above(m)
  BY AboveTransitive DEF Ready, Above
<1>3. \A a \in Above(m) : OwnLoad(a) <=> \E b \in Above(a) \cup {a} : IsOperator(b)
  BY <1>2, OwnLoads
<1>4. OwnLoad(m) <=> \E a \in Above(m) \cup {m} : IsOperator(a)
  BY OwnLoads
<1> QED BY <1>1, <1>2, <1>3, <1>4 DEF OperatorsBelow

(* The key a parameter is looked for by is one of those the assumption     *)
(* about names speaks of.                                                  *)
LEMMA KeyFound ==
  ASSUME Ready, NEW p \in Parameters
  PROVE  KeyOf(p) \in KeysOf(model.family, p)
<1>1. PICK above : above = InjectedAbove(Front(p))
  OBVIOUS
<1>2. above \subseteq {a \in ModulesOf(model.family) : IsStrictPrefix(a, Front(p)) \/ a = Front(p)}
  BY <1>1, ParameterNames DEF InjectedAbove, Self, Above, Modules, Ready
<1>3. CASE above = {}
  BY <1>1, <1>3 DEF KeyOf, KeysOf
<1>4. CASE above # {}
  <2>1. PICK f \in Modules : f = Front(p)
    BY ParameterNames DEF Ready
  <2>2. \A n \in Modules : n \in Seq(STRING) /\ Len(n) \in Nat
    BY NamesAssumption, LenProperties DEF Modules, Ready, Models
  <2>3. \A n \in above : n \in Modules /\ Len(n) \in 0 .. Len(f)
    BY <1>2, <2>1, <2>2 DEF IsStrictPrefix, IsPrefix, Modules
  <2>4. PICK L : L = {Len(n) : n \in above}
    OBVIOUS
  <2>5. L \in SUBSET Nat /\ L # {} /\ L \subseteq 0 .. Len(f)
    BY <1>4, <2>3, <2>4
  <2>6. IsFiniteSet(L)
    <3>1. Len(f) \in Int /\ 0 \in Int
      BY <2>1, <2>2
    <3>2. IsFiniteSet(0 .. Len(f))
      BY <3>1, FS_Interval
    <3> QED BY <2>5, <3>2, FS_Subset
  <2>7. \E k \in L : \A l \in L : l <= k
    BY <2>5, <2>6, Greatest
  <2>8. \E m \in above : \A n \in above : Len(n) <= Len(m)
    BY <2>4, <2>7
  <2>9. Innermost(above) \in above
    BY <2>8 DEF Innermost
  <2>10. KeyOf(p) = Translated[Translated[Innermost(above)] \o Below(Innermost(above), p)]
    BY <1>1, <1>4 DEF KeyOf
  <2> QED BY <1>2, <2>9, <2>10 DEF KeysOf
<1> QED BY <1>3, <1>4

LEMMA DeviceFound ==
  ASSUME Ready, NEW p \in Parameters, KeyOf(p) \in Tensors
  PROVE  /\ KeyOf(p) = GgufName[model.family][p]
         /\ GetDevice(Front(KeyOf(p))) = LoadDevice(Front(p))
<1>1. PICK m \in Modules : m = Front(p)
  BY ParameterNames DEF Ready
<1>2. PICK key : key = KeyOf(p)
  OBVIOUS
<1>3. model.family \in Families /\ Tensors \in FilesOf(model.family)
  BY DEF Ready, Models, FilesOf, Tensors
<1>4. key \in KeysOf(model.family, p) \cap Tensors /\ p \in ParametersOf(model.family)
  BY <1>2, KeyFound DEF Parameters
<1>5. /\ key = GgufName[model.family][p]
      /\ {n \in ModulesOf(model.family) : Translated[n] = Front(key)} = HasKey(Front(p))
  BY <1>3, <1>4, NamesAssumption
<1>6. {n \in Modules : Translated[n] = Front(key)} = HasKey(m)
  BY <1>1, <1>5 DEF Modules
<1>7. \A n \in DOMAIN optimize_config :
        n \in Modules /\ ~Cut(n) /\ optimize_config[n] = ConfigOf(n) /\ ConfigOf(n).key = Translated[n]
  BY ReachedUncut, ConfigFound DEF Ready, Configured
<1>8. DOMAIN tensor_device_map = {Translated[n] : n \in DOMAIN optimize_config}
  BY <1>7 DEF Ready, Replacing
<1>9. CASE IsPrefix(Moe \o <<"experts">>, m)
  <2>1. Front(key) \notin DOMAIN tensor_device_map
    BY <1>6, <1>7, <1>8, <1>9 DEF HasKey, Keyless
  <2> QED BY <1>1, <1>2, <1>5, <1>9, <2>1 DEF GetDevice, LoadDevice, RuledDevice, Keyless
<1>10. CASE ~IsPrefix(Moe \o <<"experts">>, m)
  <2>1. \A n \in Modules : Translated[n] = Front(key) <=> n = m
    BY <1>6, <1>10 DEF HasKey, Keyless
  <2>2. CASE Cut(m)
    <3>1. Front(key) \notin DOMAIN tensor_device_map
      BY <1>7, <1>8, <2>1, <2>2
    <3> QED BY <1>1, <1>2, <1>5, <2>2, <3>1 DEF GetDevice, LoadDevice, RuledDevice, Keyless
  <2>3. CASE ~Cut(m)
    <3>1. m \in DOMAIN optimize_config
      BY <2>3, InjectedAsRuled DEF Ready
    <3>2. \A n \in DOMAIN optimize_config : optimize_config[n].key = optimize_config[m].key => n = m
      BY <1>7, <2>1, <3>1
    <3>3. tensor_device_map[optimize_config[m].key] = optimize_config[m].device
      BY <3>1, <3>2 DEF Ready, Replacing
    <3>4. optimize_config[m].key = Front(key)
      BY <1>7, <2>1, <3>1
    <3>5. Front(key) \in DOMAIN tensor_device_map
      BY <3>1, <3>4 DEF Ready, Replacing
    <3>6. optimize_config[m].device = IF Rule(m) = 0 THEN "cuda:0" ELSE rules[Rule(m)].device
      BY <1>7, <2>3, <3>1, ConfigFound DEF Ready
    <3> QED BY <1>1, <1>2, <1>5, <1>10, <2>3, <3>3, <3>4, <3>5, <3>6 DEF GetDevice, LoadDevice, RuledDevice, Keyless
  <2> QED BY <2>2, <2>3
<1> QED BY <1>9, <1>10

(* What may have been loaded: parameters no operator stands for, operators *)
Loadable == {p \in Parameters : ~OwnLoad(Front(p))} \cup {m \in Modules : OwnLoad(m)}

LoadInv ==
  /\ phase \in {"rules", "config", "inject", "lm_head", "weights", "ready", "raises"}
  /\ RuleList /\ model \in Models /\ (model.merged => model.family = "DeepseekV3")
  /\ phase \in {"config", "inject", "lm_head", "weights", "ready"} => Configured
  /\ phase \in {"lm_head", "weights", "ready"} => Replacing /\ DOMAIN loaded \subseteq Loadable
  /\ phase \in {"rules", "config", "inject"} => loaded = <<>>
  /\ LoadedAsRuled

LEMMA InitLoading == ASSUME LoadInit PROVE LoadInv
<1>1. RuleList
  BY ModelLoadingAssumption DEF LoadInit, RuleList
<1> QED BY <1>1 DEF LoadInit, LoadInv, Models, LoadedAsRuled

(* The model and the rules never change. *)
LEMMA SameRules ==
  ASSUME UNCHANGED <<model, rules>>
  PROVE  /\ RuleList' <=> RuleList
         /\ Modules' = Modules /\ Parameters' = Parameters /\ Tensors' = Tensors
         /\ \A m : /\ Above(m)' = Above(m) /\ Rule(m)' = Rule(m) /\ LoadDevice(m)' = LoadDevice(m)
                  /\ IsOperator(m)' = IsOperator(m) /\ DefaultDevice(m)' = DefaultDevice(m)
                  /\ ConfigOf(m)' = ConfigOf(m) /\ Reached(m)' = Reached(m)
<1>1. RuleList' <=> RuleList
  BY DEF RuleList
<1>2. Modules' = Modules /\ Parameters' = Parameters /\ Tensors' = Tensors
  BY DEF Modules, Parameters, Tensors
<1>3. \A m : KindOf(m)' = KindOf(m) /\ Above(m)' = Above(m)
  BY <1>2 DEF KindOf, Above
<1>4. \A r, m : Matches(r, m)' = Matches(r, m)
  BY <1>3 DEF Matches
<1>5. \A m : Matching(m)' = Matching(m)
  BY <1>4 DEF Matching
<1>6. \A m : FirstMatching(m)' = FirstMatching(m)
  <2> TAKE m
  <2>1. PICK S : S = Matching(m) /\ S = Matching(m)'
    BY <1>5
  <2>2. FirstMatching(m) = IF S = {} THEN 0 ELSE CHOOSE i \in S : \A j \in S : i <= j
    BY <2>1 DEF FirstMatching
  <2>3. FirstMatching(m)' = IF S = {} THEN 0 ELSE CHOOSE i \in S : \A j \in S : i <= j
    BY <2>1 DEF FirstMatching
  <2> QED BY <2>2, <2>3, Zenon
<1>7. \A m : Cut(m)' = Cut(m)
  BY <1>3, <1>4 DEF Cut
<1>8. \A m : Rule(m)' = Rule(m)
  <2> TAKE m
  <2>1. Rule(m) = IF Cut(m) THEN 0 ELSE FirstMatching(m)
    BY Zenon DEF Rule, FirstMatching, Matching
  <2>2. Rule(m)' = IF Cut(m)' THEN 0 ELSE FirstMatching(m)'
    BY Zenon DEF Rule, FirstMatching, Matching
  <2> QED BY <1>6, <1>7, <2>1, <2>2
<1>9. \A m : LoadDevice(m)' = LoadDevice(m) /\ IsOperator(m)' = IsOperator(m)
  BY <1>7, <1>8 DEF LoadDevice, RuledDevice, Keyless, IsOperator
<1>10. \A m : DefaultDevice(m)' = DefaultDevice(m)
  BY <1>3 DEF DefaultDevice
<1>11. \A m : ConfigOf(m)' = ConfigOf(m) /\ Recursive(m)' = Recursive(m)
  BY <1>6 DEF ConfigOf, Recursive
<1>12. \A m : Reached(m)' = Reached(m)
  BY <1>3, <1>11 DEF Reached
<1> QED BY <1>1, <1>2, <1>3, <1>8, <1>9, <1>10, <1>11, <1>12

LEMMA SameConfig ==
  ASSUME UNCHANGED <<model, rules, optimize_config>>
  PROVE  Configured' <=> Configured
<1>1. Modules' = Modules /\ \A m : ConfigOf(m)' = ConfigOf(m) /\ Reached(m)' = Reached(m)
  BY SameRules
<1> QED BY <1>1 DEF Configured

LEMMA SameInjected ==
  ASSUME UNCHANGED <<model, rules, optimize_config, tensor_device_map, injected>>
  PROVE  (Replacing' <=> Replacing) /\ Loadable' = Loadable
<1>1. Replacing' <=> Replacing
  BY DEF Replacing
<1>2. \A m : Above(m)' = Above(m)
  BY SameRules
<1>3. \A m : OwnLoad(m)' = OwnLoad(m)
  BY <1>2 DEF OwnLoad, InjectedAbove, Self
<1>4. Loadable' = Loadable
  BY <1>3, SameRules DEF Loadable
<1> QED BY <1>1, <1>4

(* The steps *)
LEMMA StepConfigured == ASSUME LoadInv, GenOptimizeConfig PROVE LoadInv'
<1>1. UNCHANGED <<model, rules, tensor_device_map, injected, loaded>> /\ phase = "rules" /\ phase' = "config"
  BY DEF GenOptimizeConfig
<1>2. RuleList' <=> RuleList
  BY <1>1, SameRules
<1>3. Configured'
  <2>1. \A m : ConfigOf(m)' = ConfigOf(m) /\ Reached(m)' = Reached(m)
    BY <1>1, SameRules
  <2>2. optimize_config' = [m \in {m \in Modules : Reached(m)} |-> ConfigOf(m)]
    BY DEF GenOptimizeConfig, Reached
  <2>3. Modules' = Modules
    BY <1>1, SameRules
  <2>4. {m \in Modules' : Reached(m)'} = {m \in Modules : Reached(m)}
    BY <2>1, <2>3
  <2>5. optimize_config' = [m \in {m \in Modules' : Reached(m)'} |-> ConfigOf(m)']
    BY <2>1, <2>2, <2>4
  <2> QED BY <2>5 DEF Configured
<1>4. RuleList /\ model \in Models /\ (model.merged => model.family = "DeepseekV3") /\ loaded = <<>>
  BY <1>1 DEF LoadInv
<1>5. LoadedAsRuled'
  BY <1>1 DEF LoadedAsRuled
<1> QED BY <1>1, <1>2, <1>3, <1>4, <1>5 DEF LoadInv, Models

LEMMA StepDevices == ASSUME LoadInv, GetDeviceUsage PROVE LoadInv'
<1>1. UNCHANGED <<model, rules, optimize_config, tensor_device_map, injected, loaded>>
  BY DEF GetDeviceUsage
<1>2. phase = "config" /\ phase' \in {"raises", "inject"}
  BY DEF GetDeviceUsage
<1> QED BY <1>1, <1>2, SameRules, SameConfig DEF LoadInv, LoadedAsRuled

LEMMA StepInject == ASSUME LoadInv, Inject PROVE LoadInv'
<1>1. UNCHANGED <<model, rules, optimize_config, loaded>> /\ phase = "inject" /\ phase' = "lm_head"
  BY DEF Inject
<1>2. (RuleList' <=> RuleList) /\ (Configured' <=> Configured)
  BY <1>1, SameRules, SameConfig
<1>3. Replacing'
  <2>1. tensor_device_map' =
          [k \in {optimize_config[m].key : m \in DOMAIN optimize_config} |->
            optimize_config[CHOOSE m \in {n \in DOMAIN optimize_config : optimize_config[n].key = k} :
              \A n \in {l \in DOMAIN optimize_config : optimize_config[l].key = k} \ {m} :
                Precedes(n, m)].device]
    BY DEF Inject
  <2>2. ASSUME NEW m \in DOMAIN optimize_config,
               \A n \in DOMAIN optimize_config : optimize_config[n].key = optimize_config[m].key => n = m
        PROVE  tensor_device_map'[optimize_config[m].key] = optimize_config[m].device
    <3>1. PICK k : k = optimize_config[m].key
      OBVIOUS
    <3>2. {n \in DOMAIN optimize_config : optimize_config[n].key = k} = {m}
      BY <2>2, <3>1
    <3>3. (CHOOSE l \in {m} : \A n \in {m} \ {l} : Precedes(n, l)) = m
      OBVIOUS
    <3> QED BY <2>1, <3>1, <3>2, <3>3
  <2>3. injected' = [m \in {m \in DOMAIN optimize_config : optimize_config[m].class # "default"}
                      |-> optimize_config[m].class]
    BY DEF Inject
  <2>4. DOMAIN tensor_device_map' = {optimize_config[m].key : m \in DOMAIN optimize_config}
    BY <2>1
  <2> QED BY <1>1, <2>2, <2>3, <2>4 DEF Replacing
<1> QED BY <1>1, <1>2, <1>3 DEF LoadInv, LoadedAsRuled

(* What LoadWeights loads, when it does not raise *)
LEMMA Loads ==
  ASSUME Ready, DOMAIN loaded \subseteq Loadable, NEW top, NEW then, LoadWeights(top, then)
  PROVE  DOMAIN loaded' \subseteq Loadable
<1>1. ParametersBelow(top) \subseteq Loadable /\ OperatorsBelow(top) \subseteq Loadable
  BY DEF ParametersBelow, OperatorsBelow, Loadable
<1> QED BY <1>1 DEF LoadWeights

LEMMA StepLmHead == ASSUME LoadInv, LoadLmHead PROVE LoadInv'
<1>1. UNCHANGED <<model, rules, optimize_config, tensor_device_map, injected>> /\ phase = "lm_head"
  BY DEF LoadLmHead
<1>2. LoadWeights(<<"lm_head">>, "weights")
  BY DEF LoadLmHead
<1>3. phase' \in {"raises", "weights"}
  BY <1>2 DEF LoadWeights
<1>4. Ready /\ DOMAIN loaded \subseteq Loadable
  BY <1>1 DEF LoadInv, Ready
<1>5. DOMAIN loaded' \subseteq Loadable
  BY <1>2, <1>4, Loads
<1> QED BY <1>1, <1>3, <1>4, <1>5, SameRules, SameConfig, SameInjected DEF LoadInv, LoadedAsRuled

LEMMA StepModel == ASSUME LoadInv, LoadModel PROVE LoadInv'
<1>1. UNCHANGED <<model, rules, optimize_config, tensor_device_map, injected>> /\ phase = "weights"
  BY DEF LoadModel
<1>2. LoadWeights(<<>>, "ready")
  BY DEF LoadModel
<1>3. phase' \in {"raises", "ready"}
  BY <1>2 DEF LoadWeights
<1>4. Ready /\ DOMAIN loaded \subseteq Loadable
  BY <1>1 DEF LoadInv, Ready
<1>5. DOMAIN loaded' \subseteq Loadable
  BY <1>2, <1>4, Loads
<1>6. ASSUME phase' = "ready" PROVE LoadedAsRuled'
  <2>1. /\ \A p \in ParametersBelow(<<>>) : ~Missing(p)
        /\ \A m \in OperatorsBelow(<<>>) : OperatorTensors(m) \subseteq Tensors
        /\ loaded' = [x \in ParametersBelow(<<>>) \cup OperatorsBelow(<<>>) \cup DOMAIN loaded |->
                       IF x \in ParametersBelow(<<>>) THEN LoadParameter(x)
                       ELSE IF x \in OperatorsBelow(<<>>) THEN LoadOperator(x) ELSE loaded[x]]
    BY <1>2, <1>6 DEF LoadWeights
  <2>2. \A m \in Modules : m \in DOMAIN injected <=> Rule(m) # 0 /\ rules[Rule(m)].class # "default"
    BY <1>4, InjectedAsRuled DEF Ready
  <2>3. ASSUME NEW p \in Parameters, \E a \in Above(Front(p)) \cup {Front(p)} : IsOperator(a)
        PROVE  p \notin DOMAIN loaded'
    <3>1. OwnLoad(Front(p)) /\ p \notin Modules
      BY <1>4, <2>3, OwnLoads, ParameterNames DEF Ready
    <3> QED BY <1>5, <3>1 DEF Loadable
  <2>4. ASSUME NEW p \in Parameters, ~(\E a \in Above(Front(p)) \cup {Front(p)} : IsOperator(a))
        PROVE  loaded'[p] = [tensors |-> {GgufName[model.family][p]}, device |-> LoadDevice(Front(p))]
    <3>1. ~OwnLoad(Front(p)) /\ IsPrefix(<<>>, p)
      BY <1>4, <2>4, OwnLoads, ParameterNames DEF Ready
    <3>2. p \in ParametersBelow(<<>>)
      BY <3>1 DEF ParametersBelow
    <3>3. loaded'[p] = LoadParameter(p) /\ ~Missing(p)
      BY <2>1, <3>2
    <3>4. KeyOf(p) \in Tensors
      BY <3>3 DEF Missing
    <3>5. /\ KeyOf(p) = GgufName[model.family][p]
          /\ GetDevice(Front(KeyOf(p))) = LoadDevice(Front(p))
      BY <1>4, <3>4, DeviceFound
    <3> QED BY <3>3, <3>5 DEF LoadParameter
  <2>5. ASSUME NEW m \in Modules, IsOperator(m), ~(\E a \in Above(m) : IsOperator(a))
        PROVE  /\ loaded'[m].tensors \subseteq Tensors
               /\ loaded'[m].device = IF rules[Rule(m)].device = NoDevice
                                      THEN DefaultDevice(m) ELSE rules[Rule(m)].device
    <3>1. m \in OperatorsBelow(<<>>)
      BY <1>4, <2>5, OuterOperators
    <3>2. m \notin ParametersBelow(<<>>)
      BY <1>4, ParameterNames DEF ParametersBelow, Ready
    <3>3. loaded'[m] = LoadOperator(m) /\ OperatorTensors(m) \subseteq Tensors
      BY <2>1, <3>1, <3>2
    <3>4. ~Cut(m) /\ Rule(m) # 0
      BY <2>5, RuleFound DEF IsOperator
    <3>5. m \in DOMAIN optimize_config
      BY <1>4, <3>4, InjectedAsRuled DEF Ready
    <3>6. optimize_config[m].device = rules[Rule(m)].device
      BY <1>4, <3>4, <3>5, ConfigFound DEF Ready, Configured
    <3> QED BY <3>3, <3>6 DEF LoadOperator
  <2>6. /\ Modules' = Modules /\ Parameters' = Parameters /\ Tensors' = Tensors
        /\ \A m : /\ Above(m)' = Above(m) /\ Rule(m)' = Rule(m) /\ LoadDevice(m)' = LoadDevice(m)
                 /\ IsOperator(m)' = IsOperator(m) /\ DefaultDevice(m)' = DefaultDevice(m)
    BY <1>1, SameRules
  <2> QED BY <1>1, <2>2, <2>3, <2>4, <2>5, <2>6 DEF LoadedAsRuled
<1>7. LoadedAsRuled'
  BY <1>3, <1>6 DEF LoadedAsRuled
<1>8. RuleList' /\ Configured' /\ Replacing' /\ Loadable' = Loadable
  BY <1>1, <1>4, SameRules, SameConfig, SameInjected DEF Ready
<1> QED BY <1>1, <1>3, <1>4, <1>5, <1>7, <1>8 DEF LoadInv, Ready, Models

LEMMA StepLoading == ASSUME LoadInv, [LoadNext]_loadVars PROVE LoadInv'
<1>1. CASE UNCHANGED loadVars
  <2>1. UNCHANGED <<model, rules, optimize_config, tensor_device_map, injected, loaded, phase>>
    BY <1>1 DEF loadVars
  <2>2. LoadedAsRuled'
    BY <2>1, SameRules DEF LoadInv, LoadedAsRuled
  <2> QED BY <2>1, <2>2, SameRules, SameConfig, SameInjected DEF LoadInv
<1> QED BY <1>1, StepConfigured, StepDevices, StepInject, StepLmHead, StepModel DEF LoadNext

(* LoadedAsRuled: with any list of rules, and any devices in them.         *)
THEOREM ModelAsRuled == LoadSpec => []LoadedAsRuled
<1>1. LoadInit => LoadInv
  BY InitLoading
<1>2. LoadInv /\ [LoadNext]_loadVars => LoadInv'
  BY StepLoading
<1>3. LoadInv => LoadedAsRuled
  BY DEF LoadInv
<1> QED BY <1>1, <1>2, <1>3, PTL DEF LoadSpec

-----------------------------------------------------------------------------
(***************************************************************************)
(* CausalAttention: a query reads the keys up to its own.                  *)
(***************************************************************************)

(* The positions before this one have been given to the model. *)
KeyedLen ==
  IF stage = "prefill" THEN chunk_start
  ELSE IF stage = "decode" THEN seq_length - 1 ELSE seq_length

SessionTypes ==
  /\ stage \in {"idle", "prefill", "decode", "stopped"}
  /\ cache_len \in Nat /\ past_tokens \in Nat /\ seq_length \in Nat /\ chunk_start \in Nat
  /\ stop_at \in Int /\ lag \in Nat /\ prompts \in Nat
  /\ generated_ids \in [0 .. seq_length - 1 -> Nat]
  /\ mla_wrapper \in [made : BOOLEAN, need : BOOLEAN, kv_len : Int]

StageLengths ==
  /\ stage = "idle" => seq_length = 0
  /\ stage = "prefill" => chunk_start < seq_length /\ seq_length < cache_len
  /\ stage \in {"decode", "stopped"} => 2 <= seq_length /\ seq_length <= cache_len
  /\ stage = "decode" => stop_at <= cache_len
  /\ conf.server => cache_len = CacheLens
  /\ ~conf.server /\ stage = "prefill" => cache_len = seq_length + MaxNewTokens

SlotKey(s, len, lost, ids) == IF s < len /\ s \notin lost THEN ids[s] ELSE 0
KeysKept ==
  /\ key_cache = [s \in 0 .. cache_len - 1 |-> SlotKey(s, KeyedLen, gaps, generated_ids)]
  /\ gaps \subseteq 0 .. KeyedLen - 1

PastCounted ==
  /\ KeyedLen > 0 => past_tokens > 0
  /\ conf.server => past_tokens + lag = KeyedLen
  /\ ~conf.server => lag = 0 /\ gaps = {} /\ (stage = "prefill" => past_tokens = chunk_start)

Kept == SessionTypes /\ StageLengths /\ KeysKept /\ PastCounted

SessionInv ==
  /\ conf \in AttnConfigs
  /\ stage # "raised" => Kept
  /\ SeesItsPast

-----------------------------------------------------------------------------
(* What a forward reads. *)

ReadOf(R) == {x[1] : x \in R}
ReadOnce(R) == \A x, y \in R : x[1] = y[1] => x = y
Wanted(f, r) == {j \in 0 .. f.first + r : ~LeftOut(f, r, j)}
RowReads(f, r, R) == ReadOf(R) = Wanted(f, r) /\ ReadOnce(R)
ReadsPast(f, reads) == DOMAIN reads = Rows(f) /\ \A r \in Rows(f) : RowReads(f, r, reads[r])

(* What the reads of a forward depend on. *)
IsForward(f) ==
  /\ f.first \in Nat /\ f.n \in Nat \ {0}
  /\ cache_len \in Nat /\ f.first + f.n <= cache_len
  /\ DOMAIN key_cache = 0 .. cache_len - 1
  /\ past_tokens \in Nat /\ lag \in Nat
  /\ f.n # 1 => past_tokens + lag = f.first
  /\ f.first > 0 => past_tokens > 0
  /\ ~f.live => f.first > 0
  /\ MLA /\ conf.flashinfer => PlannedLen(f) = f.first + f.n

(* What is said of a configuration. *)
ConfTypes ==
  /\ conf.arch \in Archs /\ conf.impl \in Impls /\ conf.threshold \in Nat
  /\ conf.window \in {"none", "off", "on"}
ConfRules ==
  /\ conf.arch = "Qwen2Moe" => conf.impl = "flash_attention_2"
  /\ conf.arch \in {"DeepseekV2", "DeepseekV3"} => conf.impl # "sdpa"
  /\ conf.arch = "DeepseekV3" => conf.injected
  /\ conf.arch \in {"Mixtral", "Llama"} => conf.window # "on"
  /\ conf.windows => conf.arch \in {"DeepseekV2", "DeepseekV3"}
  /\ conf.window # "none" => conf.arch \in {"Qwen2Moe", "Mixtral"}
  /\ conf.threshold # 0 => conf.injected

LEMMA ConfMeant == ASSUME conf \in AttnConfigs PROVE ConfTypes /\ ConfRules
<1>1. conf \in SessionConfigs
  BY CausalAttentionAssumption
<1>2. ConfTypes
  BY <1>1 DEF SessionConfigs, ConfTypes
<1>3. ConfRules
  BY <1>1 DEF SessionConfigs, ConfRules
<1> QED BY <1>2, <1>3

(* The slot of a position is the position. *)
LEMMA OwnSlot == ASSUME NEW p \in Nat PROVE SlotOf(p) = p
<1>1. CachePage \in Nat \ {0}
  BY CausalAttentionAssumption
<1>2. p = (p \div CachePage) * CachePage + (p % CachePage)
  BY <1>1, DivMod
<1> QED BY <1>2, Zenon DEF SlotOf

(* One split reads what it reads once. *)
LEMMA OneSplit == ASSUME NEW J PROVE ReadOf(J \X {0}) = J /\ ReadOnce(J \X {0})
<1>1. ASSUME NEW j \in J PROVE j \in ReadOf(J \X {0})
  <2>1. <<j, 0>> \in J \X {0} /\ <<j, 0>>[1] = j
    BY <1>1
  <2> QED BY <2>1 DEF ReadOf
<1>2. ASSUME NEW j \in ReadOf(J \X {0}) PROVE j \in J
  BY <1>2 DEF ReadOf
<1>3. ASSUME NEW x \in J \X {0}, NEW y \in J \X {0}, x[1] = y[1] PROVE x = y
  BY <1>3
<1> QED BY <1>1, <1>2, <1>3 DEF ReadOnce

(* A row that reads an initial segment, of which nothing is left out. *)
LEMMA RowOfSplit ==
  ASSUME NEW f, NEW r, NEW J, J = Wanted(f, r)
  PROVE  RowReads(f, r, J \X {0})
BY OneSplit, Zenon DEF RowReads

LEMMA RowOfFirst ==
  ASSUME NEW f, NEW r, NEW len, 0 .. len - 1 = Wanted(f, r)
  PROVE  RowReads(f, r, FirstSlots(len))
<1>1. PICK J : J = 0 .. len - 1
  OBVIOUS
<1>2. RowReads(f, r, J \X {0})
  BY <1>1, RowOfSplit
<1> QED BY <1>1, <1>2, Zenon DEF FirstSlots

LEMMA RowTypes ==
  ASSUME NEW f, IsForward(f), NEW r \in Rows(f)
  PROVE  /\ f.first \in Nat /\ f.n \in Nat \ {0} /\ r \in Nat /\ r < f.n /\ lag \in Nat
         /\ past_tokens \in Nat /\ cache_len \in Nat /\ f.first + r < cache_len
         /\ SlidingWindow \in Nat \ {0} /\ ChunckSize \in Nat \ {0}
<1>1. f.n \in Nat /\ f.first \in Nat /\ cache_len \in Nat /\ f.first + f.n <= cache_len
  BY DEF IsForward
<1>2. r \in Nat /\ r < f.n
  BY <1>1 DEF Rows
<1> QED BY <1>1, <1>2, CausalAttentionAssumption DEF IsForward

(* How long the layer takes its keys to be. *)
LEMMA KvLenOf ==
  ASSUME NEW f, IsForward(f), f.n # 1
  PROVE  KvSeqLen(f) = f.n + past_tokens /\ past_tokens + lag = f.first
<1>1. past_tokens + f.n <= cache_len /\ past_tokens + lag = f.first /\ cache_len \in Nat
      /\ f.n \in Nat /\ past_tokens \in Nat
  BY DEF IsForward
<1>2. UsableLength(f.n) = past_tokens
  <2>1. ~(past_tokens + f.n > cache_len)
    BY <1>1
  <2> QED BY <2>1, Zenon DEF UsableLength
<1> QED BY <1>1, <1>2, Zenon DEF KvSeqLen

(* The masks that are given leave the slots up to the query. *)
LEMMA MaskRow ==
  ASSUME NEW f, IsForward(f), conf.impl # "flash_attention_2", NEW r \in Rows(f)
  PROVE  /\ UpdateCausalMask(f).given
         /\ Unmasked(f, UpdateCausalMask(f))[r] = (0 .. f.first + r) \X {0}
<1>1. UpdateCausalMask(f).given
  BY DEF UpdateCausalMask
<1>2. UpdateCausalMask(f).cells =
        {x \in Rows(f) \X CacheSlots :
           ~((f.n # 1 => x[2] > x[1]) /\ x[2] > f.first + x[1])}
  BY DEF UpdateCausalMask
<1>3. Unmasked(f, UpdateCausalMask(f))[r] =
        {x \in CacheSlots \X {0} : <<r, x[1]>> \in UpdateCausalMask(f).cells}
  BY DEF Unmasked
<1>4. CacheSlots = 0 .. cache_len - 1
  BY DEF IsForward, CacheSlots
<1>5. ASSUME NEW c \in Int
      PROVE  <<r, c>> \in UpdateCausalMask(f).cells <=> c \in 0 .. f.first + r
  <2>1. f.first \in Nat /\ f.n \in Nat \ {0} /\ r \in Nat /\ r < f.n
        /\ cache_len \in Nat /\ f.first + r < cache_len
    BY RowTypes
  <2>2. <<r, c>> \in UpdateCausalMask(f).cells <=>
          c \in CacheSlots /\ ~((f.n # 1 => c > r) /\ c > f.first + r)
    BY <1>2
  <2>3. c \in CacheSlots /\ ~((f.n # 1 => c > r) /\ c > f.first + r) <=> c \in 0 .. f.first + r
    BY <1>4, <2>1
  <2> QED BY <2>2, <2>3
<1>6. ASSUME NEW x
      PROVE  x \in {y \in CacheSlots \X {0} : <<r, y[1]>> \in UpdateCausalMask(f).cells}
               <=> x \in (0 .. f.first + r) \X {0}
  <2>1. cache_len \in Nat /\ f.first + r < cache_len /\ f.first \in Nat /\ r \in Nat
    BY RowTypes
  <2>2. ASSUME x \in CacheSlots \X {0}, <<r, x[1]>> \in UpdateCausalMask(f).cells
        PROVE  x \in (0 .. f.first + r) \X {0}
    <3>1. x[1] \in Int
      BY <1>4, <2>2
    <3>2. x[1] \in 0 .. f.first + r
      BY <1>5, <2>2, <3>1
    <3> QED BY <2>2, <3>2
  <2>3. ASSUME x \in (0 .. f.first + r) \X {0}
        PROVE  x \in CacheSlots \X {0} /\ <<r, x[1]>> \in UpdateCausalMask(f).cells
    <3>1. x[1] \in Int /\ x[1] \in 0 .. f.first + r
      BY <2>3
    <3>2. <<r, x[1]>> \in UpdateCausalMask(f).cells
      BY <1>5, <3>1
    <3>3. x[1] \in CacheSlots
      BY <1>4, <2>1, <3>1
    <3> QED BY <2>3, <3>2, <3>3
  <2> QED BY <2>2, <2>3
<1> QED BY <1>1, <1>3, <1>6

(* So does a row of a forward that leaves nothing out. *)
NothingLeft(f, r) == \A j \in 0 .. f.first + r : ~LeftOut(f, r, j)

LEMMA AllWanted ==
  ASSUME NEW f, NEW r, NothingLeft(f, r)
  PROVE  Wanted(f, r) = 0 .. f.first + r
BY DEF Wanted, NothingLeft

LEMMA MaskedRowReads ==
  ASSUME NEW f, IsForward(f), conf.impl # "flash_attention_2", NEW r \in Rows(f),
         NothingLeft(f, r)
  PROVE  RowReads(f, r, Unmasked(f, UpdateCausalMask(f))[r])
<1>1. PICK J : J = 0 .. f.first + r
  OBVIOUS
<1>2. J = Wanted(f, r)
  BY <1>1, AllWanted
<1>3. RowReads(f, r, J \X {0})
  BY <1>2, RowOfSplit
<1>4. Unmasked(f, UpdateCausalMask(f))[r] = J \X {0}
  BY <1>1, MaskRow
<1> QED BY <1>3, <1>4, Zenon

(* Causal flash attention over as many keys as the positions say. *)
LEMMA FlashRowReads ==
  ASSUME NEW f, IsForward(f), NEW r \in Rows(f), NothingLeft(f, r)
  PROVE  RowReads(f, r, FlashAttn(f, f.first + f.n)[r])
<1>1. PICK end : end = f.first + f.n
  OBVIOUS
<1>2. FlashAttn(f, end)[r] = FirstSlots(end - f.n + r + 1)
  BY Zenon DEF FlashAttn
<1>3. PICK len : len = end - f.n + r + 1
  OBVIOUS
<1>4. 0 .. len - 1 = Wanted(f, r)
  <2>1. len - 1 = f.first + r
    BY <1>1, <1>3, RowTypes
  <2> QED BY <2>1, AllWanted
<1>5. RowReads(f, r, FirstSlots(len))
  BY <1>4, RowOfFirst
<1> QED BY <1>1, <1>2, <1>3, <1>5, Zenon

LEMMA QuotRem ==
  ASSUME NEW a \in Nat, NEW b \in Nat \ {0}
  PROVE  \E q \in Nat, r \in 0 .. b - 1 : q = a \div b /\ a = q * b + r
BY DivMod, Zenon

(* The splits of a length: as long as one another, in order, to its end. *)
LEMMA SplitBounds ==
  ASSUME NEW len \in Nat \ {0}
  PROVE  KvLenPerSplit(len) \in Nat \ {0} /\ len <= KvLenPerSplit(len) * 4
<1>1. PICK K : K = KvLenPerSplit(len)
  OBVIOUS
<1>2. K = (len + 3) \div 4
  BY <1>1 DEF KvLenPerSplit, KvSplits
<1>3. K \in Nat \ {0} /\ len <= K * 4
  BY <1>2, SMT
<1> QED BY <1>1, <1>3, Zenon

LEMMA OwnSplit ==
  ASSUME NEW len \in Nat \ {0}, NEW s \in 0 .. 3, NEW x
  PROVE  x \in SplitReads(s, len) <=>
           \E i \in 0 .. len - 1 : i \div KvLenPerSplit(len) = s /\ x = <<i, s>>
<1>1. PICK K \in Nat \ {0} : K = KvLenPerSplit(len) /\ len <= K * 4
  BY SplitBounds
<1>2. SplitStart(s, len) = K * s
  BY <1>1, Zenon DEF SplitStart
<1>3. SplitEnd(s, len) = IF K * s + K <= len THEN K * s + K ELSE len
  BY <1>1, <1>2, Zenon DEF SplitEnd
<1>4. ASSUME NEW i \in Int
      PROVE  i \in SplitStart(s, len) .. SplitEnd(s, len) - 1 <=>
               i \in 0 .. len - 1 /\ i \div K = s
  <2>1. PICK a \in Nat : a = K * s
    BY <1>1
  <2>2. i \in SplitStart(s, len) .. SplitEnd(s, len) - 1 <=> a <= i /\ i < a + K /\ i < len
    <3>1. SplitStart(s, len) = a /\ SplitEnd(s, len) = IF a + K <= len THEN a + K ELSE len
      BY <1>2, <1>3, <2>1, Zenon
    <3> QED BY <3>1
  <2>3. ASSUME i \in Nat
        PROVE  i \div K = s <=> a <= i /\ i < a + K
    <3>1. PICK q \in Nat, r \in 0 .. K - 1 : q = i \div K /\ i = q * K + r
      BY <2>3, QuotRem
    <3>2. CASE q = s
      <4>1. i = a + r
        BY <2>1, <3>1, <3>2
      <4>2. PICK e \in 0 .. K - 1 : i = a + e
        BY <3>1, <4>1, Zenon
      <4>3. a <= i /\ i < a + K
        BY <2>1, <4>2
      <4> QED BY <3>1, <3>2, <4>3, Zenon
    <3>3. CASE q # s
      <4>1. ASSUME a <= i, i < a + K PROVE FALSE
        <5>1. PICK t \in 0 .. K - 1 : t = i - a
          BY <2>3, <4>1
        <5>2. i = s * K + t
          BY <2>1, <5>1
        <5>3. i \div K = s
          <6>1. (s * K + t) \div K = s
            BY DivUnique
          <6> QED BY <5>2, <6>1, Zenon
        <5> QED BY <3>1, <3>3, <5>3
      <4> QED BY <3>1, <3>3, <4>1
    <3> QED BY <3>2, <3>3
  <2> QED BY <2>1, <2>2, <2>3
<1>5. SplitReads(s, len) = {SlotOf(i) : i \in SplitStart(s, len) .. SplitEnd(s, len) - 1} \X {s}
  BY Zenon DEF SplitReads
<1>6. ASSUME x \in SplitReads(s, len)
      PROVE  \E i \in 0 .. len - 1 : i \div K = s /\ x = <<i, s>>
  <2>1. PICK i \in SplitStart(s, len) .. SplitEnd(s, len) - 1 : x = <<SlotOf(i), s>>
    BY <1>5, <1>6
  <2>2. i \in 0 .. len - 1 /\ i \div K = s
    <3>1. i \in Int
      BY <2>1
    <3> QED BY <1>4, <2>1, <3>1
  <2>3. SlotOf(i) = i
    BY <2>2, OwnSlot
  <2> QED BY <2>1, <2>2, <2>3
<1>7. ASSUME NEW i \in 0 .. len - 1, i \div K = s, x = <<i, s>>
      PROVE  x \in SplitReads(s, len)
  <2>1. SlotOf(i) = i /\ i \in Int
    BY OwnSlot
  <2>2. i \in SplitStart(s, len) .. SplitEnd(s, len) - 1
    BY <1>4, <1>7, <2>1
  <2> QED BY <1>5, <1>7, <2>1, <2>2
<1> QED BY <1>1, <1>6, <1>7

LEMMA EmptySplit ==
  ASSUME NEW len \in Nat \ {0}, NEW t \in 0 .. 3, NEW i \in 0 .. len - 1,
         i \div KvLenPerSplit(len) = t
  PROVE  SplitEnd(t, len) > SplitStart(t, len)
<1>1. <<i, t>> \in SplitReads(t, len)
  BY OwnSplit
<1>2. PICK p \in SplitStart(t, len) .. SplitEnd(t, len) - 1 : TRUE
  BY <1>1 DEF SplitReads
<1>3. PICK K \in Nat \ {0} : K = KvLenPerSplit(len)
  BY SplitBounds
<1>4. PICK a, b : a = SplitStart(t, len) /\ b = SplitEnd(t, len)
  OBVIOUS
<1>5. a \in Int /\ b \in Int
  <2>1. a = K * t
    BY <1>3, <1>4, Zenon DEF SplitStart
  <2>2. b = IF a + K <= len THEN a + K ELSE len
    BY <1>3, <1>4, Zenon DEF SplitEnd
  <2>3. a \in Int
    BY <2>1
  <2> QED BY <2>2, <2>3
<1>6. a <= p /\ p <= b - 1 /\ p \in Int
  BY <1>2, <1>4, <1>5
<1>7. b > a
  BY <1>5, <1>6
<1> QED BY <1>4, <1>7, Zenon

(* The decoding kernel reads each of the first len slots in one split. *)
LEMMA GroupedReads ==
  ASSUME NEW len \in Nat \ {0}
  PROVE  ReadOf(DecodeGrouped(len)) = 0 .. len - 1 /\ ReadOnce(DecodeGrouped(len))
<1>1. PICK K \in Nat \ {0} : K = KvLenPerSplit(len) /\ len <= K * 4
  BY SplitBounds
<1>2. DecodeGrouped(len) = UNION {SplitReads(s, len) :
                                    s \in {t \in 0 .. 3 : SplitEnd(t, len) > SplitStart(t, len)}}
  BY DEF DecodeGrouped, Splits, KvSplits
<1>3. ASSUME NEW x \in DecodeGrouped(len)
      PROVE  \E i \in 0 .. len - 1 : x = <<i, i \div K>>
  <2>1. PICK s \in 0 .. 3 : x \in SplitReads(s, len)
    BY <1>2
  <2>2. \E i \in 0 .. len - 1 : i \div K = s /\ x = <<i, s>>
    BY <1>1, <2>1, OwnSplit
  <2> QED BY <2>2
<1>4. ASSUME NEW i \in 0 .. len - 1
      PROVE  <<i, i \div K>> \in DecodeGrouped(len)
  <2>1. PICK s \in Nat, r \in 0 .. K - 1 : s = i \div K /\ i = s * K + r
    BY QuotRem
  <2>2. s <= 3
    <3>1. i \div K <= 3
      <4>1. i < K * 4 /\ i \in Nat
        BY <1>1
      <4>2. ASSUME s >= 4 PROVE FALSE
        <5>1. 4 * K <= s * K
          BY <4>2, TimesOrder
        <5>2. PICK a \in Nat : a = s * K
          BY <1>1
        <5> QED BY <2>1, <4>1, <5>1, <5>2
      <4> QED BY <2>1, <4>2
    <3> QED BY <2>1, <3>1
  <2>3. s \in 0 .. 3 /\ i \div KvLenPerSplit(len) = s
    BY <1>1, <2>1, <2>2
  <2>4. <<i, s>> \in SplitReads(s, len)
    BY <2>3, OwnSplit
  <2>5. SplitEnd(s, len) > SplitStart(s, len)
    BY <2>3, EmptySplit
  <2> QED BY <1>2, <2>1, <2>3, <2>4, <2>5
<1>5. ReadOf(DecodeGrouped(len)) = 0 .. len - 1
  <2>1. ASSUME NEW j \in ReadOf(DecodeGrouped(len)) PROVE j \in 0 .. len - 1
    <3>1. PICK x \in DecodeGrouped(len) : j = x[1]
      BY <2>1 DEF ReadOf
    <3> QED BY <1>3, <3>1
  <2>2. ASSUME NEW j \in 0 .. len - 1 PROVE j \in ReadOf(DecodeGrouped(len))
    <3>1. <<j, j \div K>> \in DecodeGrouped(len) /\ <<j, j \div K>>[1] = j
      BY <1>4
    <3> QED BY <3>1, Zenon DEF ReadOf
  <2> QED BY <2>1, <2>2
<1>6. ASSUME NEW x \in DecodeGrouped(len), NEW y \in DecodeGrouped(len), x[1] = y[1]
      PROVE  x = y
  <2>1. PICK i \in 0 .. len - 1 : x = <<i, i \div K>>
    BY <1>3
  <2>2. PICK j \in 0 .. len - 1 : y = <<j, j \div K>>
    BY <1>3
  <2>3. i = j
    BY <1>6, <2>1, <2>2
  <2> QED BY <2>1, <2>2, <2>3
<1> QED BY <1>5, <1>6 DEF ReadOnce

-----------------------------------------------------------------------------
(* The attention classes. *)

ReturnsPast(f, res) == ~res.raised => ReadsPast(f, res.reads)

LEMMA RaisedReturns == ASSUME NEW f PROVE ReturnsPast(f, RaisesError) /\ RaisesError.raised
BY DEF ReturnsPast, RaisesError

LEMMA ReadReturns ==
  ASSUME NEW f, NEW reads, ReadsPast(f, reads)
  PROVE  ReturnsPast(f, Reads(reads)) /\ ~Reads(reads).raised
BY DEF ReturnsPast, Reads

(* An attention of MLA that absorbs, or has one query, leaves nothing out; *)
(* nor does one that gets the mask, nor the other models with their masks. *)
LEMMA AbsorbedLeavesNothing ==
  ASSUME NEW f, NEW r, MLA, ConfRules, ~conf.windows, f.n = 1 \/ (conf.flashinfer /\ conf.absorb)
  PROVE  NothingLeft(f, r)
<1>1. conf.arch \notin {"Qwen2Moe", "Mixtral"} /\ conf.window # "on"
  BY DEF MLA, ConfRules
<1> QED BY <1>1 DEF NothingLeft, LeftOut

LEMMA MaskedLeavesNothing ==
  ASSUME NEW f, NEW r, MLA, ConfRules, conf.windows, conf.impl # "flash_attention_2",
         ~LongPrefill(f)
  PROVE  NothingLeft(f, r)
<1>1. conf.arch \notin {"Qwen2Moe", "Mixtral"} /\ conf.window # "on"
  BY DEF MLA, ConfRules
<1> QED BY <1>1 DEF NothingLeft, LeftOut

LEMMA OthersLeaveNothing ==
  ASSUME NEW f, NEW r, ~MLA, conf.window # "on", conf.impl # "flash_attention_2"
  PROVE  NothingLeft(f, r)
BY DEF NothingLeft, LeftOut

(* All rows of a mask. *)
LEMMA MaskedReturns ==
  ASSUME NEW f, IsForward(f), conf.impl # "flash_attention_2",
         \A r \in Rows(f) : NothingLeft(f, r)
  PROVE  ReadsPast(f, Unmasked(f, UpdateCausalMask(f)))
<1>1. DOMAIN Unmasked(f, UpdateCausalMask(f)) = Rows(f)
  BY DEF Unmasked
<1>2. ASSUME NEW r \in Rows(f)
      PROVE  RowReads(f, r, Unmasked(f, UpdateCausalMask(f))[r])
  BY MaskedRowReads
<1> QED BY <1>1, <1>2, Zenon DEF ReadsPast

LEMMA FlashReturns ==
  ASSUME NEW f, IsForward(f), NEW len, len = f.first + f.n,
         \A r \in Rows(f) : NothingLeft(f, r)
  PROVE  ReadsPast(f, FlashAttn(f, len))
<1>1. DOMAIN FlashAttn(f, len) = Rows(f)
  BY DEF FlashAttn
<1>2. ASSUME NEW r \in Rows(f)
      PROVE  RowReads(f, r, FlashAttn(f, len)[r])
  <2>1. RowReads(f, r, FlashAttn(f, f.first + f.n)[r])
    BY FlashRowReads
  <2> QED BY <2>1, Zenon
<1> QED BY <1>1, <1>2, Zenon DEF ReadsPast

(* forward_windows, without a mask: a query for the positions of the call. *)
LEMMA GeneratedMaskReturns ==
  ASSUME NEW f, IsForward(f), MLA, ConfRules, conf.windows,
         conf.impl = "flash_attention_2" \/ LongPrefill(f)
  PROVE  ReadsPast(f, [r \in Rows(f) |->
                         LET cur_idx == (r \div ChunckSize) * ChunckSize
                         IN  FirstSlots(cur_idx + (r % ChunckSize) + 1)])
<1> DEFINE given == [r \in Rows(f) |-> FirstSlots((r \div ChunckSize) * ChunckSize
                                                   + (r % ChunckSize) + 1)]
<1>1. DOMAIN given = Rows(f)
  OBVIOUS
<1>2. ASSUME NEW r \in Rows(f) PROVE RowReads(f, r, given[r])
  <2>1. f.first \in Nat /\ r \in Nat /\ ChunckSize \in Nat \ {0}
    BY RowTypes
  <2>2. PICK len : len = (r \div ChunckSize) * ChunckSize + (r % ChunckSize) + 1
    OBVIOUS
  <2>3. len = r + 1
    <3>1. r = (r \div ChunckSize) * ChunckSize + (r % ChunckSize)
      BY <2>1, DivMod
    <3> QED BY <2>2, <3>1, Zenon
  <2>4. 0 .. len - 1 = Wanted(f, r)
    <3>1. conf.arch \notin {"Qwen2Moe", "Mixtral"} /\ conf.window # "on"
      BY DEF MLA, ConfRules
    <3>2. ASSUME NEW j \in 0 .. f.first + r PROVE LeftOut(f, r, j) <=> j > r
      BY <3>1 DEF LeftOut
    <3>3. Wanted(f, r) = {j \in 0 .. f.first + r : ~(j > r)}
      BY <3>2 DEF Wanted
    <3>4. {j \in 0 .. f.first + r : ~(j > r)} = 0 .. r
      BY <2>1
    <3>5. len - 1 = r
      BY <2>1, <2>3
    <3> QED BY <3>3, <3>4, <3>5, Zenon
  <2>5. RowReads(f, r, FirstSlots(len))
    BY <2>4, RowOfFirst
  <2>6. given[r] = FirstSlots(len)
    BY <2>2, Zenon
  <2> QED BY <2>5, <2>6, Zenon
<1>3. ReadsPast(f, given)
  <2> HIDE DEF given
  <2> QED BY <1>1, <1>2, Zenon DEF ReadsPast
<1> QED BY <1>3, Zenon

(* The mask forward_windows gets, if it gets one. *)
MaskFor(f, mask) ==
  \/ /\ mask = UpdateCausalMask(f) /\ conf.impl # "flash_attention_2" /\ ~LongPrefill(f)
  \/ /\ ~mask.given /\ (conf.impl = "flash_attention_2" \/ LongPrefill(f))

LEMMA WindowsReturn ==
  ASSUME NEW f, IsForward(f), MLA, ConfRules, conf.windows, NEW mask, MaskFor(f, mask)
  PROVE  /\ ReturnsPast(f, ForwardWindows(f, mask))
         /\ ForwardWindows(f, mask).raised =>
              f.n <= ChunckSize /\ (conf.impl = "flash_attention_2" \/ LongPrefill(f))
<1>1. CASE mask = UpdateCausalMask(f) /\ conf.impl # "flash_attention_2" /\ ~LongPrefill(f)
  <2>1. mask.given
    BY <1>1 DEF UpdateCausalMask
  <2>2. ForwardWindows(f, mask) = Reads(Unmasked(f, mask))
    BY <2>1, Zenon DEF ForwardWindows, ForwardChunck
  <2>3. \A r \in Rows(f) : NothingLeft(f, r)
    BY <1>1, MaskedLeavesNothing
  <2>4. ReadsPast(f, Unmasked(f, mask))
    <3>1. ReadsPast(f, Unmasked(f, UpdateCausalMask(f)))
      BY <1>1, <2>3, MaskedReturns
    <3> QED BY <1>1, <3>1, Zenon
  <2> QED BY <2>2, <2>4, ReadReturns, Zenon
<1>2. CASE ~mask.given /\ (conf.impl = "flash_attention_2" \/ LongPrefill(f))
  <2>1. CASE f.n <= ChunckSize
    <3>1. ForwardWindows(f, mask) = RaisesError
      BY <1>2, <2>1, Zenon DEF ForwardWindows, ForwardChunck
    <3> QED BY <1>2, <2>1, <3>1, RaisedReturns, Zenon
  <2>2. CASE ~(f.n <= ChunckSize)
    <3>1. ForwardWindows(f, mask) =
            Reads([r \in Rows(f) |->
                     LET cur_idx == (r \div ChunckSize) * ChunckSize
                     IN  FirstSlots(cur_idx + (r % ChunckSize) + 1)])
      BY <1>2, <2>2, Zenon DEF ForwardWindows
    <3> QED BY <1>2, <3>1, GeneratedMaskReturns, ReadReturns, Zenon
  <2> QED BY <2>1, <2>2
<1> QED BY <1>1, <1>2, Zenon DEF MaskFor

(* A prefill over the keys that past_tokens counts. *)
LEMMA FlashPrefillReturns ==
  ASSUME NEW f, IsForward(f), MLA, ConfRules, ~conf.windows, f.n # 1,
         ~(conf.flashinfer /\ conf.absorb)
  PROVE  ReturnsPast(f, FlashPrefill(f)) /\ ~FlashPrefill(f).raised
<1>1. PICK len : len = KvSeqLen(f)
  OBVIOUS
<1>2. len = f.n + past_tokens /\ past_tokens + lag = f.first
  BY <1>1, KvLenOf
<1>3. DOMAIN FlashAttn(f, len) = Rows(f)
  BY DEF FlashAttn
<1>4. ASSUME NEW r \in Rows(f) PROVE RowReads(f, r, FlashAttn(f, len)[r])
  <2>1. f.first \in Nat /\ r \in Nat /\ f.n \in Nat /\ past_tokens \in Nat /\ lag \in Nat
    BY RowTypes
  <2>2. PICK end : end = len - f.n + r + 1
    OBVIOUS
  <2>3. end - 1 = past_tokens + r
    BY <1>2, <2>1, <2>2
  <2>4. 0 .. end - 1 = Wanted(f, r)
    <3>1. conf.arch \notin {"Qwen2Moe", "Mixtral"} /\ conf.window # "on"
      BY DEF MLA, ConfRules
    <3>2. ASSUME NEW j \in 0 .. f.first + r PROVE LeftOut(f, r, j) <=> j + lag > f.first + r
      BY <3>1 DEF LeftOut
    <3>3. Wanted(f, r) = {j \in 0 .. f.first + r : ~(j + lag > f.first + r)}
      BY <3>2 DEF Wanted
    <3>4. {j \in 0 .. f.first + r : ~(j + lag > f.first + r)} = 0 .. past_tokens + r
      BY <1>2, <2>1
    <3> QED BY <2>3, <3>3, <3>4, Zenon
  <2>5. RowReads(f, r, FirstSlots(end))
    BY <2>4, RowOfFirst
  <2>6. FlashAttn(f, len)[r] = FirstSlots(end)
    BY <2>2, Zenon DEF FlashAttn
  <2> QED BY <2>5, <2>6, Zenon
<1>5. ReadsPast(f, FlashAttn(f, len))
  BY <1>3, <1>4, Zenon DEF ReadsPast
<1>6. FlashPrefill(f) = Reads(FlashAttn(f, len))
  BY <1>1, Zenon DEF FlashPrefill
<1> QED BY <1>5, <1>6, ReadReturns, Zenon

LEMMA DecodeReturns ==
  ASSUME NEW f, IsForward(f), MLA, ConfRules, ~conf.windows, f.n = 1
  PROVE  ReadsPast(f, [r \in Rows(f) |-> DecodeGrouped(f.first + 1)])
<1>1. PICK len : len = f.first + 1
  OBVIOUS
<1>2. ASSUME NEW r \in Rows(f) PROVE RowReads(f, r, DecodeGrouped(len))
  <2>1. f.first \in Nat /\ r = 0
    BY DEF IsForward, Rows
  <2>2. len \in Nat \ {0} /\ len - 1 = f.first + r
    BY <1>1, <2>1
  <2>3. Wanted(f, r) = 0 .. f.first + r
    BY AbsorbedLeavesNothing, AllWanted
  <2> QED BY <2>2, <2>3, GroupedReads DEF RowReads
<1> QED BY <1>1, <1>2, Zenon DEF ReadsPast

LEMMA TritonReturns ==
  ASSUME NEW f, IsForward(f), MLA, ConfRules, ~conf.windows, ~conf.flashinfer
  PROVE  ReturnsPast(f, ForwardTriton(f)) /\ ~ForwardTriton(f).raised
<1>1. CASE f.n = 1
  <2>1. ForwardTriton(f) = Reads([r \in Rows(f) |-> DecodeGrouped(f.first + 1)])
    BY <1>1, Zenon DEF ForwardTriton
  <2>2. ReadsPast(f, [r \in Rows(f) |-> DecodeGrouped(f.first + 1)])
    BY <1>1, DecodeReturns
  <2> QED BY <2>1, <2>2, ReadReturns, Zenon
<1>2. CASE f.n # 1
  <2>1. ForwardTriton(f) = FlashPrefill(f)
    BY <1>2, Zenon DEF ForwardTriton
  <2> QED BY <1>2, <2>1, FlashPrefillReturns, Zenon
<1> QED BY <1>1, <1>2

LEMMA FlashinferReturns ==
  ASSUME NEW f, IsForward(f), MLA, ConfRules, ~conf.windows, conf.flashinfer
  PROVE  ReturnsPast(f, ForwardFlashinfer(f)) /\ ~ForwardFlashinfer(f).raised
<1>1. CASE Absorbs(f)
  <2>1. PICK len : len = PlannedLen(f)
    OBVIOUS
  <2>2. len = f.first + f.n
    BY <2>1 DEF IsForward
  <2>3. \A r \in Rows(f) : NothingLeft(f, r)
    BY <1>1, AbsorbedLeavesNothing DEF Absorbs
  <2>4. ReadsPast(f, FlashAttn(f, len))
    BY <2>2, <2>3, FlashReturns
  <2>5. ForwardFlashinfer(f) = Reads(FlashAttn(f, len))
    BY <1>1, <2>1, Zenon DEF ForwardFlashinfer
  <2> QED BY <2>4, <2>5, ReadReturns, Zenon
<1>2. CASE ~Absorbs(f)
  <2>1. ForwardFlashinfer(f) = FlashPrefill(f)
    BY <1>2, Zenon DEF ForwardFlashinfer
  <2>2. f.n # 1 /\ ~(conf.flashinfer /\ conf.absorb)
    BY <1>2 DEF Absorbs
  <2> QED BY <2>1, <2>2, FlashPrefillReturns, Zenon
<1> QED BY <1>1, <1>2

LEMMA MLAReturns ==
  ASSUME NEW f, IsForward(f), MLA, ConfRules, NEW mask, conf.windows => MaskFor(f, mask)
  PROVE  /\ ReturnsPast(f, KDeepseekV2Attention(f, mask))
         /\ KDeepseekV2Attention(f, mask).raised =>
              /\ conf.windows /\ f.n <= ChunckSize
              /\ conf.impl = "flash_attention_2" \/ LongPrefill(f)
<1>1. CASE conf.windows
  BY <1>1, WindowsReturn, Zenon DEF KDeepseekV2Attention
<1>2. CASE ~conf.windows /\ conf.flashinfer
  BY <1>2, FlashinferReturns, Zenon DEF KDeepseekV2Attention
<1>3. CASE ~conf.windows /\ ~conf.flashinfer
  BY <1>3, TritonReturns, Zenon DEF KDeepseekV2Attention
<1> QED BY <1>1, <1>2, <1>3

(* flash_attn_with_kvcache, or flash_attn_func over all keys. *)
LEMMA KvcacheReturns ==
  ASSUME NEW f, IsForward(f), conf.arch \in {"Qwen2Moe", "Mixtral"},
         conf.impl = "flash_attention_2",
         conf.window = "on" /\ f.first = 0 => f.n = 1 \/ f.n <= SlidingWindow
  PROVE  ReadsPast(f, KvcacheOrFlash(f))
<1>1. ~MLA
  BY DEF MLA
<1>2. CASE f.n = 1
  <2>1. KvcacheOrFlash(f) = [r \in Rows(f) |-> FirstSlots(f.first)]
    BY <1>2, Zenon DEF KvcacheOrFlash
  <2>2. ASSUME NEW r \in Rows(f) PROVE RowReads(f, r, FirstSlots(f.first))
    <3>1. f.first \in Nat /\ r = 0 /\ SlidingWindow \in Nat
      BY <1>2, CausalAttentionAssumption DEF IsForward, Rows
    <3>2. ASSUME NEW j \in 0 .. f.first + r PROVE LeftOut(f, r, j) <=> j = f.first
      BY <1>1, <1>2, <3>1 DEF LeftOut
    <3>3. Wanted(f, r) = {j \in 0 .. f.first + r : j # f.first}
      BY <3>2 DEF Wanted
    <3>4. {j \in 0 .. f.first + r : j # f.first} = 0 .. f.first - 1
      BY <3>1
    <3> QED BY <3>3, <3>4, RowOfFirst
  <2>3. DOMAIN KvcacheOrFlash(f) = Rows(f)
    BY <2>1
  <2>4. \A r \in Rows(f) : KvcacheOrFlash(f)[r] = FirstSlots(f.first)
    BY <2>1, Zenon
  <2> QED BY <2>2, <2>3, <2>4, Zenon DEF ReadsPast
<1>3. CASE f.n # 1
  <2>1. PICK len : len = f.first + f.n
    OBVIOUS
  <2>2. KvcacheOrFlash(f) = FlashAttn(f, len)
    BY <1>3, <2>1, Zenon DEF KvcacheOrFlash
  <2>3. ASSUME NEW r \in Rows(f) PROVE NothingLeft(f, r)
    <3>1. r \in Nat /\ r < f.n /\ f.n \in Nat /\ SlidingWindow \in Nat /\ f.first \in Nat
      BY RowTypes
    <3>2. ASSUME NEW j \in 0 .. f.first + r PROVE ~LeftOut(f, r, j)
      <4>1. ~(conf.window = "on" /\ f.first = 0 /\ j + SlidingWindow < r)
        BY <1>3, <3>1
      <4> QED BY <1>1, <1>3, <4>1 DEF LeftOut
    <3> QED BY <3>2 DEF NothingLeft
  <2> QED BY <2>1, <2>2, <2>3, FlashReturns, Zenon
<1> QED BY <1>2, <1>3

(* A window, once the keys exceed it, at the start of a conversation. *)
LEMMA WindowReturns ==
  ASSUME NEW f, IsForward(f), conf.arch = "Qwen2Moe", conf.impl = "flash_attention_2",
         conf.window = "on", f.first = 0, f.n # 1
  PROVE  ReadsPast(f, [r \in Rows(f) |->
           {x \in FirstSlots(f.first + r + 1) : x[1] >= f.first + r - SlidingWindow}])
<1> DEFINE within(r) == {x \in FirstSlots(f.first + r + 1) : x[1] >= f.first + r - SlidingWindow}
<1>1. ~MLA
  BY DEF MLA
<1>2. ASSUME NEW r \in Rows(f) PROVE RowReads(f, r, within(r))
  <2>1. r \in Nat /\ SlidingWindow \in Nat
    BY RowTypes
  <2>2. PICK J : J = {j \in 0 .. r : ~(j + SlidingWindow < r)}
    OBVIOUS
  <2>3. ASSUME NEW j \in 0 .. r PROVE LeftOut(f, r, j) <=> j + SlidingWindow < r
    BY <1>1, <2>1 DEF LeftOut
  <2>4. f.first + r = r
    BY <2>1
  <2>5. Wanted(f, r) = J
    BY <2>2, <2>3, <2>4 DEF Wanted
  <2>6. within(r) = J \X {0}
    <3>1. FirstSlots(f.first + r + 1) = (0 .. r) \X {0}
      BY <2>1 DEF FirstSlots
    <3>2. \A j \in 0 .. r : j >= f.first + r - SlidingWindow <=> ~(j + SlidingWindow < r)
      BY <2>1
    <3>3. ASSUME NEW x PROVE x \in within(r) <=> x \in J \X {0}
      <4>1. x \in within(r) <=> x \in (0 .. r) \X {0} /\ x[1] >= f.first + r - SlidingWindow
        BY <3>1, Zenon
      <4> QED BY <2>2, <3>2, <4>1
    <3> QED BY <3>3, SMT
  <2>7. RowReads(f, r, J \X {0})
    BY <2>5, RowOfSplit
  <2> QED BY <2>6, <2>7, Zenon
<1>3. PICK g : g = [r \in Rows(f) |-> within(r)]
  OBVIOUS
<1>4. DOMAIN g = Rows(f) /\ \A r \in Rows(f) : g[r] = within(r)
  BY <1>3
<1>5. ReadsPast(f, g)
  <2> HIDE DEF within
  <2> QED BY <1>2, <1>4, Zenon DEF ReadsPast
<1> QED BY <1>3, <1>5, Zenon

LEMMA Qwen2MoeReturns ==
  ASSUME NEW f, IsForward(f), conf.arch = "Qwen2Moe", ConfRules
  PROVE  /\ ReturnsPast(f, Qwen2MoeFlashAttention2(f))
         /\ Qwen2MoeFlashAttention2(f).raised => conf.window # "none"
<1>1. conf.impl = "flash_attention_2"
  BY DEF ConfRules
<1>2. CASE Windowed(f) /\ past_tokens > 0
  <2>1. Qwen2MoeFlashAttention2(f) = RaisesError
    BY <1>2, Zenon DEF Qwen2MoeFlashAttention2
  <2>2. conf.window # "none"
    BY <1>2 DEF Windowed
  <2> QED BY <2>1, <2>2, RaisedReturns, Zenon
<1>3. CASE ~(Windowed(f) /\ past_tokens > 0)
  <2>1. Qwen2MoeFlashAttention2(f) = Reads(Qwen2MoeFlash(f))
    BY <1>3, Zenon DEF Qwen2MoeFlashAttention2
  <2>2. ReadsPast(f, Qwen2MoeFlash(f))
    <3>1. f.first \in Nat /\ f.n \in Nat \ {0} /\ past_tokens \in Nat /\ lag \in Nat
          /\ cache_len \in Nat /\ f.first + f.n <= cache_len
          /\ SlidingWindow \in Nat \ {0} /\ (f.first > 0 => past_tokens > 0)
      BY CausalAttentionAssumption DEF IsForward
    <3>2. CASE Windowed(f) /\ conf.window = "on"
      <4>1. past_tokens = 0 /\ f.first = 0
        BY <1>3, <3>1, <3>2
      <4>2. f.n # 1
        <5>1. UsableLength(f.n) = 0
          BY <3>1, <4>1 DEF UsableLength
        <5>2. KvSeqLen(f) = f.n
          BY <3>1, <5>1 DEF KvSeqLen
        <5> QED BY <3>1, <3>2, <5>2 DEF Windowed
      <4>3. Qwen2MoeFlash(f) = [r \in Rows(f) |->
              {x \in FirstSlots(f.first + r + 1) : x[1] >= f.first + r - SlidingWindow}]
        BY <3>2, Zenon DEF Qwen2MoeFlash
      <4> QED BY <1>1, <3>2, <4>1, <4>2, <4>3, WindowReturns, Zenon
    <3>3. CASE ~(Windowed(f) /\ conf.window = "on")
      <4>1. Qwen2MoeFlash(f) = KvcacheOrFlash(f)
        BY <3>3, Zenon DEF Qwen2MoeFlash
      <4>2. ASSUME conf.window = "on", f.first = 0, f.n # 1 PROVE f.n <= SlidingWindow
        <5>1. f.live
          BY <4>2 DEF IsForward
        <5>2. KvSeqLen(f) = f.n + past_tokens
          BY <4>2, KvLenOf
        <5>3. ~(KvSeqLen(f) > SlidingWindow)
          BY <3>3, <4>2, <5>1 DEF Windowed
        <5> QED BY <3>1, <5>2, <5>3
      <4>3. conf.window = "on" /\ f.first = 0 => f.n = 1 \/ f.n <= SlidingWindow
        BY <4>2
      <4> QED BY <1>1, <4>1, <4>3, KvcacheReturns, Zenon
    <3> QED BY <3>2, <3>3
  <2> QED BY <2>1, <2>2, ReadReturns, Zenon
<1> QED BY <1>2, <1>3

LEMMA MixtralFlashReturns ==
  ASSUME NEW f, IsForward(f), conf.arch = "Mixtral", ConfRules, conf.impl = "flash_attention_2"
  PROVE  /\ ReturnsPast(f, MixtralFlashAttention2(f))
         /\ MixtralFlashAttention2(f).raised => conf.window # "none"
<1>1. CASE Windowed(f)
  <2>1. MixtralFlashAttention2(f) = RaisesError
    BY <1>1, Zenon DEF MixtralFlashAttention2
  <2>2. conf.window # "none"
    BY <1>1 DEF Windowed
  <2> QED BY <2>1, <2>2, RaisedReturns, Zenon
<1>2. CASE ~Windowed(f)
  <2>1. MixtralFlashAttention2(f) = Reads(KvcacheOrFlash(f))
    BY <1>2, Zenon DEF MixtralFlashAttention2, MixtralFlash
  <2>2. conf.window # "on"
    BY DEF ConfRules
  <2>3. ReadsPast(f, KvcacheOrFlash(f))
    BY <2>2, KvcacheReturns
  <2> QED BY <2>1, <2>3, ReadReturns, Zenon
<1> QED BY <1>1, <1>2

(* The classes that get a mask, of the models other than those of MLA. *)
LEMMA SdpaReturns ==
  ASSUME NEW f, IsForward(f), ~MLA, conf.window # "on", conf.impl # "flash_attention_2"
  PROVE  /\ ReturnsPast(f, MixtralSdpaAttention(f, UpdateCausalMask(f)))
         /\ ~MixtralSdpaAttention(f, UpdateCausalMask(f)).raised
<1>1. ReadsPast(f, Unmasked(f, UpdateCausalMask(f)))
  BY OthersLeaveNothing, MaskedReturns
<1>2. UpdateCausalMask(f).given
  BY DEF UpdateCausalMask
<1>3. MixtralSdpaAttention(f, UpdateCausalMask(f)) = Reads(Unmasked(f, UpdateCausalMask(f)))
  BY <1>2, Zenon DEF MixtralSdpaAttention
<1> QED BY <1>1, <1>3, ReadReturns, Zenon

LEMMA MixtralReturns ==
  ASSUME NEW f, IsForward(f), conf.arch = "Mixtral", ConfTypes, ConfRules
  PROVE  /\ ReturnsPast(f, MixtralModel(f))
         /\ MixtralModel(f).raised => conf.impl = "eager" \/ conf.window # "none"
<1>1. ~MLA /\ conf.window # "on"
  BY DEF MLA, ConfRules
<1>2. CASE conf.impl = "eager"
  <2>1. MixtralModel(f) = MixtralAttention(f, UpdateCausalMask(f))
    BY <1>2 DEF MixtralModel
  <2>2. ReadsPast(f, Unmasked(f, UpdateCausalMask(f)))
    BY <1>1, <1>2, OthersLeaveNothing, MaskedReturns
  <2>3. MixtralAttention(f, UpdateCausalMask(f)) = RaisesError
        \/ MixtralAttention(f, UpdateCausalMask(f)) = Reads(Unmasked(f, UpdateCausalMask(f)))
    BY Zenon DEF MixtralAttention
  <2> QED BY <1>2, <2>1, <2>2, <2>3, RaisedReturns, ReadReturns, Zenon
<1>3. CASE conf.impl = "sdpa"
  <2>1. MixtralModel(f) = MixtralSdpaAttention(f, UpdateCausalMask(f))
    BY <1>3 DEF MixtralModel
  <2>2. conf.impl # "flash_attention_2"
    BY <1>3
  <2> QED BY <1>1, <2>1, <2>2, SdpaReturns, Zenon
<1>4. CASE conf.impl = "flash_attention_2"
  <2>1. MixtralModel(f) = MixtralFlashAttention2(f)
    BY <1>4 DEF MixtralModel
  <2> QED BY <1>4, <2>1, MixtralFlashReturns, Zenon
<1> QED BY <1>2, <1>3, <1>4 DEF ConfTypes, Impls

LEMMA LlamaReturns ==
  ASSUME NEW f, IsForward(f), conf.arch = "Llama", ConfTypes, ConfRules
  PROVE  /\ ReturnsPast(f, LlamaModel(f))
         /\ LlamaModel(f).raised => conf.impl = "flash_attention_2"
<1>1. ~MLA /\ conf.window # "on"
  BY DEF MLA, ConfRules
<1>2. UpdateCausalMask(f).given \/ conf.impl = "flash_attention_2"
  BY DEF UpdateCausalMask
<1>3. CASE conf.impl = "eager"
  <2>1. LlamaModel(f) = LlamaAttention(f, UpdateCausalMask(f))
    BY <1>3 DEF LlamaModel
  <2>2. ReadsPast(f, Unmasked(f, UpdateCausalMask(f)))
    BY <1>1, <1>3, OthersLeaveNothing, MaskedReturns
  <2>3. LlamaAttention(f, UpdateCausalMask(f)) = Reads(Unmasked(f, UpdateCausalMask(f)))
    <3>1. UpdateCausalMask(f).given
      BY <1>2, <1>3
    <3> QED BY <3>1, Zenon DEF LlamaAttention
  <2> QED BY <2>1, <2>2, <2>3, ReadReturns, Zenon
<1>4. CASE conf.impl = "sdpa"
  <2>1. LlamaModel(f) = MixtralSdpaAttention(f, UpdateCausalMask(f))
    BY <1>4 DEF LlamaModel, LlamaSdpaAttention
  <2>2. conf.impl # "flash_attention_2"
    BY <1>4
  <2> QED BY <1>1, <2>1, <2>2, SdpaReturns, Zenon
<1>5. CASE conf.impl = "flash_attention_2"
  <2>1. LlamaModel(f) = RaisesError
    BY <1>5 DEF LlamaModel, LlamaFlashAttention2
  <2> QED BY <1>5, <2>1, RaisedReturns, Zenon
<1> QED BY <1>3, <1>4, <1>5 DEF ConfTypes, Impls

(* Any forward. *)
LEMMA DeepseekReturns ==
  ASSUME NEW f, IsForward(f), MLA, ConfTypes, ConfRules
  PROVE  LET res == IF conf.injected THEN KDeepseekV2Model(f) ELSE DeepseekV2Model(f)
         IN  /\ ReturnsPast(f, res)
             /\ res.raised => /\ conf.windows /\ f.n <= ChunckSize
                              /\ conf.impl # "eager" \/ LongPrefill(f)
<1>1. PICK mask : mask = IF conf.injected
                         THEN IF LongPrefill(f) \/ ~conf.windows THEN NoMask
                              ELSE UpdateCausalMask(f)
                         ELSE UpdateCausalMask(f)
  OBVIOUS
<1>2. (IF conf.injected THEN KDeepseekV2Model(f) ELSE DeepseekV2Model(f))
        = KDeepseekV2Attention(f, mask)
  BY <1>1, Zenon DEF KDeepseekV2Model, DeepseekV2Model
<1>3. ASSUME conf.windows PROVE MaskFor(f, mask)
  <2>1. ~conf.injected => ~LongPrefill(f)
    BY DEF ConfRules, LongPrefill
  <2>2. mask = NoMask \/ (mask = UpdateCausalMask(f) /\ ~LongPrefill(f))
    BY <1>1, <2>1, Zenon
  <2>3. mask = NoMask => LongPrefill(f) \/ conf.impl = "flash_attention_2"
    <3>1. UpdateCausalMask(f).given \/ conf.impl = "flash_attention_2"
      BY DEF UpdateCausalMask
    <3>2. ~NoMask.given
      BY DEF NoMask
    <3>3. mask = UpdateCausalMask(f) \/ LongPrefill(f)
      BY <1>1, <1>3, Zenon
    <3> QED BY <3>1, <3>2, <3>3, Zenon
  <2>4. ~NoMask.given
    BY DEF NoMask
  <2>5. conf.impl = "flash_attention_2" => UpdateCausalMask(f) = NoMask
    BY DEF UpdateCausalMask
  <2> QED BY <2>2, <2>3, <2>4, <2>5, Zenon DEF MaskFor
<1>4. conf.impl = "flash_attention_2" => conf.impl # "eager"
  OBVIOUS
<1> QED BY <1>2, <1>3, <1>4, MLAReturns, Zenon

LEMMA ForwardReturns ==
  ASSUME NEW f, IsForward(f), ConfTypes, ConfRules
  PROVE  ReturnsPast(f, ModelForward(f)) /\ (ModelForward(f).raised => ~NeverRaises)
<1>1. CASE MLA
  <2>1. PICK res : res = IF conf.injected THEN KDeepseekV2Model(f) ELSE DeepseekV2Model(f)
    OBVIOUS
  <2>2. ModelForward(f) = res
    <3>1. conf.arch # "Qwen2Moe" /\ conf.arch # "Mixtral"
      BY <1>1 DEF MLA
    <3> QED BY <1>1, <2>1, <3>1 DEF ModelForward
  <2>3. /\ ReturnsPast(f, res)
        /\ res.raised => /\ conf.windows /\ f.n <= ChunckSize
                         /\ conf.impl # "eager" \/ LongPrefill(f)
    BY <1>1, <2>1, DeepseekReturns, Zenon
  <2>4. ASSUME conf.windows, f.n <= ChunckSize, conf.impl # "eager" \/ LongPrefill(f)
        PROVE  ~NeverRaises
    <3>1. f.n \in Nat /\ ChunckSize \in Nat /\ conf.threshold \in Nat
      BY CausalAttentionAssumption DEF IsForward, ConfTypes
    <3>2. LongPrefill(f) => ~(conf.threshold = 0 \/ conf.threshold >= ChunckSize)
      BY <2>4, <3>1 DEF LongPrefill
    <3> QED BY <2>4, <3>2, Zenon DEF NeverRaises
  <2> QED BY <2>2, <2>3, <2>4, Zenon
<1>2. CASE conf.arch = "Qwen2Moe"
  <2>1. ModelForward(f) = Qwen2MoeFlashAttention2(f)
    <3>1. ~MLA
      BY <1>2 DEF MLA
    <3>2. ModelForward(f) = IF conf.injected THEN KQwen2MoeModel(f) ELSE Qwen2MoeModel(f)
      BY <1>2, <3>1 DEF ModelForward
    <3> QED BY <3>2, Zenon DEF KQwen2MoeModel, Qwen2MoeModel
  <2>2. conf.window # "none" => ~NeverRaises
    BY DEF NeverRaises
  <2> QED BY <1>2, <2>1, <2>2, Qwen2MoeReturns, Zenon
<1>3. CASE conf.arch = "Mixtral"
  <2>1. ModelForward(f) = MixtralModel(f)
    <3>1. ~MLA
      BY <1>3 DEF MLA
    <3> QED BY <1>3, <3>1 DEF ModelForward
  <2>2. conf.impl = "eager" \/ conf.window # "none" => ~NeverRaises
    BY <1>3 DEF NeverRaises
  <2> QED BY <1>3, <2>1, <2>2, MixtralReturns, Zenon
<1>4. CASE conf.arch = "Llama"
  <2>1. ModelForward(f) = LlamaModel(f)
    <3>1. ~MLA
      BY <1>4 DEF MLA
    <3> QED BY <1>4, <3>1 DEF ModelForward
  <2>2. conf.impl = "flash_attention_2" => ~NeverRaises
    BY <1>4 DEF NeverRaises
  <2> QED BY <1>4, <2>1, <2>2, LlamaReturns, Zenon
<1> QED BY <1>1, <1>2, <1>3, <1>4 DEF ConfTypes, Archs, MLA

-----------------------------------------------------------------------------
(* The forwards of the drivers. *)

LEMMA PlannedForAll ==
  ASSUME NEW f, ~f.plan.made \/ f.plan.need \/ f.plan.kv_len = f.first + f.n
  PROVE  PlannedLen(f) = f.first + f.n
BY DEF PlannedLen

LEMMA ConstTypes ==
  /\ CacheLens \in Nat /\ ChunkPrefillSize \in Nat \ {0} /\ MaxNewTokens \in Nat \ {0}
BY CausalAttentionAssumption

LEMMA LeastOfTwo ==
  ASSUME NEW a \in Int, NEW b \in Int
  PROVE  AtMost(a, b) \in Int /\ AtMost(a, b) <= a /\ AtMost(a, b) <= b
         /\ (AtMost(a, b) = a \/ AtMost(a, b) = b)
BY DEF AtMost

LEMMA ChunkForward ==
  ASSUME Kept, stage = "prefill"
  PROVE  /\ IsForward(Chunk) /\ Chunk.first = chunk_start /\ Chunk.n \in Nat \ {0}
         /\ chunk_start + Chunk.n <= seq_length /\ ChunkEnd = chunk_start + Chunk.n
<1>1. Chunk.first = chunk_start /\ Chunk.n = AtMost(ChunkPrefillSize, seq_length - chunk_start)
      /\ Chunk.live /\ Chunk.plan = NeedPlanAll
  BY DEF Chunk
<1>2. chunk_start \in Nat /\ seq_length \in Nat /\ chunk_start < seq_length
      /\ cache_len \in Nat /\ seq_length < cache_len /\ past_tokens \in Nat /\ lag \in Nat
  BY DEF Kept, SessionTypes, StageLengths
<1>3. Chunk.n \in Nat \ {0} /\ chunk_start + Chunk.n <= seq_length
  BY <1>1, <1>2, ConstTypes DEF AtMost
<1>4. KeyedLen = chunk_start
  BY DEF KeyedLen
<1>5. past_tokens + lag = chunk_start /\ (chunk_start > 0 => past_tokens > 0)
  BY <1>2, <1>4 DEF Kept, PastCounted
<1>6. PlannedLen(Chunk) = Chunk.first + Chunk.n
  <2>1. NeedPlanAll.need
    BY DEF Kept, SessionTypes, NeedPlanAll
  <2> QED BY <1>1, <2>1, PlannedForAll
<1>7. DOMAIN key_cache = 0 .. cache_len - 1
  BY DEF Kept, KeysKept
<1>8. IsForward(Chunk)
  <2>1. chunk_start + Chunk.n <= cache_len
    BY <1>2, <1>3
  <2> QED BY <1>1, <1>2, <1>3, <1>5, <1>6, <1>7, <2>1 DEF IsForward
<1> QED BY <1>1, <1>3, <1>8 DEF ChunkEnd

LEMMA StepForward ==
  ASSUME Kept, Decodes
  PROVE  IsForward(Step) /\ Step.first = seq_length - 1 /\ Step.n = 1
<1>1. Step.first = seq_length - 1 /\ Step.n = 1
      /\ Step.plan = (IF conf.flashinfer /\ MLA THEN PlanAll(seq_length) ELSE mla_wrapper)
  BY DEF Step
<1>2. seq_length \in Nat /\ 2 <= seq_length /\ stop_at \in Int /\ seq_length < stop_at
      /\ cache_len \in Nat /\ stop_at <= cache_len /\ past_tokens \in Nat /\ lag \in Nat
  BY DEF Kept, SessionTypes, StageLengths, Decodes
<1>3. KeyedLen = seq_length - 1
  BY DEF KeyedLen, Decodes
<1>4. past_tokens > 0
  BY <1>2, <1>3 DEF Kept, PastCounted
<1>5. MLA /\ conf.flashinfer => PlannedLen(Step) = Step.first + Step.n
  <2>1. ASSUME MLA, conf.flashinfer
        PROVE  ~Step.plan.made \/ Step.plan.kv_len = seq_length
    <3>1. Step.plan = PlanAll(seq_length)
      BY <1>1, <2>1
    <3> QED BY <3>1 DEF PlanAll
  <2>2. Step.first + Step.n = seq_length
    BY <1>1, <1>2
  <2> QED BY <2>1, <2>2, PlannedForAll
<1>6. DOMAIN key_cache = 0 .. cache_len - 1
  BY DEF Kept, KeysKept
<1>7. Step.first \in Nat /\ Step.first > 0 /\ Step.first + Step.n <= cache_len
  BY <1>1, <1>2
<1> QED BY <1>1, <1>2, <1>4, <1>5, <1>6, <1>7 DEF IsForward

(* A forward writes the keys of its positions. *)
LEMMA KeysWritten ==
  ASSUME NEW f, IsForward(f), Kept, KeyedLen <= f.first, f.first <= KeyedLen
  PROVE  Updated(f) = [s \in 0 .. cache_len - 1 |-> SlotKey(s, f.first + f.n, gaps, generated_ids)]
<1>1. f.first \in Nat /\ f.n \in Nat \ {0} /\ cache_len \in Nat /\ f.first + f.n <= cache_len
  BY DEF IsForward
<1>2. KeyedLen = f.first
  <2>1. KeyedLen \in Int
    BY DEF KeyedLen, Kept, SessionTypes
  <2> QED BY <1>1, <2>1
<1>3. CacheSlots = 0 .. cache_len - 1
  BY DEF CacheSlots, IsForward
<1>4. ASSUME NEW s \in 0 .. cache_len - 1
      PROVE  (IF \E r \in Rows(f) : SlotOf(f.first + r) = s
              THEN generated_ids[f.first + (CHOOSE r \in Rows(f) : SlotOf(f.first + r) = s)]
              ELSE key_cache[s]) = SlotKey(s, f.first + f.n, gaps, generated_ids)
  <2>1. \A r \in Rows(f) : SlotOf(f.first + r) = f.first + r
    <3>1. ASSUME NEW r \in Rows(f) PROVE f.first + r \in Nat
      BY <1>1 DEF Rows
    <3> QED BY <3>1, OwnSlot
  <2>2. gaps \subseteq 0 .. f.first - 1
    BY <1>2 DEF Kept, KeysKept
  <2>3. CASE \E r \in Rows(f) : SlotOf(f.first + r) = s
    <3>1. PICK p : p = CHOOSE r \in Rows(f) : SlotOf(f.first + r) = s
      OBVIOUS
    <3>2. p \in Rows(f) /\ SlotOf(f.first + p) = s
      BY <2>3, <3>1
    <3>3. f.first + p = s
      BY <2>1, <3>2
    <3>4. s < f.first + f.n /\ s \notin gaps
      BY <1>1, <2>2, <3>2, <3>3 DEF Rows
    <3>5. SlotKey(s, f.first + f.n, gaps, generated_ids) = generated_ids[s]
      BY <3>4, Zenon DEF SlotKey
    <3> QED BY <2>3, <3>1, <3>3, <3>5, Zenon
  <2>4. CASE ~\E r \in Rows(f) : SlotOf(f.first + r) = s
    <3>1. s < f.first \/ ~(s < f.first + f.n)
      <4>1. ASSUME ~(s < f.first), s < f.first + f.n PROVE FALSE
        <5>1. s - f.first \in Rows(f) /\ f.first + (s - f.first) = s
          BY <1>1, <4>1 DEF Rows
        <5>2. PICK r \in Rows(f) : f.first + r = s
          BY <5>1
        <5> QED BY <2>1, <2>4, <5>2
      <4> QED BY <4>1
    <3>2. key_cache[s] = SlotKey(s, f.first, gaps, generated_ids)
      BY <1>2 DEF Kept, KeysKept
    <3>3. s < f.first <=> s < f.first + f.n
      BY <1>1, <3>1
    <3>4. SlotKey(s, f.first, gaps, generated_ids) = SlotKey(s, f.first + f.n, gaps, generated_ids)
      BY <3>3, Zenon DEF SlotKey
    <3> QED BY <2>4, <3>2, <3>4, Zenon
  <2> QED BY <2>3, <2>4, Zenon
<1> QED BY <1>3, <1>4 DEF Updated

LEMMA LastLogit ==
  ASSUME NEW f, f.n \in Nat \ {0}
  PROVE  LastRow(LogitRows(f)) = f.n - 1
<1>1. LogitRows(f) = {f.n - 1} \/ LogitRows(f) = 0 .. f.n - 1
  BY DEF LogitRows, DeepseekV2Logits, DeepseekV3Logits, Qwen2MoeLogits, MixtralLogits,
         LlamaLogits, Rows
<1>2. PICK R : R = LogitRows(f)
  OBVIOUS
<1>3. PICK m \in Int : m = f.n - 1
  OBVIOUS
<1>4. m \in R /\ R \subseteq Int /\ \A q \in R : q <= m
  BY <1>1, <1>2, <1>3
<1>5. PICK c : c = CHOOSE r \in R : \A q \in R : q <= r
  OBVIOUS
<1>6. c \in R /\ \A q \in R : q <= c
  <2>1. \E r \in R : \A q \in R : q <= r
    BY <1>4
  <2> QED BY <1>5, <2>1
<1>7. c = m
  BY <1>4, <1>6
<1> QED BY <1>2, <1>3, <1>5, <1>7, Zenon DEF LastRow

-----------------------------------------------------------------------------
(* After a forward. *)

PastSeen ==
  \A r \in DOMAIN attended :
    /\ ReadOf(attended[r]) = {j \in 0 .. asked.first + r : ~LeftOut(asked, r, j)}
    /\ ReadOnce(attended[r])
    /\ \A x \in attended[r] :
         key_cache[x[1]] = IF x[1] \in gaps THEN 0 ELSE generated_ids[x[1]]

LEMMA PropertyParts ==
  SeesItsPast <=> /\ stage = "raised" => ~NeverRaises
                  /\ stage = "decode" => sampled_from = seq_length - 2
                  /\ PastSeen
BY Zenon DEF SeesItsPast, PastSeen, ReadOf, ReadOnce

LEMMA PropertyPartsAfter ==
  ASSUME stage' = "raised" => ~NeverRaises', stage' = "decode" => sampled_from' = seq_length' - 2,
         PastSeen'
  PROVE  SeesItsPast'
BY Zenon DEF SeesItsPast, PastSeen, ReadOf, ReadOnce

(* The keys of tokens that are the same. *)
LEMMA SameKeys ==
  ASSUME NEW n, NEW len, NEW lost, NEW ids, NEW jds,
         \A s \in 0 .. n - 1 : s < len => ids[s] = jds[s]
  PROVE  [s \in 0 .. n - 1 |-> SlotKey(s, len, lost, ids)]
           = [s \in 0 .. n - 1 |-> SlotKey(s, len, lost, jds)]
<1>1. ASSUME NEW s \in 0 .. n - 1 PROVE SlotKey(s, len, lost, ids) = SlotKey(s, len, lost, jds)
  BY Zenon DEF SlotKey
<1> QED BY <1>1, Zenon

(* What the driver leaves as it was, or longer by a token. *)
Longer(n) == \A s \in 0 .. n - 1 : generated_ids'[s] = generated_ids[s]

LEMMA PastSeenAfter ==
  ASSUME NEW f, NEW b, IsForward(f), Kept, KeyedLen = f.first, ConfTypes, ConfRules,
         Attend(f, b), ~ModelForward(f).raised, Longer(f.first + f.n),
         conf' = conf, gaps' = gaps, lag' = lag
  PROVE  PastSeen'
<1>1. f.first \in Nat /\ f.n \in Nat \ {0} /\ cache_len \in Nat /\ f.first + f.n <= cache_len
  BY DEF IsForward
<1>2. attended' = ModelForward(f).reads /\ asked' = [first |-> f.first, n |-> f.n]
      /\ key_cache' = Updated(f)
  BY DEF Attend
<1>3. ReadsPast(f, attended')
  BY <1>2, ForwardReturns, Zenon DEF ReturnsPast
<1>4. key_cache' = [s \in 0 .. cache_len - 1 |-> SlotKey(s, f.first + f.n, gaps, generated_ids)]
  <2>1. KeyedLen <= f.first /\ f.first <= KeyedLen
    BY <1>1
  <2> QED BY <1>2, <2>1, KeysWritten
<1>5. asked'.first = f.first /\ asked'.n = f.n
  BY <1>2
<1>6. ASSUME NEW r \in Rows(f)
      PROVE  /\ ReadOf(attended'[r]) = {j \in 0 .. asked'.first + r : ~LeftOut(asked, r, j)'}
             /\ ReadOnce(attended'[r])
             /\ \A x \in attended'[r] :
                  key_cache'[x[1]] = IF x[1] \in gaps' THEN 0 ELSE generated_ids'[x[1]]
  <2>1. ReadOf(attended'[r]) = Wanted(f, r) /\ ReadOnce(attended'[r])
    BY <1>3, <1>6, Zenon DEF ReadsPast, RowReads
  <2>2. ASSUME NEW j \in 0 .. f.first + r PROVE LeftOut(asked, r, j)' <=> LeftOut(f, r, j)
    BY <1>5 DEF LeftOut, MLA, LongPrefill
  <2>3. Wanted(f, r) = {j \in 0 .. asked'.first + r : ~LeftOut(asked, r, j)'}
    BY <1>5, <2>2 DEF Wanted
  <2>4. ASSUME NEW x \in attended'[r]
        PROVE  key_cache'[x[1]] = IF x[1] \in gaps' THEN 0 ELSE generated_ids'[x[1]]
    <3>1. x[1] \in ReadOf(attended'[r])
      BY Zenon DEF ReadOf
    <3>2. x[1] \in 0 .. f.first + r
      BY <2>1, <3>1 DEF Wanted
    <3>3. x[1] \in 0 .. f.first + f.n - 1 /\ x[1] \in 0 .. cache_len - 1 /\ x[1] < f.first + f.n
      BY <1>1, <3>2 DEF Rows
    <3>4. key_cache'[x[1]] = SlotKey(x[1], f.first + f.n, gaps, generated_ids)
      BY <1>4, <3>3, Zenon
    <3>5. generated_ids'[x[1]] = generated_ids[x[1]]
      <4>1. PICK end : end = f.first + f.n
        OBVIOUS
      <4>2. Longer(end)
        BY <4>1, Zenon
      <4>3. x[1] \in 0 .. end - 1
        BY <3>3, <4>1
      <4> QED BY <4>2, <4>3, Zenon DEF Longer
    <3> QED BY <3>3, <3>4, <3>5, Zenon DEF SlotKey
  <2> QED BY <2>1, <2>3, <2>4, Zenon
<1>7. DOMAIN attended' = Rows(f)
  BY <1>3 DEF ReadsPast
<1> QED BY <1>6, <1>7 DEF PastSeen, ReadOf, ReadOnce

LEMMA NothingSeen == ASSUME attended' = <<>> PROVE PastSeen'
BY DEF PastSeen

(* The wrapper stays one. *)
Wrappers == [made : BOOLEAN, need : BOOLEAN, kv_len : Int]

LEMMA WrapperAfter ==
  ASSUME NEW f, f.plan \in Wrappers, f.first \in Int, f.n \in Int
  PROVE  PlanAfter(f) \in Wrappers
<1>1. PlannedLen(f) \in Int
  <2>1. f.plan.kv_len \in Int
    BY DEF Wrappers
  <2>2. f.first + f.n \in Int
    OBVIOUS
  <2> QED BY <2>1, <2>2, Zenon DEF PlannedLen
<1>2. [made |-> TRUE, need |-> FALSE, kv_len |-> PlannedLen(f)] \in Wrappers
  BY <1>1 DEF Wrappers
<1> QED BY <1>2, Zenon DEF PlanAfter

LEMMA WrapperChunk ==
  ASSUME Kept, stage = "prefill"
  PROVE  PlanAfter(Chunk) \in Wrappers
<1>1. Chunk.plan = NeedPlanAll
  BY DEF Chunk
<1>2. NeedPlanAll \in Wrappers
  BY DEF Kept, SessionTypes, NeedPlanAll, Wrappers
<1>3. Chunk.first \in Int /\ Chunk.n \in Int
  BY ChunkForward DEF IsForward
<1> QED BY <1>1, <1>2, <1>3, WrapperAfter

LEMMA WrapperStep ==
  ASSUME Kept, Decodes
  PROVE  PlanAfter(Step) \in Wrappers
<1>1. mla_wrapper \in Wrappers /\ seq_length \in Int
  BY DEF Kept, SessionTypes, Wrappers
<1>2. PlanAll(seq_length) \in Wrappers
  <2>1. [made |-> TRUE, need |-> FALSE, kv_len |-> seq_length] \in Wrappers
    BY <1>1 DEF Wrappers
  <2> QED BY <1>1, <2>1, Zenon DEF PlanAll
<1>3. Step.plan \in Wrappers
  <2>1. Step.plan = IF conf.flashinfer /\ MLA THEN PlanAll(seq_length) ELSE mla_wrapper
    BY DEF Step
  <2> QED BY <1>1, <1>2, <2>1, Zenon
<1>4. Step.first \in Int /\ Step.n \in Int
  BY StepForward DEF IsForward
<1> QED BY <1>3, <1>4, WrapperAfter

(* A token is appended. *)
LEMMA Appended ==
  ASSUME Kept, AppendToken
  PROVE  /\ generated_ids' \in [0 .. seq_length' - 1 -> Nat] /\ seq_length' = seq_length + 1
         /\ seq_length' \in Nat /\ Longer(seq_length)
<1>1. seq_length \in Nat /\ prompts \in Nat /\ generated_ids \in [0 .. seq_length - 1 -> Nat]
  BY DEF Kept, SessionTypes
<1>2. seq_length' = seq_length + 1
      /\ generated_ids' = [p \in 0 .. seq_length |->
                             IF p = seq_length THEN prompts ELSE generated_ids[p]]
  BY DEF AppendToken
<1>3. ASSUME NEW p \in 0 .. seq_length
      PROVE  (IF p = seq_length THEN prompts ELSE generated_ids[p]) \in Nat
  BY <1>1
<1>4. seq_length' - 1 = seq_length
  BY <1>1, <1>2
<1>5. generated_ids' \in [0 .. seq_length -> Nat]
  BY <1>2, <1>3
<1>6. ASSUME NEW s \in 0 .. seq_length - 1 PROVE generated_ids'[s] = generated_ids[s]
  <2>1. s \in 0 .. seq_length /\ s # seq_length
    BY <1>1
  <2> QED BY <1>2, <2>1
<1> QED BY <1>1, <1>2, <1>4, <1>5, <1>6 DEF Longer

(* The keys, after a forward that reaches to end. *)
LEMMA KeysAfter ==
  ASSUME NEW f, NEW b, IsForward(f), Kept, KeyedLen = f.first, Attend(f, b),
         Longer(f.first + f.n), cache_len' = cache_len, gaps' = gaps,
         KeyedLen' = f.first + f.n
  PROVE  KeysKept'
<1>1. f.first \in Nat /\ f.n \in Nat \ {0} /\ cache_len \in Nat /\ f.first + f.n <= cache_len
  BY DEF IsForward
<1>2. PICK end \in Nat : end = f.first + f.n
  BY <1>1
<1>3. key_cache' = [s \in 0 .. cache_len - 1 |-> SlotKey(s, end, gaps, generated_ids)]
  <2>1. KeyedLen <= f.first /\ f.first <= KeyedLen
    BY <1>1
  <2>2. key_cache' = Updated(f)
    BY DEF Attend
  <2> QED BY <1>2, <2>1, <2>2, KeysWritten
<1>4. [s \in 0 .. cache_len - 1 |-> SlotKey(s, end, gaps, generated_ids)]
        = [s \in 0 .. cache_len - 1 |-> SlotKey(s, end, gaps, generated_ids')]
  <2>1. \A s \in 0 .. cache_len - 1 : s < end => generated_ids[s] = generated_ids'[s]
    BY <1>1, <1>2 DEF Longer
  <2> QED BY <2>1, SameKeys
<1>5. gaps' \subseteq 0 .. KeyedLen' - 1
  <2>1. gaps \subseteq 0 .. f.first - 1
    BY DEF Kept, KeysKept
  <2> QED BY <1>1, <2>1
<1> QED BY <1>2, <1>3, <1>4, <1>5 DEF KeysKept, SlotKey

-----------------------------------------------------------------------------
(* Every step. *)

LEMMA PrefillKeeps ==
  ASSUME SessionInv, PrefillChunk
  PROVE  Kept' /\ SeesItsPast'
<1>1. Kept /\ stage = "prefill" /\ ConfTypes /\ ConfRules
  BY ConfMeant DEF PrefillChunk, SessionInv
<1>2. PICK f : f = Chunk
  OBVIOUS
<1>3. /\ IsForward(f) /\ f.first = chunk_start /\ f.n \in Nat \ {0}
      /\ chunk_start + f.n <= seq_length /\ ChunkEnd = chunk_start + f.n
  BY <1>1, <1>2, ChunkForward, Zenon
<1>4. /\ ~ModelForward(f).raised /\ Attend(f, 0)
      /\ conf' = conf /\ cache_len' = cache_len /\ gaps' = gaps /\ lag' = lag /\ prompts' = prompts
  BY <1>2, Zenon DEF PrefillChunk
<1>5. chunk_start \in Nat /\ seq_length \in Nat /\ chunk_start < seq_length /\ KeyedLen = f.first
      /\ cache_len \in Nat /\ seq_length < cache_len /\ past_tokens \in Nat /\ stop_at \in Int
      /\ generated_ids \in [0 .. seq_length - 1 -> Nat]
  BY <1>1, <1>3 DEF Kept, SessionTypes, StageLengths, KeyedLen
<1>6. mla_wrapper' \in Wrappers
  <2>1. mla_wrapper' = PlanAfter(f)
    BY <1>4 DEF Attend
  <2> QED BY <1>1, <1>2, <2>1, WrapperChunk, Zenon
<1>7. PICK m \in Nat \ {0} : m = f.n
  BY <1>3
<1>10. /\ past_tokens' = past_tokens + m /\ f.first + f.n = chunk_start + m
       /\ ChunkEnd = chunk_start + m /\ chunk_start + m <= seq_length
  <2>1. past_tokens' = past_tokens + m + 0
    BY <1>4, <1>7 DEF Attend
  <2>2. f.first + f.n = chunk_start + m /\ ChunkEnd = chunk_start + m /\ chunk_start + m <= seq_length
    BY <1>3, <1>7, Zenon
  <2> QED BY <1>5, <2>1, <2>2
<1>11. /\ chunk_start > 0 => past_tokens > 0
       /\ conf.server => past_tokens + lag = chunk_start
       /\ ~conf.server => lag = 0 /\ gaps = {} /\ past_tokens = chunk_start
       /\ lag \in Nat /\ prompts \in Nat
  BY <1>1 DEF Kept, PastCounted, KeyedLen, SessionTypes
<1>8. CASE ChunkEnd < seq_length
  <2>1. /\ chunk_start' = ChunkEnd
        /\ UNCHANGED <<generated_ids, seq_length, stop_at, stage, sampled_from>>
    BY <1>8 DEF PrefillChunk
  <2>2. Longer(f.first + f.n)
    BY <2>1 DEF Longer
  <2>3. KeyedLen' = f.first + f.n
    BY <1>1, <1>3, <2>1 DEF KeyedLen
  <2>4. KeysKept'
    BY <1>1, <1>3, <1>4, <1>5, <2>2, <2>3, KeysAfter
  <2>5. SessionTypes'
    BY <1>1, <1>4, <1>5, <1>6, <1>10, <1>11, <2>1 DEF SessionTypes, Wrappers
  <2>6. StageLengths'
    BY <1>1, <1>3, <1>4, <1>8, <2>1 DEF Kept, StageLengths
  <2>7. PastCounted'
    BY <1>1, <1>4, <1>5, <1>10, <1>11, <2>1, <2>3 DEF PastCounted
  <2>8. PastSeen'
    BY <1>1, <1>3, <1>4, <1>5, <2>2, PastSeenAfter
  <2>9. stage' = "prefill"
    BY <1>1, <2>1
  <2>10. SeesItsPast'
    <3>1. stage' # "raised" /\ stage' # "decode"
      BY <2>9
    <3> QED BY <2>8, <3>1, PropertyPartsAfter
  <2> QED BY <2>4, <2>5, <2>6, <2>7, <2>10 DEF Kept
<1>9. CASE ~(ChunkEnd < seq_length)
  <2>1. /\ Sample(f) /\ AppendToken
        /\ stage' = "decode" /\ stop_at' = LastLength(seq_length + 1) /\ chunk_start' = chunk_start
    BY <1>2, <1>9, Zenon DEF PrefillChunk
  <2>2. f.first + f.n = seq_length /\ chunk_start + m = seq_length
    BY <1>5, <1>9, <1>10
  <2>3. /\ generated_ids' \in [0 .. seq_length' - 1 -> Nat] /\ seq_length' = seq_length + 1
        /\ seq_length' \in Nat /\ Longer(seq_length)
    BY <1>1, <2>1, Appended
  <2>4. KeyedLen' = f.first + f.n
    BY <1>5, <2>1, <2>2, <2>3 DEF KeyedLen
  <2>5. KeysKept'
    BY <1>1, <1>3, <1>4, <1>5, <2>2, <2>3, <2>4, KeysAfter
  <2>6. stop_at' \in Int /\ stop_at' <= cache_len
    <3>1. CASE conf.server
      <4>1. cache_len = CacheLens /\ CacheLens \in Nat /\ MaxNewTokens \in Nat
        BY <1>1, <3>1, ConstTypes DEF Kept, StageLengths
      <4>2. PICK left \in Int : left = CacheLens - (seq_length + 1)
        BY <1>5, <4>1
      <4>3. PICK few \in Int : few = AtMost(MaxNewTokens, left) /\ few <= left
        BY <4>1, LeastOfTwo
      <4>4. stop_at' = IF few <= 2 THEN seq_length + 1 ELSE seq_length + 1 + few - 2
        BY <2>1, <3>1, <4>2, <4>3, Zenon DEF LastLength
      <4> QED BY <1>5, <4>1, <4>2, <4>3, <4>4
    <3>2. CASE ~conf.server
      <4>1. cache_len = seq_length + MaxNewTokens /\ MaxNewTokens \in Nat
        BY <1>1, <3>2, ConstTypes DEF Kept, StageLengths
      <4> QED BY <1>5, <2>1, <3>2, <4>1 DEF LastLength
    <3> QED BY <3>1, <3>2
  <2>7. SessionTypes'
    BY <1>1, <1>4, <1>5, <1>6, <1>10, <1>11, <2>1, <2>3, <2>6 DEF SessionTypes, Wrappers
  <2>8. StageLengths'
    BY <1>1, <1>3, <1>4, <1>5, <2>1, <2>3, <2>6 DEF Kept, StageLengths
  <2>9. PastCounted'
    BY <1>4, <1>5, <1>10, <1>11, <2>1, <2>4 DEF PastCounted
  <2>10. PastSeen'
    BY <1>1, <1>3, <1>4, <1>5, <2>2, <2>3, PastSeenAfter
  <2>11. sampled_from' = seq_length' - 2
    <3>1. LastRow(LogitRows(f)) = f.n - 1
      BY <1>3, LastLogit
    <3>2. sampled_from' = chunk_start + (m - 1)
      BY <1>3, <1>7, <2>1, <3>1, Zenon DEF Sample
    <3> QED BY <1>5, <2>2, <2>3, <3>2
  <2>12. SeesItsPast'
    <3>1. stage' # "raised"
      BY <2>1
    <3> QED BY <2>10, <2>11, <3>1, PropertyPartsAfter
  <2> QED BY <2>5, <2>7, <2>8, <2>9, <2>12 DEF Kept
<1> QED BY <1>8, <1>9

LEMMA DecodeKeeps ==
  ASSUME SessionInv, NEW eos \in BOOLEAN, DecodeStep(eos)
  PROVE  Kept' /\ SeesItsPast'
<1>1. Kept /\ stage = "decode" /\ Decodes /\ ConfTypes /\ ConfRules
  BY ConfMeant DEF DecodeStep, Decodes, SessionInv
<1>2. PICK f : f = Step
  OBVIOUS
<1>3. PICK b : b = Bias
  OBVIOUS
<1>4. IsForward(f) /\ f.first = seq_length - 1 /\ f.n = 1
  BY <1>1, <1>2, StepForward, Zenon
<1>5. /\ ~ModelForward(f).raised /\ Attend(f, b)
      /\ conf' = conf /\ cache_len' = cache_len /\ gaps' = gaps /\ lag' = lag /\ prompts' = prompts
      /\ chunk_start' = chunk_start /\ stop_at' = stop_at
  BY <1>2, <1>3, Zenon DEF DecodeStep
<1>6. seq_length \in Nat /\ 2 <= seq_length /\ seq_length < stop_at /\ stop_at \in Int
      /\ stop_at <= cache_len /\ cache_len \in Nat /\ past_tokens \in Nat /\ KeyedLen = f.first
      /\ generated_ids \in [0 .. seq_length - 1 -> Nat]
  BY <1>1, <1>4 DEF Kept, SessionTypes, StageLengths, KeyedLen, Decodes
<1>7. mla_wrapper' \in Wrappers
  <2>1. mla_wrapper' = PlanAfter(f)
    BY <1>5 DEF Attend
  <2> QED BY <1>1, <1>2, <2>1, WrapperStep, Zenon
<1>8. /\ past_tokens' = past_tokens + 1 + b /\ b \in {0, 1}
      /\ conf.server => past_tokens' = past_tokens + 1
  <2>1. past_tokens' = past_tokens + f.n + b
    BY <1>5 DEF Attend
  <2>2. b \in {0, 1} /\ (conf.server => b = 0)
    BY <1>3 DEF Bias
  <2> QED BY <1>4, <1>6, <2>1, <2>2
<1>9. f.first + f.n = seq_length
  BY <1>4, <1>6
<1>10. CASE eos
  <2>1. stage' = "stopped" /\ UNCHANGED <<generated_ids, seq_length, sampled_from>>
    BY <1>10 DEF DecodeStep
  <2>2. Longer(f.first + f.n)
    BY <2>1 DEF Longer
  <2>3. KeyedLen' = f.first + f.n
    BY <1>9, <2>1 DEF KeyedLen
  <2>4. KeysKept'
    BY <1>1, <1>4, <1>5, <1>6, <2>2, <2>3, KeysAfter
  <2>5. SessionTypes'
    BY <1>1, <1>5, <1>6, <1>7, <1>8, <2>1 DEF Kept, SessionTypes, Wrappers
  <2>6. StageLengths'
    BY <1>1, <1>5, <1>6, <2>1 DEF Kept, StageLengths
  <2>7. PastCounted'
    <3>1. (~conf.server => lag = 0 /\ gaps = {}) /\ (conf.server => past_tokens + lag = f.first)
          /\ lag \in Nat
      BY <1>1, <1>6 DEF Kept, PastCounted, SessionTypes
    <3> QED BY <1>4, <1>5, <1>6, <1>8, <2>1, <2>3, <3>1 DEF PastCounted
  <2>8. PastSeen'
    BY <1>1, <1>4, <1>5, <1>6, <2>2, PastSeenAfter
  <2>9. SeesItsPast'
    <3>1. stage' # "raised" /\ stage' # "decode"
      BY <2>1
    <3> QED BY <2>8, <3>1, PropertyPartsAfter
  <2> QED BY <2>4, <2>5, <2>6, <2>7, <2>9 DEF Kept
<1>11. CASE ~eos
  <2>1. Sample(f) /\ AppendToken /\ stage' = stage
    BY <1>2, <1>11, Zenon DEF DecodeStep
  <2>2. /\ generated_ids' \in [0 .. seq_length' - 1 -> Nat] /\ seq_length' = seq_length + 1
        /\ seq_length' \in Nat /\ Longer(seq_length)
    BY <1>1, <2>1, Appended
  <2>3. KeyedLen' = f.first + f.n
    BY <1>1, <1>6, <1>9, <2>1, <2>2 DEF KeyedLen
  <2>4. KeysKept'
    BY <1>1, <1>4, <1>5, <1>6, <1>9, <2>2, <2>3, KeysAfter
  <2>5. SessionTypes'
    BY <1>1, <1>5, <1>6, <1>7, <1>8, <2>1, <2>2 DEF Kept, SessionTypes, Wrappers
  <2>6. StageLengths'
    BY <1>1, <1>5, <1>6, <2>1, <2>2 DEF Kept, StageLengths
  <2>7. PastCounted'
    <3>1. (~conf.server => lag = 0 /\ gaps = {}) /\ (conf.server => past_tokens + lag = f.first)
          /\ lag \in Nat
      BY <1>1, <1>6 DEF Kept, PastCounted, SessionTypes
    <3> QED BY <1>1, <1>4, <1>5, <1>6, <1>8, <2>1, <2>3, <3>1 DEF PastCounted
  <2>8. PastSeen'
    BY <1>1, <1>4, <1>5, <1>6, <1>9, <2>2, PastSeenAfter
  <2>9. sampled_from' = seq_length' - 2
    <3>1. LastRow(LogitRows(f)) = f.n - 1
      BY <1>4, LastLogit
    <3>2. sampled_from' = f.first + (f.n - 1)
      BY <2>1, <3>1, Zenon DEF Sample
    <3> QED BY <1>4, <1>6, <2>2, <3>2
  <2>10. SeesItsPast'
    <3>1. stage' # "raised"
      BY <1>1, <2>1
    <3> QED BY <2>8, <2>9, <3>1, PropertyPartsAfter
  <2> QED BY <2>4, <2>5, <2>6, <2>7, <2>10 DEF Kept
<1> QED BY <1>10, <1>11

(* An error is one of a configuration that is said to have them. *)
LEMMA FailKeeps ==
  ASSUME SessionInv, PrefillFails \/ DecodeFails
  PROVE  stage' = "raised" /\ SeesItsPast'
<1>1. Fail
  BY DEF PrefillFails, DecodeFails
<1>2. stage' = "raised" /\ attended' = <<>> /\ conf' = conf
  BY <1>1 DEF Fail
<1>3. ~NeverRaises
  <2>1. ConfTypes /\ ConfRules
    BY ConfMeant DEF SessionInv
  <2>2. CASE PrefillFails
    <3>1. stage = "prefill" /\ ModelForward(Chunk).raised /\ Kept
      BY <2>2 DEF PrefillFails, SessionInv
    <3>2. IsForward(Chunk)
      BY <3>1, ChunkForward
    <3> QED BY <2>1, <3>1, <3>2, ForwardReturns, Zenon
  <2>3. CASE DecodeFails
    <3>1. Decodes /\ (PlanRaises \/ ModelForward(Step).raised) /\ Kept
      BY <2>3 DEF DecodeFails, SessionInv, Decodes
    <3>2. IsForward(Step)
      BY <3>1, StepForward
    <3>3. PlanRaises => ~NeverRaises
      BY DEF NeverRaises
    <3> QED BY <2>1, <3>1, <3>2, <3>3, ForwardReturns, Zenon
  <2> QED BY <2>2, <2>3
<1>4. ~NeverRaises'
  BY <1>2, <1>3 DEF NeverRaises, PlanRaises, MLA
<1>5. PastSeen'
  BY <1>2, NothingSeen
<1>6. stage' # "decode"
  BY <1>2
<1> QED BY <1>2, <1>4, <1>5, <1>6, PropertyPartsAfter

(* A prompt follows what is kept of the conversation. *)
LEMMA PromptTokens ==
  ASSUME Kept, NEW from \in Nat, NEW n \in Nat \ {0}, from <= seq_length, NewTokens(from, n)
  PROVE  /\ generated_ids' \in [0 .. seq_length' - 1 -> Nat] /\ seq_length' = from + n
         /\ seq_length' \in Nat /\ chunk_start' = from /\ stage' = "prefill"
         /\ prompts' \in Nat /\ attended' = <<>> /\ Longer(from) /\ KeyedLen' = from
<1>1. seq_length \in Nat /\ prompts \in Nat /\ generated_ids \in [0 .. seq_length - 1 -> Nat]
  BY DEF Kept, SessionTypes
<1>2. /\ seq_length' = from + n /\ chunk_start' = from /\ stage' = "prefill" /\ attended' = <<>>
      /\ generated_ids' = [p \in 0 .. from + n - 1 |->
                             IF p < from THEN generated_ids[p] ELSE prompts + 1]
      /\ prompts' = prompts + 1
  BY DEF NewTokens
<1>3. ASSUME NEW p \in 0 .. from + n - 1
      PROVE  (IF p < from THEN generated_ids[p] ELSE prompts + 1) \in Nat
  BY <1>1
<1>4. generated_ids' \in [0 .. seq_length' - 1 -> Nat]
  BY <1>2, <1>3
<1>5. ASSUME NEW s \in 0 .. from - 1 PROVE generated_ids'[s] = generated_ids[s]
  <2>1. s \in 0 .. from + n - 1 /\ s < from
    OBVIOUS
  <2> QED BY <1>2, <2>1
<1>6. KeyedLen' = from
  BY <1>2 DEF KeyedLen
<1> QED BY <1>1, <1>2, <1>4, <1>5, <1>6 DEF Longer

LEMMA PromptSees ==
  ASSUME stage' = "prefill", attended' = <<>>
  PROVE  SeesItsPast'
<1>1. PastSeen'
  BY NothingSeen
<1>2. stage' # "raised" /\ stage' # "decode"
  OBVIOUS
<1> QED BY <1>1, <1>2, PropertyPartsAfter

LEMMA ChatKeeps ==
  ASSUME SessionInv, NEW n \in 1 .. MaxPrompt, ChatPrompt(n)
  PROVE  Kept' /\ SeesItsPast'
<1>1. Kept /\ stage = "idle" /\ ~conf.server
  BY DEF SessionInv, ChatPrompt
<1>2. /\ NewTokens(0, n) /\ cache_len' = n + MaxNewTokens
      /\ key_cache' = EmptyCache(n + MaxNewTokens) /\ past_tokens' = 0
      /\ UNCHANGED <<conf, stop_at, kernelVars, gaps, lag>>
  BY DEF ChatPrompt
<1>3. n \in Nat \ {0} /\ MaxNewTokens \in Nat \ {0} /\ seq_length \in Nat
  BY <1>1, CausalAttentionAssumption DEF Kept, SessionTypes
<1>4. /\ generated_ids' \in [0 .. seq_length' - 1 -> Nat] /\ seq_length' = 0 + n
      /\ seq_length' \in Nat /\ chunk_start' = 0 /\ stage' = "prefill"
      /\ prompts' \in Nat /\ attended' = <<>> /\ KeyedLen' = 0
  BY <1>1, <1>2, <1>3, PromptTokens
<1>5. gaps = {} /\ lag = 0
  BY <1>1 DEF Kept, PastCounted
<1>6. KeysKept'
  <2>1. PICK len \in Nat : len = n + MaxNewTokens
    BY <1>3
  <2>2. key_cache' = [s \in 0 .. len - 1 |-> 0]
    BY <1>2, <2>1, Zenon DEF EmptyCache
  <2>3. ASSUME NEW s \in 0 .. len - 1 PROVE SlotKey(s, 0, {}, generated_ids') = 0
    BY DEF SlotKey
  <2> QED BY <1>2, <1>4, <1>5, <2>1, <2>2, <2>3 DEF KeysKept, SlotKey
<1>7. SessionTypes'
  BY <1>1, <1>2, <1>3, <1>4 DEF Kept, SessionTypes, kernelVars
<1>8. StageLengths'
  BY <1>1, <1>2, <1>3, <1>4 DEF StageLengths
<1>9. PastCounted'
  BY <1>1, <1>2, <1>4, <1>5 DEF PastCounted
<1> QED BY <1>4, <1>6, <1>7, <1>8, <1>9, PromptSees DEF Kept

LEMMA ThreadKeeps ==
  ASSUME SessionInv, NEW k \in 0 .. CacheLens, NEW n \in 1 .. CacheLens, NewThread(k, n)
  PROVE  Kept' /\ SeesItsPast'
<1>1. Kept /\ conf.server /\ stage \in {"idle", "decode", "stopped"}
  BY DEF SessionInv, NewThread, Takes
<1>2. /\ NewTokens(k, n) /\ key_cache' = SuffixRemoved(k) /\ past_tokens' = k
      /\ gaps' = {p \in gaps : p < k} /\ lag' = 0 /\ k + n < CacheLens
      /\ UNCHANGED <<conf, cache_len, stop_at, kernelVars>>
      /\ IF seq_length = 0 THEN k = 0 ELSE k < seq_length
  BY DEF NewThread
<1>3. /\ n \in Nat \ {0} /\ k \in Nat /\ seq_length \in Nat /\ CacheLens \in Nat
      /\ cache_len = CacheLens
  BY <1>1, CausalAttentionAssumption DEF Kept, SessionTypes, StageLengths
<1>4. k <= seq_length /\ k <= KeyedLen /\ KeyedLen \in Int
  <2>1. k <= seq_length /\ (seq_length > 0 => k <= seq_length - 1)
    BY <1>2, <1>3
  <2>2. stage = "decode" => 2 <= seq_length
    BY <1>1 DEF Kept, StageLengths
  <2>3. KeyedLen = IF stage = "decode" THEN seq_length - 1 ELSE seq_length
    BY <1>1 DEF KeyedLen
  <2> QED BY <1>3, <2>1, <2>2, <2>3
<1>5. /\ generated_ids' \in [0 .. seq_length' - 1 -> Nat] /\ seq_length' = k + n
      /\ seq_length' \in Nat /\ chunk_start' = k /\ stage' = "prefill"
      /\ prompts' \in Nat /\ attended' = <<>> /\ Longer(k) /\ KeyedLen' = k
  BY <1>1, <1>2, <1>3, <1>4, PromptTokens
<1>6. KeysKept'
  <2>1. key_cache = [s \in 0 .. cache_len - 1 |-> SlotKey(s, KeyedLen, gaps, generated_ids)]
    BY <1>1 DEF Kept, KeysKept
  <2>2. ASSUME NEW s \in 0 .. cache_len - 1
        PROVE  (IF s < k THEN key_cache[s] ELSE 0) = SlotKey(s, k, gaps', generated_ids')
    <3>2. CASE s < k
      <4>1. s < KeyedLen /\ s \in 0 .. k - 1
        BY <1>3, <1>4, <3>2
      <4>2. generated_ids'[s] = generated_ids[s]
        BY <1>5, <4>1, Zenon DEF Longer
      <4>3. s \in gaps' <=> s \in gaps
        BY <1>2, <3>2, Zenon
      <4>4. key_cache[s] = SlotKey(s, KeyedLen, gaps, generated_ids)
        BY <2>1
      <4> QED BY <3>2, <4>1, <4>2, <4>3, <4>4, Zenon DEF SlotKey
    <3>3. CASE ~(s < k)
      BY <3>3, Zenon DEF SlotKey
    <3> QED BY <3>2, <3>3
  <2>3. key_cache' = [s \in 0 .. cache_len - 1 |-> IF s < k THEN key_cache[s] ELSE 0]
    <3>1. CacheSlots = 0 .. cache_len - 1
      BY <2>1 DEF CacheSlots
    <3> QED BY <1>2, <3>1, Zenon DEF SuffixRemoved
  <2>4. gaps' \subseteq 0 .. k - 1
    <3>1. gaps \subseteq 0 .. KeyedLen - 1
      BY <1>1 DEF Kept, KeysKept
    <3>2. ASSUME NEW p \in gaps' PROVE p \in 0 .. k - 1
      <4>1. p \in gaps /\ p < k
        BY <1>2, <3>2, Zenon
      <4> QED BY <1>3, <1>4, <3>1, <4>1
    <3> QED BY <3>2
  <2>5. key_cache' = [s \in 0 .. cache_len - 1 |-> SlotKey(s, k, gaps', generated_ids')]
    BY <2>2, <2>3, Zenon
  <2> QED BY <1>2, <1>5, <2>4, <2>5 DEF KeysKept, SlotKey
<1>7. SessionTypes'
  BY <1>1, <1>2, <1>3, <1>5 DEF Kept, SessionTypes, kernelVars
<1>8. StageLengths'
  BY <1>1, <1>2, <1>3, <1>5 DEF StageLengths
<1>9. PastCounted'
  BY <1>1, <1>2, <1>3, <1>5 DEF PastCounted
<1> QED BY <1>5, <1>6, <1>7, <1>8, <1>9, PromptSees DEF Kept

LEMMA SameKeeps ==
  ASSUME SessionInv, NEW n \in 1 .. CacheLens, SameThread(n)
  PROVE  Kept' /\ SeesItsPast'
<1>1. Kept /\ conf.server /\ stage \in {"decode", "stopped"}
  BY DEF SessionInv, SameThread, Takes
<1>2. /\ NewTokens(seq_length, n) /\ seq_length + n < CacheLens
      /\ gaps' = gaps \cup Unkeyed /\ lag' = (IF Unkeyed = {} THEN lag ELSE lag + 1)
      /\ UNCHANGED <<conf, cacheVars, stop_at, kernelVars>>
  BY DEF SameThread
<1>3. /\ n \in Nat \ {0} /\ seq_length \in Nat /\ 2 <= seq_length /\ CacheLens \in Nat
      /\ cache_len = CacheLens /\ lag \in Nat /\ past_tokens \in Nat
  BY <1>1, CausalAttentionAssumption DEF Kept, SessionTypes, StageLengths
<1>4. /\ generated_ids' \in [0 .. seq_length' - 1 -> Nat] /\ seq_length' = seq_length + n
      /\ seq_length' \in Nat /\ chunk_start' = seq_length /\ stage' = "prefill"
      /\ prompts' \in Nat /\ attended' = <<>> /\ Longer(seq_length) /\ KeyedLen' = seq_length
  BY <1>1, <1>2, <1>3, PromptTokens
<1>5. /\ key_cache = [s \in 0 .. cache_len - 1 |-> SlotKey(s, KeyedLen, gaps, generated_ids)]
      /\ gaps \subseteq 0 .. KeyedLen - 1
      /\ KeyedLen > 0 => past_tokens > 0
      /\ past_tokens + lag = KeyedLen
  BY <1>1 DEF Kept, KeysKept, PastCounted
<1>6. \/ stage = "decode" /\ KeyedLen = seq_length - 1 /\ Unkeyed = {seq_length - 1}
      \/ stage = "stopped" /\ KeyedLen = seq_length /\ Unkeyed = {}
  BY <1>1 DEF KeyedLen, Unkeyed
<1>7. KeysKept'
  <2>1. ASSUME NEW s \in 0 .. cache_len - 1
        PROVE  key_cache[s] = SlotKey(s, seq_length, gaps', generated_ids')
    <3>1. key_cache[s] = SlotKey(s, KeyedLen, gaps, generated_ids)
      BY <1>5
    <3>2. s < seq_length => generated_ids'[s] = generated_ids[s]
      BY <1>3, <1>4 DEF Longer
    <3>3. (s < seq_length /\ s \notin gaps') <=> (s < KeyedLen /\ s \notin gaps)
      BY <1>2, <1>3, <1>5, <1>6
    <3> QED BY <3>1, <3>2, <3>3, Zenon DEF SlotKey
  <2>2. gaps' \subseteq 0 .. seq_length - 1
    <3>1. ASSUME NEW p \in gaps' PROVE p \in 0 .. seq_length - 1
      <4>1. p \in gaps \/ p \in Unkeyed
        BY <1>2, <3>1
      <4>2. p \in gaps => p \in 0 .. KeyedLen - 1
        BY <1>5
      <4> QED BY <1>3, <1>6, <4>1, <4>2
    <3> QED BY <3>1
  <2>3. key_cache = [s \in 0 .. cache_len - 1 |-> key_cache[s]]
    BY <1>5
  <2>4. key_cache = [s \in 0 .. cache_len - 1 |-> SlotKey(s, seq_length, gaps', generated_ids')]
    BY <2>1, <2>3, Zenon
  <2>5. key_cache' = key_cache /\ cache_len' = cache_len
    BY <1>2 DEF cacheVars
  <2> QED BY <1>4, <2>2, <2>4, <2>5 DEF KeysKept, SlotKey
<1>8. SessionTypes'
  BY <1>1, <1>2, <1>3, <1>4 DEF Kept, SessionTypes, kernelVars, cacheVars
<1>9. StageLengths'
  BY <1>1, <1>2, <1>3, <1>4 DEF StageLengths, cacheVars
<1>10. PastCounted'
  <2>1. past_tokens' = past_tokens /\ conf' = conf
    BY <1>2 DEF cacheVars
  <2>2. past_tokens + lag' = seq_length
    BY <1>2, <1>3, <1>5, <1>6
  <2>3. past_tokens > 0
    BY <1>3, <1>5, <1>6
  <2> QED BY <1>1, <1>4, <2>1, <2>2, <2>3 DEF PastCounted
<1> QED BY <1>4, <1>7, <1>8, <1>9, <1>10, PromptSees DEF Kept

LEMMA StepSession == SessionInv /\ [SessionNext]_sessionVars => SessionInv'
<1> SUFFICES ASSUME SessionInv, [SessionNext]_sessionVars PROVE SessionInv'
  OBVIOUS
<1>1. conf' = conf
  BY DEF SessionNext, ChatPrompt, NewThread, SameThread, PrefillChunk, PrefillFails, DecodeStep,
         DecodeFails, Fail, sessionVars
<1>2. conf' \in AttnConfigs
  BY <1>1 DEF SessionInv
<1>3. ASSUME NEW n \in 1 .. MaxPrompt, ChatPrompt(n) PROVE SessionInv'
  BY <1>2, <1>3, ChatKeeps DEF SessionInv
<1>4. ASSUME NEW k \in 0 .. CacheLens, NEW n \in 1 .. CacheLens, NewThread(k, n) PROVE SessionInv'
  BY <1>2, <1>4, ThreadKeeps DEF SessionInv
<1>5. ASSUME NEW n \in 1 .. CacheLens, SameThread(n) PROVE SessionInv'
  BY <1>2, <1>5, SameKeeps DEF SessionInv
<1>6. CASE PrefillChunk
  BY <1>2, <1>6, PrefillKeeps DEF SessionInv
<1>7. CASE PrefillFails \/ DecodeFails
  BY <1>2, <1>7, FailKeeps DEF SessionInv
<1>8. ASSUME NEW eos \in BOOLEAN, DecodeStep(eos) PROVE SessionInv'
  BY <1>2, <1>8, DecodeKeeps DEF SessionInv
<1>9. CASE UNCHANGED sessionVars
  <2> USE DEF sessionVars, cacheVars, driverVars, kernelVars, seenVars
  <2>1. Kept' <=> Kept
    BY <1>9 DEF Kept, SessionTypes, StageLengths, KeysKept, PastCounted, KeyedLen, SlotKey
  <2>2. SeesItsPast' <=> SeesItsPast
    BY <1>9 DEF SeesItsPast, NeverRaises, PlanRaises, MLA, LeftOut, LongPrefill
  <2> QED BY <1>2, <1>9, <2>1, <2>2 DEF SessionInv
<1> QED BY <1>3, <1>4, <1>5, <1>6, <1>7, <1>8, <1>9 DEF SessionNext

LEMMA InitSession == SessionInit => SessionInv
<1> SUFFICES ASSUME SessionInit PROVE SessionInv
  OBVIOUS
<1>1. /\ conf \in AttnConfigs /\ stage = "idle" /\ attended = <<>> /\ gaps = {} /\ lag = 0
      /\ cache_len = (IF conf.server THEN CacheLens ELSE 0) /\ key_cache = EmptyCache(cache_len)
      /\ past_tokens = 0 /\ generated_ids = <<>> /\ seq_length = 0 /\ chunk_start = 0
      /\ stop_at = 0 /\ prompts = 0 /\ mla_wrapper = [made |-> FALSE, need |-> TRUE, kv_len |-> 0]
  BY DEF SessionInit
<1>2. KeyedLen = 0
  BY <1>1 DEF KeyedLen
<1>3. SessionTypes
  BY <1>1, ConstTypes DEF SessionTypes
<1>4. StageLengths
  BY <1>1 DEF StageLengths
<1>5. KeysKept
  BY <1>1, <1>2 DEF KeysKept, SlotKey, EmptyCache
<1>6. PastCounted
  BY <1>1, <1>2 DEF PastCounted
<1>7. PastSeen
  BY <1>1 DEF PastSeen
<1>8. SeesItsPast
  <2>1. stage # "raised" /\ stage # "decode"
    BY <1>1
  <2> QED BY <1>7, <2>1, PropertyParts
<1> QED BY <1>1, <1>3, <1>4, <1>5, <1>6, <1>8 DEF SessionInv, Kept

(* Whatever was asked before, in whatever chunks, by pieces, splits or a   *)
(* replayed graph, a query reads the keys up to its own, but for what its  *)
(* class of attention is known to leave out.                               *)
THEOREM QueriesSeeTheirPast == SessionSpec => []SeesItsPast
<1>1. SessionInit => SessionInv
  BY InitSession
<1>2. SessionInv /\ [SessionNext]_sessionVars => SessionInv'
  BY StepSession
<1>3. SessionInv => SeesItsPast
  BY DEF SessionInv
<1> QED BY <1>1, <1>2, <1>3, PTL DEF SessionSpec
=============================================================================
