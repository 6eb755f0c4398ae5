------------------------------ MODULE GGUFTensors ------------------------------
(***************************************************************************)
(* Tensors of a GGUF file: load_gguf finds them, load_gguf_tensor loads    *)
(* one in pieces and load_expert_tensor one expert of it                   *)
(* (util/custom_gguf.py), and each quantised block is converted by numpy   *)
(* on the CPU or by a CUDA kernel (ktransformers_ext/cuda/custom_gguf).    *)
(*                                                                         *)
(* What a conversion does to element e of a block is the record of the     *)
(* bits it reads: those of the quantised value, of its scale and of its    *)
(* minimum, and the bytes of the two factors of the block.  A field of     *)
(* bits is a sequence of pieces <<byte, first bit, bits>>, the low ones    *)
(* first.  Equal records mean equal values, up to rounding.                *)
(***************************************************************************)
EXTENDS Integers, Sequences

CONSTANTS
  BlocksPerIter,    \* blocks_per_iter, 16384
  MaxBlocks,        \* bound: blocks of the tensor
  MaxExperts,       \* bound: experts of the tensor
  TensorsBefore,    \* bound: type and blocks of the tensor before it
  HeaderEnds,       \* bound: where a header ends
  Alignments        \* bound: of the file, 32 by default

ASSUME GGUFAssumption ==
  /\ {BlocksPerIter, MaxBlocks, MaxExperts} \subseteq Nat \ {0}
  /\ \A b \in TensorsBefore : b.blocks \in Nat \ {0}
  /\ HeaderEnds \subseteq Nat /\ Alignments \subseteq Nat \ {0}

VARIABLES
  gguf,           \* what was written to the file
  offset,         \* tensor_info: where the tensor is taken to begin, or -1
  request,        \* a call of load_gguf_tensor or load_expert_tensor
  loop,           \* iterations of the loop over a large tensor
  values,         \* blocks that are converted, in order
  outcome         \* what the call ends with

ggufVars == <<gguf, offset, request, loop, values, outcome>>

-----------------------------------------------------------------------------
(* Faulty variant of an operator below, to show what the property detects. *)
ScaleBitsTwice(j, at) ==
  IF j < 4 THEN [d |-> <<<<at + j, 0, 6>>>>, m |-> <<<<at + j + 4, 0, 6>>>>]
  ELSE [d |-> <<<<at + j + 4, 0, 4>>, <<at + j - 4, 6, 2>>>>,
        m |-> <<<<at + j + 4, 4, 4>>, <<at + j - 4, 6, 2>>>>]

-----------------------------------------------------------------------------
(* The conversions of a block.  d and dmin: bytes of the factors; minus:   *)
(* what is subtracted from the quantised value; scale_minus: from the      *)
(* scale; NoField where there is no scale or minimum.                      *)

NoField == <<>>
Element(d, scale, scale_minus, quant, minus) ==
  [d |-> d, scale |-> scale, scale_minus |-> scale_minus, quant |-> quant,
   minus |-> minus, dmin |-> -1, min |-> NoField]
ElementWithMin(d, scale, quant, dmin, min) ==
  [d |-> d, scale |-> scale, scale_minus |-> 0, quant |-> quant,
   minus |-> 0, dmin |-> dmin, min |-> min]

(* np.stack or np.concatenate of rows of 16 or 32: the row of an element,  *)
(* and its place there.                                                    *)
Row(e, n) == e \div n
In(e, n) == e % n

dequantize_q8_0(e) == Element(0, NoField, 0, <<<<2 + e, 0, 8>>>>, 0)

dequantize_q4_0(e) ==
  Element(0, NoField, 0, <<<<2 + In(e, 16), 4 * Row(e, 16), 4>>>>, 8)

dequantize_q5_0(e) ==
  Element(0, NoField, 0,
          <<<<6 + In(e, 16), 4 * Row(e, 16), 4>>, <<2 + e \div 8, e % 8, 1>>>>, 16)

dequantize_q2_k(e) ==
  LET k == Row(e, 16)
  IN ElementWithMin(80, <<<<k, 0, 4>>>>,
       <<<<16 + 32 * (k \div 8) + 16 * (k % 2) + In(e, 16), 2 * ((k % 8) \div 2), 2>>>>,
       82, <<<<k, 4, 4>>>>)

(* hmask: 4 is subtracted where a bit is clear, which is adding 4 times    *)
(* the bit and subtracting 4.                                              *)
dequantize_q3_k(e) ==
  LET k == Row(e, 16)
      a == 96  b == 100  c == 104
      scales == [r \in 0 .. 3 |->
        <<<<(IF r % 2 = 0 THEN a ELSE b) + (k % 4), 4 * (r \div 2), 4>>,
          <<c + (k % 4), 2 * r, 2>>>>]
  IN Element(108, scales[k \div 4], 32,
        <<<<32 + 32 * (k \div 8) + 16 * (k % 2) + In(e, 16), 2 * ((k % 8) \div 2), 2>>,
          <<16 * (k % 2) + In(e, 16), k \div 2, 1>>>>, 4)

(* factors and offsets of sub-block s, from the 12 bytes qs1 *)
Factors(s) ==
  IF s < 4 THEN <<<<4 + s, 0, 6>>>> ELSE <<<<4 + 8 + s - 4, 0, 4>>, <<4 + s - 4, 6, 2>>>>
Offsets(s) ==
  IF s < 4 THEN <<<<4 + 4 + s, 0, 6>>>> ELSE <<<<4 + 8 + s - 4, 4, 4>>, <<4 + s, 6, 2>>>>

dequantize_q4_k(e) ==
  LET s == Row(e, 32)
  IN ElementWithMin(0, Factors(s),
       <<<<16 + 32 * (s \div 2) + In(e, 32), 4 * (s % 2), 4>>>>, 2, Offsets(s))

dequantize_q5_k(e) ==
  LET s == Row(e, 32)
  IN ElementWithMin(0, Factors(s),
       <<<<48 + 32 * (s \div 2) + In(e, 32), 4 * (s % 2), 4>>, <<16 + In(e, 32), s, 1>>>>,
       2, Offsets(s))

(* q1 .. q8 of 32 elements, with two scales each *)
dequantize_q6_k(e) ==
  LET q == Row(e, 32)
      half == q \div 4
  IN Element(208, <<<<192 + Row(e, 16), 0, 8>>>>, 0,
       <<<<64 * half + 32 * (q % 2) + In(e, 32), IF q % 4 < 2 THEN 0 ELSE 4, 4>>,
         <<128 + 32 * half + In(e, 32), 2 * (q % 4), 2>>>>, 32)

(* The quantised value is an index in kvalues_iq4nl. *)
dequantize_iq4_xs(e) ==
  LET ib == Row(e, 32)
  IN Element(0, <<<<4 + ib \div 2, 4 * (ib % 2), 4>>, <<2 + ib \div 4, 2 * (ib % 4), 2>>>>, 32,
        <<<<8 + 16 * ib + In(e, 16), 4 * (In(e, 32) \div 16), 4>>>>, 0)

-----------------------------------------------------------------------------
(* The kernels, one thread for a block, in the order of their loops: the   *)
(* variables of the loops are recovered from the place of the element.     *)

q8_0_kernel(e) ==
  LET cur_block == 2 IN Element(0, NoField, 0, <<<<cur_block + e, 0, 8>>>>, 0)

(* n in 0, 128; j in 0 .. 3; twice 16 elements *)
q2_k_kernel(e) ==
  LET n == e \div 128
      j == (e % 128) \div 32
      h == (e % 32) \div 16
      is == 8 * n + 2 * j + h
      q == 16 + 32 * n
  IN ElementWithMin(80, <<<<is, 0, 4>>>>, <<<<q + 16 * h + (e % 16), 2 * j, 2>>>>,
                    82, <<<<is, 4, 4>>>>)

(* aux[0] to aux[3] hold four bytes each, of 4 bits of one word and 2 bits *)
(* of tmp; the mask m moves on when q does.                                *)
q3_k_kernel(e) ==
  LET n == e \div 128
      j == (e % 128) \div 32
      h == (e % 32) \div 16
      is == 8 * n + 2 * j + h
      word(i) == 96 + 4 * i + (is % 4)
      tmp == word(2)
      aux == [i \in 0 .. 3 |-> <<<<word(i % 2), IF i >= 2 THEN 4 ELSE 0, 4>>,
                                 <<tmp, <<0, 2, 4, 6>>[i + 1], 2>>>>]
      m == 4 * n + j
  IN Element(108, aux[is \div 4], 32,
        <<<<32 + 32 * n + 16 * h + (e % 16), 2 * j, 2>>, <<16 * h + (e % 16), m, 1>>>>, 4)

(* get_scale_min_k4 for the scales at byte "at" *)
GetScaleMinK4(j, at) ==
  IF j < 4 THEN [d |-> <<<<at + j, 0, 6>>>>, m |-> <<<<at + j + 4, 0, 6>>>>]
  ELSE [d |-> <<<<at + j + 4, 0, 4>>, <<at + j - 4, 6, 2>>>>,
        m |-> <<<<at + j + 4, 4, 4>>, <<at + j, 6, 2>>>>]

(* Rounds of 64: is and q, or ql, move on by 2 and 32. *)
q4_k_kernel(e) ==
  LET round == e \div 64
      high == (e % 64) \div 32
      sc == GetScaleMinK4(2 * round + high, 4)
  IN ElementWithMin(0, sc.d, <<<<16 + 32 * round + (e % 32), 4 * high, 4>>>>, 2, sc.m)

q5_k_kernel(e) ==
  LET round == e \div 64
      high == (e % 64) \div 32
      sc == GetScaleMinK4(2 * round + high, 4)
  IN ElementWithMin(0, sc.d,
       <<<<48 + 32 * round + (e % 32), 4 * high, 4>>, <<16 + (e % 32), 2 * round + high, 1>>>>,
       2, sc.m)

(* Each l writes at l, l + 32, l + 64 and l + 96. *)
q6_k_kernel(e) ==
  LET n == e \div 128
      place == (e % 128) \div 32
      l == e % 32
      is == l \div 16
  IN Element(208, <<<<192 + 8 * n + is + 2 * place, 0, 8>>>>, 0,
       <<<<64 * n + l + <<0, 32, 0, 32>>[place + 1], <<0, 0, 4, 4>>[place + 1], 4>>,
         <<128 + 32 * n + l, 2 * place, 2>>>>, 32)

iq4_xs_kernel(e) ==
  LET ib == e \div 32
      j == e % 16
      scales_h == 2 + (2 * ib) \div 8
  IN Element(0, <<<<4 + ib \div 2, 4 * (ib % 2), 4>>, <<scales_h, (2 * ib) % 8, 2>>>>, 32,
        <<<<8 + 16 * ib + j, IF e % 32 < 16 THEN 0 ELSE 4, 4>>>>, 0)

-----------------------------------------------------------------------------
(* The tables: bytes and elements of a block.  GGML_QUANT_SIZES has 31     *)
(* types, of which Q4_1 stands for those that cannot be loaded.            *)

QUANT_SIZES ==
  [F32 |-> <<1, 4>>, F16 |-> <<1, 2>>, BF16 |-> <<1, 2>>,
   Q4_0 |-> <<32, 2 + 16>>, Q4_1 |-> <<32, 2 + 2 + 16>>, Q5_0 |-> <<32, 2 + 4 + 16>>,
   Q8_0 |-> <<32, 2 + 32>>, Q2_K |-> <<256, 2 + 2 + 16 + 64>>,
   Q3_K |-> <<256, 2 + 64 + 32 + 12>>, Q4_K |-> <<256, 2 + 2 + 128 + 12>>,
   Q5_K |-> <<256, 2 + 2 + 128 + 32 + 12>>, Q6_K |-> <<256, 2 + 128 + 64 + 16>>,
   IQ4_XS |-> <<256, 2 + 2 + 128 + 4>>]

BLOCK_SIZES ==
  [F32 |-> 4, F16 |-> 2, BF16 |-> 2, Q4_0 |-> 2 + 16, Q5_0 |-> 2 + 4 + 16,
   Q8_0 |-> 2 + 32, Q2_K |-> 16 + 64 + 2 + 2, Q3_K |-> 32 + 64 + 12 + 2,
   Q4_K |-> 2 + 2 + 12 + 128, Q5_K |-> 2 + 2 + 12 + 32 + 128,
   Q6_K |-> 128 + 64 + 16 + 2, IQ4_XS |-> 2 + 2 + 128 + 4]

ELEMENTS_PER_BLOCK ==
  [F32 |-> 1, F16 |-> 1, BF16 |-> 1, Q4_0 |-> 32, Q5_0 |-> 32, Q8_0 |-> 32,
   Q2_K |-> 256, Q3_K |-> 256, Q4_K |-> 256, Q5_K |-> 256, Q6_K |-> 256, IQ4_XS |-> 256]

Types == DOMAIN QUANT_SIZES

ASSUME TensorsBeforeAssumption == \A b \in TensorsBefore : b.type \in Types

GGML_NAMES == DOMAIN BLOCK_SIZES
Copied == {"F32", "F16", "BF16"}

GGML_DEQUANTIZE(type, e) ==
  CASE type = "Q4_0" -> dequantize_q4_0(e) [] type = "Q5_0" -> dequantize_q5_0(e)
    [] type = "Q8_0" -> dequantize_q8_0(e) [] type = "Q2_K" -> dequantize_q2_k(e)
    [] type = "Q3_K" -> dequantize_q3_k(e) [] type = "Q4_K" -> dequantize_q4_k(e)
    [] type = "Q5_K" -> dequantize_q5_k(e) [] type = "Q6_K" -> dequantize_q6_k(e)
    [] type = "IQ4_XS" -> dequantize_iq4_xs(e)

GGML_DEQUANTIZE_GPU(type, e) ==
  CASE type = "Q8_0" -> q8_0_kernel(e) [] type = "Q2_K" -> q2_k_kernel(e)
    [] type = "Q3_K" -> q3_k_kernel(e) [] type = "Q4_K" -> q4_k_kernel(e)
    [] type = "Q5_K" -> q5_k_kernel(e) [] type = "Q6_K" -> q6_k_kernel(e)
    [] type = "IQ4_XS" -> iq4_xs_kernel(e)

NoKernel == {"Q4_0", "Q5_0"}      \* these raise NotImplementedError

-----------------------------------------------------------------------------
(* Reading the header *)

Aligned(at) == at + ((gguf.alignment - (at % gguf.alignment)) % gguf.alignment)

(* n_bytes; the rows must be whole blocks. *)
ItemBytes(type, blocks) ==
  LET n_elems == blocks * QUANT_SIZES[type][1]
  IN (n_elems * QUANT_SIZES[type][2]) \div QUANT_SIZES[type][1]

(* The writer pads each tensor, and the header. *)
BadOffset == Aligned(ItemBytes(gguf.before.type, gguf.before.blocks))
Written(b) == Aligned(gguf.header_end) + BadOffset + b * QUANT_SIZES[gguf.type][2]

(* Alignment is applied to the sum, not to the end of the header. *)
LoadGguf ==
  /\ offset = -1 /\ outcome = "none"
  /\ IF gguf.ragged /\ QUANT_SIZES[gguf.type][1] > 1
     THEN outcome' = "raises" /\ UNCHANGED offset
     ELSE offset' = Aligned(gguf.header_end + BadOffset) /\ UNCHANGED outcome
  /\ UNCHANGED <<gguf, request, loop, values>>

-----------------------------------------------------------------------------
(* Loading *)

(* Blocks a .. b - 1 of the bytes data, converted on the device of the     *)
(* request.  bits: what the bits are, dtype: what torch takes them for.    *)
(* float16 is the type numpy has for BF16.                                 *)
Native(type) == IF type = "F32" THEN "fp32" ELSE IF type = "BF16" THEN "bf16" ELSE "fp16"

(* target_dtype has a default, which torch gave when it was imported.      *)
ImportedDtype == "fp32"

Convert(data, a, b, target) ==
  [i \in 1 .. b - a |->
    LET from == data + (a + i - 1) * BLOCK_SIZES[gguf.type]
        bits == IF gguf.type = "BF16" THEN "bf16"
                ELSE IF request.device = "cuda" THEN target
                ELSE IF gguf.type \in Copied THEN Native(gguf.type) ELSE "fp32"
    IN [from |-> from, by |-> IF gguf.type \in Copied THEN "copy" ELSE request.device,
        bits |-> bits, dtype |-> IF gguf.type = "BF16" THEN "fp16" ELSE bits]]

(* .view(torch.bfloat16), and assignment to a tensor of another type,      *)
(* which converts what the bits are taken for.                             *)
ViewBF16(v) == IF gguf.type = "BF16" THEN [v EXCEPT !.dtype = "bf16"] ELSE v
Assigned(v, target) ==
  [v EXCEPT !.bits = IF v.bits = v.dtype THEN target ELSE "garbage", !.dtype = target]
ViewAll(vs) == [i \in DOMAIN vs |-> ViewBF16(vs[i])]
AssignAll(vs, target) == [i \in DOMAIN vs |-> Assigned(vs[i], target)]

NotImplemented ==
  \/ gguf.type \notin GGML_NAMES
  \/ request.device = "cuda" /\ gguf.type \in NoKernel

Refuse ==
  /\ offset # -1 /\ outcome = "none" /\ NotImplemented
  /\ outcome' = "raises"
  /\ UNCHANGED <<gguf, offset, request, loop, values>>

Loading == offset # -1 /\ outcome = "none" /\ ~NotImplemented
IsLarge == gguf.blocks > BlocksPerIter

LoadSmallTensor ==
  /\ Loading /\ request.call = "tensor" /\ ~IsLarge
  /\ values' = ViewAll(Convert(offset, 0, gguf.blocks, ImportedDtype))
  /\ outcome' = "loaded"
  /\ UNCHANGED <<gguf, offset, request, loop>>

Iterations == (gguf.blocks + BlocksPerIter - 1) \div BlocksPerIter
BlocksBegin(i) == i * BlocksPerIter
BlocksEnd(i) == IF BlocksBegin(i) + BlocksPerIter < gguf.blocks
                THEN BlocksBegin(i) + BlocksPerIter ELSE gguf.blocks

LoadIteration ==
  /\ Loading /\ request.call = "tensor" /\ IsLarge /\ loop < Iterations
  /\ values' = values \o
       AssignAll(ViewAll(Convert(offset, BlocksBegin(loop), BlocksEnd(loop),
                                 request.target_dtype)), request.target_dtype)
  /\ loop' = loop + 1
  /\ UNCHANGED <<gguf, offset, request, outcome>>

(* The view at the end takes a converted BF16 tensor for BF16 again: one   *)
(* of 32 bits has too many elements then for its shape.                    *)
LoadLargeTensor ==
  /\ Loading /\ request.call = "tensor" /\ IsLarge /\ loop = Iterations
  /\ values' = ViewAll(values)
  /\ outcome' = IF gguf.type = "BF16" /\ request.target_dtype = "fp32"
                THEN "raises" ELSE "loaded"
  /\ UNCHANGED <<gguf, offset, request, loop>>

(* Expert expert_id of the tensor, which has gguf.experts. *)
LoadExpertTensor ==
  LET elements_per_expert == (gguf.blocks * ELEMENTS_PER_BLOCK[gguf.type]) \div gguf.experts
      blocks_per_experts == elements_per_expert \div ELEMENTS_PER_BLOCK[gguf.type]
      start == request.expert_id * BLOCK_SIZES[gguf.type] * blocks_per_experts
  IN /\ Loading /\ request.call = "expert"
     /\ IF elements_per_expert % ELEMENTS_PER_BLOCK[gguf.type] # 0
        THEN outcome' = "raises" /\ UNCHANGED values
        ELSE /\ outcome' = "loaded"
             /\ values' = ViewAll(Convert(offset + start, 0, blocks_per_experts,
                                          request.target_dtype))
     /\ UNCHANGED <<gguf, offset, request, loop>>

-----------------------------------------------------------------------------

Requests ==
  [call : {"tensor"}, expert_id : {0}, device : {"cpu", "cuda"},
   target_dtype : {"bf16", "fp16", "fp32"}]
  \cup [call : {"expert"}, expert_id : 0 .. MaxExperts - 1, device : {"cpu", "cuda"},
        target_dtype : {"bf16", "fp16", "fp32"}]

GgufInit ==
  /\ gguf \in [type : Types, blocks : 1 .. MaxBlocks, experts : 1 .. MaxExperts,
               ragged : BOOLEAN, before : TensorsBefore,
               header_end : HeaderEnds, alignment : Alignments]
  /\ request \in Requests /\ request.expert_id < gguf.experts
  /\ offset = -1 /\ loop = 0 /\ values = <<>>
  /\ outcome = "none"

GgufNext ==
  \/ LoadGguf \/ Refuse
  \/ LoadSmallTensor \/ LoadIteration \/ LoadLargeTensor \/ LoadExpertTensor

GgufSpec == GgufInit /\ [][GgufNext]_ggufVars

-----------------------------------------------------------------------------
(* Properties *)

(* A conversion on the GPU and one by numpy read the same bits. *)
SameBits ==
  [type \in GGML_NAMES \ (Copied \cup NoKernel) |->
     \A e \in 0 .. ELEMENTS_PER_BLOCK[type] - 1 :
       GGML_DEQUANTIZE(type, e) = GGML_DEQUANTIZE_GPU(type, e)]

FirstBlock == IF request.call = "expert"
              THEN request.expert_id * (gguf.blocks \div gguf.experts) ELSE 0
BlockCount == IF request.call = "expert"
              THEN gguf.blocks \div gguf.experts ELSE gguf.blocks

(* A tensor, or an expert, that is loaded has the blocks that were written *)
(* for it, in order, however it is cut in iterations; the device decides   *)
(* nothing about what a block means; and its bits are taken for what they  *)
(* are, except in a large BF16 tensor that is loaded as float16            *)
(* (load_gguf_tensor, load_expert_tensor).                                 *)
LoadedAsWritten ==
  outcome = "loaded" =>
    /\ Len(values) = BlockCount
    /\ \A i \in DOMAIN values :
         /\ values[i].from = Written(FirstBlock + i - 1)
         /\ values[i].by = "cuda" => SameBits[gguf.type]
         /\ \/ values[i].bits = values[i].dtype
            \/ /\ gguf.type = "BF16" /\ IsLarge
               /\ request.call = "tensor" /\ request.target_dtype = "fp16"
=============================================================================
