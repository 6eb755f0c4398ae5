------------------------- MODULE CPUExperts_proofs -------------------------
(***************************************************************************)
(* Proofs about CPUExperts: what a decoding layer adds is its own result;  *)
(* operators in use are alive and their scratch memory is in the block in  *)
(* force; and a prefill gives each token its contributions.                *)
(***************************************************************************)
EXTENDS CPUExperts, NumberLemmas, SequenceTheorems

(***************************************************************************)
(* Control.  The queue is idle unless Python or the stream waits for it:   *)
(* that is what makes it safe for all layers to share the pinned tensors   *)
(* and one scratch memory.                                                 *)
(***************************************************************************)
PinnedShape ==
  pinned = [input |-> pinned.input, weights |-> pinned.weights, ids |-> pinned.ids,
            size |-> pinned.size, output |-> pinned.output]

Shapes ==
  /\ conf \in Configs /\ PinnedShape
  /\ added = [l \in Layers |-> added[l]]
  /\ tasks \in Seq(Range(tasks)) /\ stream \in Seq(Range(stream))
  /\ running # <<>> => running = <<Run>>
  /\ running # <<>> =>
       Run = [task |-> Run.task, at |-> Run.at, out |-> Run.out, size |-> Run.size,
              allocation |-> Run.allocation]

Control ==
  /\ pc \in {"load", "idle", "decode", "prefill", "reload"} /\ sync \in BOOLEAN
  /\ layer \in 0 .. NLayers + 1 /\ pass \in Nat
  /\ pc # "decode" => stream = <<>>
  /\ sync => /\ stream = <<>> /\ pc \in {"load", "decode", "prefill"}
             /\ layer <= NLayers /\ (pc = "decode" => layer = LmHead)
  /\ pc = "idle" => layer = 0

Awaited == sync \/ (stream # <<>> /\ Head(stream).do = "sync")
Waits == QueueIdle \/ Awaited

(* What the stream does for a task comes in order and without gaps. *)
OpShape(o) ==
  /\ o.task.kind \in {"decode", "linear"}
  /\ o.do \in IF o.task.kind = "linear" THEN {"submit", "sync"}
              ELSE {"copy", "submit", "sync", "add"}
  /\ o.task.kind = "decode" =>
       o.tag.layer \in Layers /\ o.task.layer = o.tag.layer

EndsTask(o) == o.do = IF o.task.kind = "linear" THEN "sync" ELSE "add"
StartsTask(o) == o.do = IF o.task.kind = "linear" THEN "submit" ELSE "copy"

Follows(o, p) ==
  IF EndsTask(o) THEN StartsTask(p)
  ELSE /\ p.task = o.task /\ p.tag = o.tag
       /\ <<o.do, p.do>> \in
            {<<"copy", "submit">>, <<"submit", "sync">>, <<"sync", "add">>}

InOrder(q) ==
  /\ \A i \in 1 .. Len(q) : OpShape(q[i])
  /\ \A i \in 1 .. Len(q) - 1 : Follows(q[i], q[i + 1])
  /\ q # <<>> => EndsTask(q[Len(q)])
StreamShape == InOrder(stream)

(* What the host writes at once is still that of every layer whose tasks   *)
(* are in the stream: there is only one, or all have the same size.        *)
Sized(o) ==
  /\ pinned.size = o.tag.size
  /\ IF conf.router = "host" THEN pinned.ids = o.tag ELSE o.tag.size = TopK
AtOnce == \A i \in 1 .. Len(stream) : stream[i].task.kind = "decode" => Sized(stream[i])

Full(t) == [input |-> t, weights |-> t, ids |-> t, size |-> t.size, layer |-> t.layer]

(* The task whose result the stream waits for. *)
Waiting(o) ==
  \/ running = <<>> /\ tasks = <<o.task>>
  \/ running # <<>> /\ tasks = <<>> /\ Run.task = o.task /\ Run.size = o.tag.size
  \/ QueueIdle /\ pinned.output = Full(o.tag)

HeadInv ==
  stream # <<>> /\ Head(stream).task.kind = "decode" =>
    LET o == Head(stream)
    IN /\ o.do \in {"submit", "sync"} =>
            pinned.input = o.tag /\ pinned.weights = o.tag /\ pinned.ids = o.tag
       /\ o.do = "sync" => Waiting(o)
       /\ o.do = "add" => pinned.output = Full(o.tag)

HandInv ==
  /\ Shapes /\ Control /\ Waits /\ StreamShape /\ AtOnce /\ HeadInv
  /\ HandOff
-----------------------------------------------------------------------------
(* Sequences.                                                              *)
LEMMA AppendSeq ==
  ASSUME NEW S, NEW q \in Seq(S), NEW e
  PROVE  /\ Append(q, e) \in Seq(Range(Append(q, e)))
         /\ Append(q, e) # <<>> /\ Len(Append(q, e)) = Len(q) + 1
         /\ \A i \in 1 .. Len(q) : Append(q, e)[i] = q[i]
         /\ Append(q, e)[Len(q) + 1] = e
         /\ q = <<>> => Append(q, e) = <<e>>
<1>1. q \in Seq(S \cup {e}) /\ e \in S \cup {e}
  OBVIOUS
<1>2. Append(q, e) \in Seq(S \cup {e})
  BY <1>1
<1>3. Append(q, e) \in Seq(Range(Append(q, e)))
  BY <1>2, SeqOfRange
<1>8. Len(Append(q, e)) = Len(q) + 1 /\ Len(q) \in Nat
  OBVIOUS
<1>4. Append(q, e) # <<>>
  BY <1>8, EmptySeq
<1>5. \A i \in 1 .. Len(q) : Append(q, e)[i] = q[i]
  OBVIOUS
<1>6. Append(q, e)[Len(q) + 1] = e
  OBVIOUS
<1>7. q = <<>> => Append(q, e) = <<e>>
  OBVIOUS
<1> QED BY <1>3, <1>8, <1>4, <1>5, <1>6, <1>7

LEMMA TailSeq ==
  ASSUME NEW S, NEW q \in Seq(S), q # <<>>
  PROVE  /\ Tail(q) \in Seq(Range(Tail(q))) /\ Tail(q) \in Seq(S)
         /\ Len(Tail(q)) = Len(q) - 1 /\ Len(q) \in Nat \ {0}
         /\ \A i \in 1 .. Len(q) - 1 : Tail(q)[i] = q[i + 1]
         /\ Head(q) = q[1] /\ Head(q) \in S
         /\ Tail(q) = <<>> <=> Len(q) = 1
<1>1. Tail(q) \in Seq(S)
  OBVIOUS
<1>2. Tail(q) \in Seq(Range(Tail(q)))
  BY <1>1, SeqOfRange
<1>3. Len(Tail(q)) = Len(q) - 1 /\ Len(q) \in Nat \ {0}
  OBVIOUS
<1>4. \A i \in 1 .. Len(q) - 1 : Tail(q)[i] = q[i + 1]
  OBVIOUS
<1>5. Head(q) = q[1] /\ Head(q) \in S
  OBVIOUS
<1>6. Tail(q) = <<>> <=> Len(q) = 1
  <2>1. ASSUME Len(q) # 1 PROVE Tail(q) # <<>>
    <3>1. PICK n : n = Len(Tail(q)) /\ n = Len(q) - 1 /\ n # 0
      BY <1>3, <2>1
    <3>2. Len(<<>>) = 0
      BY EmptySeq
    <3> QED BY <3>1, <3>2, Zenon
  <2>2. ASSUME Len(q) = 1 PROVE Tail(q) = <<>>
    <3>1. Len(Tail(q)) = 0
      BY <1>3, <2>2
    <3>2. \A t \in Seq(S) : t # <<>> => Len(t) # 0
      BY EmptySeq
    <3> QED BY <1>1, <3>1, <3>2
  <2> QED BY <2>1, <2>2
<1> QED BY <1>1, <1>2, <1>3, <1>4, <1>5, <1>6

LEMMA ConcatSeq ==
  ASSUME NEW S, NEW T, NEW q \in Seq(S), NEW r \in Seq(T)
  PROVE  /\ q \o r \in Seq(Range(q \o r)) /\ Len(q \o r) = Len(q) + Len(r)
         /\ Len(q) \in Nat /\ Len(r) \in Nat
         /\ \A i \in 1 .. Len(q) : (q \o r)[i] = q[i]
         /\ \A i \in 1 .. Len(r) : (q \o r)[Len(q) + i] = r[i]
         /\ (q \o r = <<>>) <=> (q = <<>> /\ r = <<>>)
<1>1. q \in Seq(S \cup T) /\ r \in Seq(S \cup T)
  OBVIOUS
<1>2. q \o r \in Seq(S \cup T) /\ Len(q \o r) = Len(q) + Len(r)
  BY <1>1
<1>3. q \o r \in Seq(Range(q \o r))
  BY <1>2, SeqOfRange
<1>4. Len(q) \in Nat /\ Len(r) \in Nat
  OBVIOUS
<1>5. \A i \in 1 .. Len(q) : (q \o r)[i] = q[i]
  BY <1>1
<1>6. \A i \in 1 .. Len(r) : (q \o r)[Len(q) + i] = r[i]
  BY <1>1, <1>4
<1>7. (q \o r = <<>>) <=> (q = <<>> /\ r = <<>>)
  BY <1>2, <1>4, EmptySeq
<1> QED BY <1>2, <1>3, <1>4, <1>5, <1>6, <1>7

-----------------------------------------------------------------------------
(* HandInv is inductive.                                                   *)
LEMMA ConstantsType ==
  /\ NLayers \in Nat \ {0} /\ NumExperts \in Nat \ {0} /\ TopK \in Nat \ {0}
  /\ GroupMin \in Nat \ {0} /\ GroupMax \in Nat \ {0, 1} /\ MaxPrompt \in Nat \ {0, 1}
  /\ LinearWidth \in Nat \ {0} /\ MaxPasses \in Nat \ {0}
BY CPUExpertsAssumption

LEMMA HandInit == Init => HandInv
<1> SUFFICES ASSUME Init PROVE HandInv
  OBVIOUS
<1>1. Shapes
  <2>1. <<>> \in Seq(Range(<<>>))
    OBVIOUS
  <2> QED BY <2>1 DEF Init, Shapes, PinnedShape
<1>2. Control
  <2>1. NLayers \in Nat
    BY ConstantsType
  <2>2. 0 \in 0 .. NLayers + 1 /\ layer = 0 /\ pc = "load" /\ sync = FALSE /\ stream = <<>> /\ pass = 0
    BY <2>1 DEF Init
  <2> QED BY <2>2 DEF Control
<1>5. Waits
  BY DEF Init, Waits, QueueIdle
<1>3. StreamShape /\ AtOnce /\ HeadInv
  BY DEF Init, StreamShape, InOrder, AtOnce, HeadInv
<1>4. HandOff
  BY DEF Init, HandOff, None
<1> QED BY <1>1, <1>2, <1>3, <1>4, <1>5 DEF HandInv

(* Where the stream is empty nothing is left to say of it. *)
LEMMA NoStream == ASSUME stream = <<>> PROVE StreamShape /\ AtOnce /\ HeadInv
BY DEF StreamShape, InOrder, AtOnce, HeadInv

(* So it is while Python has the queue to itself, or the CPU is not used.  *)
LEMMA HandWaited ==
  ASSUME HandInv, stream = <<>>, UNCHANGED <<conf, pinned, stream, running>>,
         Control', Waits', tasks' \in Seq(Range(tasks')),
         added' = added \/ added' = [l \in Layers |-> None]
  PROVE  HandInv'
<1>1. Shapes'
  BY DEF HandInv, Shapes, PinnedShape, Run
<1>2. HandOff'
  BY DEF HandInv, HandOff, None
<1>3. StreamShape' /\ AtOnce' /\ HeadInv'
  BY DEF StreamShape, InOrder, AtOnce, HeadInv
<1> QED BY <1>1, <1>2, <1>3 DEF HandInv

LEMMA LoadHands == ASSUME HandInv, Load PROVE HandInv'
<1>1. pc = "load" /\ layer \in Ops /\ ~sync /\ stream = <<>> /\ QueueIdle
  BY DEF HandInv, Control, Waits, Awaited, Load
<1>2. UNCHANGED <<conf, pinned, stream, running, pc, pass, added>>
  BY DEF Load, hostOnly
<1>3. CASE WarmsUp(layer)
  <2>1. sync' = TRUE /\ layer' = layer
    BY <1>3 DEF Load
  <2>2. tasks' \in Seq(Range(tasks'))
    <3>1. PICK t : tasks' = Append(tasks, t)
      BY <1>3 DEF Load
    <3> QED BY <3>1, AppendSeq DEF HandInv, Shapes
  <2>3. Control'
    BY <1>1, <1>2, <2>1, ConstantsType DEF HandInv, Control, Ops
  <2>4. Waits'
    BY <2>1 DEF Waits, Awaited
  <2> QED BY <1>1, <1>2, <2>2, <2>3, <2>4, HandWaited
<1>4. CASE ~WarmsUp(layer)
  <2>1. layer' = layer + 1 /\ UNCHANGED <<tasks, sync>>
    BY <1>4 DEF Load
  <2>2. Control'
    BY <1>1, <1>2, <2>1, ConstantsType DEF HandInv, Control, Ops
  <2>3. Waits' /\ tasks' \in Seq(Range(tasks'))
    BY <1>1, <1>2, <2>1 DEF HandInv, Shapes, Waits, QueueIdle
  <2> QED BY <1>1, <1>2, <2>1, <2>2, <2>3, HandWaited
<1> QED BY <1>3, <1>4

(* The actions of Python that give the CPU nothing. *)
LEMMA IdleHands ==
  ASSUME HandInv, Reload \/ Synced \/ End \/ PrefillOnGpu \/ (\E k \in {"decode", "prefill", "reload"} : Begin(k))
  PROVE  HandInv'
<1>1. stream = <<>>
  BY DEF HandInv, Control, Reload, Synced, End, PrefillOnGpu, Begin
<1>2. UNCHANGED <<conf, pinned, stream, running, tasks>>
  BY DEF Reload, Synced, End, PrefillOnGpu, Begin, hostOnly
<1>3. QueueIdle
  <2>1. ~sync \/ QueueIdle
    <3>1. CASE Reload \/ End \/ (\E k \in {"decode", "prefill", "reload"} : Begin(k))
      BY <3>1, ConstantsType DEF HandInv, Control, Reload, End, Begin, LmHead
    <3>2. CASE Synced \/ PrefillOnGpu
      BY <3>2 DEF Synced, PrefillOnGpu
    <3> QED BY <3>1, <3>2
  <2> QED BY <1>1, <2>1 DEF HandInv, Waits, Awaited
<1>4. Waits' /\ tasks' \in Seq(Range(tasks'))
  BY <1>2, <1>3 DEF HandInv, Shapes, Waits, QueueIdle
<1>5. Control'
  <2>1. CASE Reload
    BY <1>1, <1>2, <2>1, ConstantsType DEF HandInv, Control, Reload, Layers
  <2>2. CASE Synced
    <3>1. sync' = FALSE /\ layer' = layer + 1 /\ pc' = pc /\ pass' = pass /\ stream' = <<>>
      BY <1>1, <2>2 DEF Synced
    <3>2. layer \in 0 .. NLayers /\ pc \in {"load", "decode", "prefill"} /\ pass \in Nat
      BY <2>2, ConstantsType DEF HandInv, Control, Synced
    <3>3. layer + 1 \in 0 .. NLayers + 1
      BY <3>2, ConstantsType
    <3> QED BY <3>1, <3>2, <3>3 DEF Control
  <2>3. CASE End
    BY <1>1, <1>2, <2>3, ConstantsType DEF HandInv, Control, End, LmHead
  <2>4. CASE PrefillOnGpu
    BY <1>1, <1>2, <2>4, ConstantsType DEF HandInv, Control, PrefillOnGpu, Layers
  <2>5. CASE \E k \in {"decode", "prefill", "reload"} : Begin(k)
    BY <1>1, <1>2, <2>5, ConstantsType DEF HandInv, Control, Begin
  <2> QED BY <2>1, <2>2, <2>3, <2>4, <2>5
<1>6. added' = added \/ added' = [l \in Layers |-> None]
  BY DEF Reload, Synced, End, PrefillOnGpu, Begin
<1> QED BY <1>1, <1>2, <1>4, <1>5, <1>6, HandWaited

LEMMA SubmitHands ==
  ASSUME HandInv, NEW t, Submit(t), ~sync, pc \in {"decode", "prefill"},
         layer \in Ops, pc = "decode" => layer = LmHead
  PROVE  HandInv'
<1>1. stream = <<>> /\ sync' = TRUE /\ UNCHANGED <<conf, pinned, stream, running, pc, layer, pass, added>>
  BY DEF Submit, hostOnly
<1>2. tasks' \in Seq(Range(tasks'))
  BY AppendSeq DEF Submit, HandInv, Shapes
<1>3. Control'
  BY <1>1, ConstantsType DEF HandInv, Control, Ops
<1>4. Waits'
  BY <1>1 DEF Waits, Awaited
<1> QED BY <1>1, <1>2, <1>3, <1>4, HandWaited

LEMMA PrefillHands == ASSUME HandInv, PrefillLayer PROVE HandInv'
<1>1. PICK t : Submit(t)
  BY DEF PrefillLayer
<1> QED BY <1>1, SubmitHands, ConstantsType DEF PrefillLayer, Layers, Ops

-----------------------------------------------------------------------------
(* The worker. *)
LEMMA StartHands == ASSUME HandInv, Start PROVE HandInv'
<1>1. /\ running = <<>> /\ tasks # <<>> /\ tasks' = Tail(tasks)
      /\ UNCHANGED <<conf, pinned, stream, pc, sync, layer, pass, added>>
  BY DEF Start
<1>2. /\ running' = <<Run'>> /\ Run'.task = Head(tasks) /\ Run'.size = pinned.size
      /\ Run' = [task |-> Run'.task, at |-> Run'.at, out |-> Run'.out,
                 size |-> Run'.size, allocation |-> Run'.allocation]
  BY DEF Start, Run
<1>3. running' # <<>>
  BY <1>2
<1>4. tasks' \in Seq(Range(tasks'))
  BY <1>1, TailSeq DEF HandInv, Shapes
<1>5. Shapes'
  BY <1>1, <1>2, <1>4 DEF HandInv, Shapes, PinnedShape
<1>6. Control' /\ StreamShape' /\ AtOnce' /\ HandOff'
  BY <1>1 DEF HandInv, Control, StreamShape, InOrder, AtOnce, HandOff, OpShape, Follows,
              EndsTask, StartsTask, Sized
<1>7. Awaited /\ Waits'
  BY <1>1 DEF HandInv, Waits, QueueIdle, Awaited
<1>8. HeadInv'
  <2> SUFFICES ASSUME stream # <<>>, Head(stream).task.kind = "decode" PROVE HeadInv'
    BY <1>1 DEF HeadInv
  <2> DEFINE o == Head(stream)
  <2>1. o.do = "sync"
    BY <1>7 DEF HandInv, Control, Awaited
  <2>2. tasks = <<o.task>> /\ pinned.size = o.tag.size
    <3>1. o = stream[1] /\ 1 \in 1 .. Len(stream)
      BY TailSeq DEF HandInv, Shapes
    <3>2. Waiting(o)
      BY <2>1 DEF HandInv, HeadInv
    <3> QED BY <1>1, <3>1, <3>2 DEF HandInv, AtOnce, Sized, Waiting, QueueIdle
  <2>3. tasks' = <<>> /\ Run'.task = o.task /\ Run'.size = o.tag.size
    BY <1>1, <1>2, <2>2
  <2>4. Waiting(o)'
    BY <1>1, <1>3, <2>3 DEF Waiting
  <2> QED BY <1>1, <2>1, <2>4 DEF HandInv, HeadInv
<1> QED BY <1>5, <1>6, <1>7, <1>8 DEF HandInv

LEMMA RunRecord ==
  ASSUME NEW t, NEW x, NEW y, NEW z, NEW w, NEW a, NEW b
  PROVE  [[task |-> t, at |-> x, out |-> y, size |-> z, allocation |-> w]
             EXCEPT !.at = a, !.out = b]
         = [task |-> t, at |-> a, out |-> b, size |-> z, allocation |-> w]
<1>1. PICK r : r = [task |-> t, at |-> x, out |-> y, size |-> z, allocation |-> w]
  OBVIOUS
<1>2. /\ r.task = t /\ r.size = z /\ r.allocation = w
      /\ r = [i \in {"task", "at", "out", "size", "allocation"} |-> r[i]]
  BY <1>1
<1>3. [r EXCEPT !.at = a, !.out = b] =
        [i \in {"task", "at", "out", "size", "allocation"} |->
           IF i = "at" THEN a ELSE IF i = "out" THEN b ELSE r[i]]
  BY <1>2
<1>4. [i \in {"task", "at", "out", "size", "allocation"} |->
           IF i = "at" THEN a ELSE IF i = "out" THEN b ELSE r[i]] =
       [task |-> t, at |-> a, out |-> b, size |-> z, allocation |-> w]
  BY <1>2
<1> QED BY <1>1, <1>3, <1>4

LEMMA RunKept ==
  ASSUME HandInv, RunGroup \/ RunToken
  PROVE  /\ running # <<>> /\ running' = <<Run'>> /\ Run'.task = Run.task /\ Run'.size = Run.size
         /\ Run'.allocation = Run.allocation
         /\ Run' = [task |-> Run'.task, at |-> Run'.at, out |-> Run'.out,
                    size |-> Run'.size, allocation |-> Run'.allocation]
<1>1. running # <<>>
  BY DEF RunGroup, RunToken
<1>2. running' = running \/ \E a, b : running' = <<[Run EXCEPT !.at = a, !.out = b]>>
  <2>1. CASE RunGroup
    BY <2>1 DEF RunGroup
  <2>2. CASE RunToken
    BY <2>2 DEF RunToken
  <2> QED BY <2>1, <2>2
<1>3. CASE running' = running
  BY <1>1, <1>3 DEF HandInv, Shapes, Run
<1>4. CASE \E a, b : running' = <<[Run EXCEPT !.at = a, !.out = b]>>
  <2>1. PICK a, b : running' = <<[Run EXCEPT !.at = a, !.out = b]>>
    BY <1>4
  <2>2. PICK r : r = [Run EXCEPT !.at = a, !.out = b]
    OBVIOUS
  <2>3. Run' = r /\ running' = <<r>>
    BY <2>1, <2>2 DEF Run
  <2>4. /\ r.task = Run.task /\ r.size = Run.size /\ r.allocation = Run.allocation
        /\ r = [task |-> r.task, at |-> r.at, out |-> r.out, size |-> r.size,
                allocation |-> r.allocation]
    <3>1. PICK t, x, y, z, w : Run = [task |-> t, at |-> x, out |-> y, size |-> z, allocation |-> w]
      BY <1>1 DEF HandInv, Shapes
    <3>2. r = [task |-> t, at |-> a, out |-> b, size |-> z, allocation |-> w]
      BY <2>2, <3>1, RunRecord, Zenon
    <3> QED BY <3>1, <3>2
  <2> QED BY <1>1, <2>3, <2>4
<1> QED BY <1>2, <1>3, <1>4

LEMMA GroupHands == ASSUME HandInv, RunGroup \/ RunToken PROVE HandInv'
<1>1. UNCHANGED <<conf, pinned, stream, pc, sync, layer, pass, added, tasks>> /\ running # <<>>
  BY DEF RunGroup, RunToken, workerOnly
<1>2. /\ running' = <<Run'>> /\ Run'.task = Run.task /\ Run'.size = Run.size
      /\ Run' = [task |-> Run'.task, at |-> Run'.at, out |-> Run'.out,
                 size |-> Run'.size, allocation |-> Run'.allocation]
  BY RunKept
<1>3. running' # <<>>
  BY <1>2
<1>5. Shapes'
  BY <1>1, <1>2 DEF HandInv, Shapes, PinnedShape
<1>6. Control' /\ StreamShape' /\ AtOnce' /\ HandOff'
  BY <1>1 DEF HandInv, Control, StreamShape, InOrder, AtOnce, HandOff, OpShape, Follows,
              EndsTask, StartsTask, Sized
<1>7. Waits'
  BY <1>1 DEF HandInv, Waits, QueueIdle, Awaited
<1>8. HeadInv'
  <2>1. \A o : Waiting(o) => Waiting(o)'
    BY <1>1, <1>2, <1>3 DEF Waiting, QueueIdle
  <2> QED BY <1>1, <2>1 DEF HandInv, HeadInv
<1> QED BY <1>5, <1>6, <1>7, <1>8 DEF HandInv

(* A task of decoding that ends leaves its result for the stream. *)
LEMMA FinishHands == ASSUME HandInv, Finish PROVE HandInv'
<1>1. /\ running # <<>> /\ running' = <<>>
      /\ UNCHANGED <<conf, stream, pc, sync, layer, pass, added, tasks>>
  BY DEF Finish
<1>2. /\ PinnedShape'
      /\ pinned'.input = pinned.input /\ pinned'.weights = pinned.weights
      /\ pinned'.ids = pinned.ids /\ pinned'.size = pinned.size
      /\ Run.task.kind = "decode" =>
           pinned'.output = [input |-> pinned.input, weights |-> pinned.weights, ids |-> pinned.ids,
                             size |-> Run.size, layer |-> Run.task.layer]
  BY DEF Finish, HandInv, Shapes, PinnedShape
<1>5. Shapes'
  BY <1>1, <1>2 DEF HandInv, Shapes
<1>6. Control' /\ StreamShape' /\ AtOnce' /\ HandOff'
  BY <1>1, <1>2 DEF HandInv, Control, StreamShape, InOrder, AtOnce, HandOff, OpShape, Follows,
              EndsTask, StartsTask, Sized
<1>7. Awaited /\ Waits'
  BY <1>1 DEF HandInv, Waits, QueueIdle, Awaited
<1>8. HeadInv'
  <2> SUFFICES ASSUME stream # <<>>, Head(stream).task.kind = "decode" PROVE HeadInv'
    BY <1>1 DEF HeadInv
  <2> DEFINE o == Head(stream)
  <2>1. o.do = "sync"
    BY <1>7 DEF HandInv, Control, Awaited
  <2>2. Run.task = o.task /\ Run.size = o.tag.size /\ tasks = <<>>
    BY <1>1, <2>1 DEF HandInv, HeadInv, Waiting, QueueIdle
  <2>3. o.task.layer = o.tag.layer
    BY TailSeq DEF HandInv, Shapes, StreamShape, InOrder, OpShape
  <2>4. pinned.input = o.tag /\ pinned.weights = o.tag /\ pinned.ids = o.tag
    BY <2>1 DEF HandInv, HeadInv
  <2>5. pinned'.output = [input |-> o.tag, weights |-> o.tag, ids |-> o.tag, size |-> o.tag.size,
                          layer |-> o.task.layer]
    BY <1>2, <2>2, <2>4
  <2>6. Waiting(o)'
    BY <1>1, <2>2, <2>3, <2>5 DEF Waiting, QueueIdle, Full
  <2> QED BY <1>1, <1>2, <2>1, <2>4, <2>6 DEF HeadInv
<1> QED BY <1>5, <1>6, <1>7, <1>8 DEF HandInv

-----------------------------------------------------------------------------
(* The stream. *)
LEMMA InOrderConcat ==
  ASSUME NEW S, NEW T, NEW q \in Seq(S), NEW r \in Seq(T), InOrder(q), InOrder(r),
         r # <<>> => StartsTask(r[1])
  PROVE  InOrder(q \o r)
<1> PICK u : u = q \o r
  OBVIOUS
<1> PICK m, n : m = Len(q) /\ n = Len(r)
  OBVIOUS
<1>1. /\ Len(u) = m + n /\ m \in Nat /\ n \in Nat
      /\ \A i \in 1 .. m : u[i] = q[i]
      /\ \A i \in 1 .. n : u[m + i] = r[i]
      /\ u = <<>> <=> (q = <<>> /\ r = <<>>)
  BY ConcatSeq
<1>2. ASSUME NEW i \in 1 .. m + n PROVE OpShape(u[i])
  <2>1. CASE i <= m
    BY <1>1, <2>1 DEF InOrder
  <2>2. CASE i > m
    <3>1. i - m \in 1 .. n /\ i = m + (i - m)
      BY <1>1, <2>2
    <3>2. u[i] = r[i - m]
      BY <1>1, <3>1
    <3> QED BY <3>1, <3>2 DEF InOrder
  <2> QED BY <1>1, <2>1, <2>2
<1>3. ASSUME NEW i \in 1 .. m + n - 1 PROVE Follows(u[i], u[i + 1])
  <2>1. CASE i + 1 <= m
    BY <1>1, <2>1 DEF InOrder
  <2>2. CASE i > m
    <3>1. i - m \in 1 .. n - 1 /\ i = m + (i - m) /\ i + 1 = m + ((i - m) + 1) /\ (i - m) + 1 \in 1 .. n
      BY <1>1, <2>2
    <3>2. u[i] = r[i - m] /\ u[i + 1] = r[(i - m) + 1]
      BY <1>1, <3>1
    <3> QED BY <3>1, <3>2 DEF InOrder
  <2>3. CASE i = m
    <3>1. m \in 1 .. m /\ 1 \in 1 .. n
      BY <1>1, <2>3
    <3>2. u[i] = q[m] /\ u[i + 1] = r[1]
      BY <1>1, <2>3, <3>1
    <3>3. q # <<>> /\ r # <<>>
      <4>1. Len(<<>>) = 0
        OBVIOUS
      <4> QED BY <3>1, <4>1
    <3>4. EndsTask(q[m]) /\ StartsTask(r[1])
      BY <3>3 DEF InOrder
    <3> QED BY <3>2, <3>4 DEF Follows
  <2> QED BY <1>1, <2>1, <2>2, <2>3
<1>4. ASSUME u # <<>> PROVE EndsTask(u[m + n])
  <2>1. CASE r = <<>>
    <3>1. n = 0 /\ q # <<>>
      BY <1>1, <1>4, <2>1
    <3>2. m \in 1 .. m
      BY <1>1, <3>1, EmptySeq
    <3> QED BY <1>1, <3>1, <3>2 DEF InOrder
  <2>2. CASE r # <<>>
    <3>1. n \in 1 .. n
      BY <1>1, <2>2, EmptySeq
    <3> QED BY <1>1, <2>2, <3>1 DEF InOrder
  <2> QED BY <2>1, <2>2
<1> QED BY <1>1, <1>2, <1>3, <1>4 DEF InOrder

LEMMA InOrderTail ==
  ASSUME NEW S, NEW q \in Seq(S), q # <<>>, InOrder(q) PROVE InOrder(Tail(q))
<1> PICK u : u = Tail(q)
  OBVIOUS
<1> PICK n : n = Len(q)
  OBVIOUS
<1>1. /\ Len(u) = n - 1 /\ n \in Nat \ {0}
      /\ \A i \in 1 .. n - 1 : u[i] = q[i + 1]
      /\ u = <<>> <=> n = 1
  BY TailSeq
<1>2. ASSUME NEW i \in 1 .. n - 1 PROVE OpShape(u[i])
  <2>1. i + 1 \in 1 .. n
    BY <1>1
  <2> QED BY <1>1, <2>1 DEF InOrder
<1>3. ASSUME NEW i \in 1 .. n - 1 - 1 PROVE Follows(u[i], u[i + 1])
  <2>1. i + 1 \in 1 .. n - 1
    BY <1>1
  <2> QED BY <1>1, <2>1 DEF InOrder
<1>4. ASSUME u # <<>> PROVE EndsTask(u[n - 1])
  <2>1. n - 1 \in 1 .. n - 1 /\ (n - 1) + 1 = n
    BY <1>1, <1>4
  <2> QED BY <1>1, <2>1 DEF InOrder
<1> QED BY <1>1, <1>2, <1>3, <1>4 DEF InOrder

LEMMA HandOverInOrder ==
  ASSUME NEW l \in Layers, NEW obj, NEW p, NEW n
  PROVE  LET tag == [pass |-> p, layer |-> l, size |-> n]
             r == HandOver(tag, Task("decode", l, obj))
         IN /\ r \in Seq(Range(r)) /\ Len(r) = 4 /\ InOrder(r) /\ StartsTask(r[1])
            /\ \A i \in 1 .. 4 : r[i].tag = tag /\ r[i].task.kind = "decode"
            /\ r[1].do = "copy"
<1> DEFINE tag == [pass |-> p, layer |-> l, size |-> n]
           t == Task("decode", l, obj)
<1> PICK r : r = HandOver(tag, t)
  OBVIOUS
<1>1. t.kind = "decode" /\ t.layer = l /\ tag.layer = l
  BY DEF Task
<1> HIDE DEF tag, t
<1>2. /\ r \in Seq(Range(r)) /\ Len(r) = 4
  <2>1. r \in Seq({r[1], r[2], r[3], r[4]}) /\ Len(r) = 4
    BY DEF HandOver
  <2> QED BY <2>1, SeqOfRange
<1>3. /\ r[1].do = "copy" /\ r[2].do = "submit" /\ r[3].do = "sync" /\ r[4].do = "add"
      /\ \A i \in {1, 2, 3, 4} : r[i].tag = tag /\ r[i].task = t
  BY DEF HandOver
<1>4. 1 .. 4 = {1, 2, 3, 4} /\ 1 .. 3 = {1, 2, 3} /\ 4 - 1 = 3
  OBVIOUS
<1>5. \A i \in 1 .. 4 : OpShape(r[i])
  BY <1>1, <1>3, <1>4 DEF OpShape
<1>6. \A i \in 1 .. 3 : Follows(r[i], r[i + 1])
  BY <1>1, <1>3, <1>4 DEF Follows, EndsTask
<1>7. EndsTask(r[4]) /\ StartsTask(r[1])
  BY <1>1, <1>3 DEF EndsTask, StartsTask
<1>8. InOrder(r)
  BY <1>2, <1>4, <1>5, <1>6, <1>7 DEF InOrder
<1>9. \A i \in 1 .. 4 : r[i].tag = tag /\ r[i].task.kind = "decode"
  BY <1>1, <1>3, <1>4
<1> QED BY <1>2, <1>3, <1>7, <1>8, <1>9 DEF tag, t

LEMMA PinnedRecord ==
  ASSUME NEW p, NEW a, NEW b,
         p = [input |-> p.input, weights |-> p.weights, ids |-> p.ids, size |-> p.size,
              output |-> p.output]
  PROVE  /\ [p EXCEPT !.size = a, !.ids = b] =
              [input |-> p.input, weights |-> p.weights, ids |-> b, size |-> a, output |-> p.output]
         /\ [p EXCEPT !.input = a, !.weights = a, !.ids = b] =
              [input |-> a, weights |-> a, ids |-> b, size |-> p.size, output |-> p.output]
<1> DEFINE F == {"input", "weights", "ids", "size", "output"}
<1>1. PICK i, w, d, s, o : p = [input |-> i, weights |-> w, ids |-> d, size |-> s, output |-> o]
  OBVIOUS
<1>2. /\ p.input = i /\ p.weights = w /\ p.ids = d /\ p.size = s /\ p.output = o
      /\ p = [f \in F |-> p[f]]
  BY <1>1
<1>3. [p EXCEPT !.size = a, !.ids = b] =
        [f \in F |-> IF f = "size" THEN a ELSE IF f = "ids" THEN b ELSE p[f]]
  BY <1>2
<1>4. [f \in F |-> IF f = "size" THEN a ELSE IF f = "ids" THEN b ELSE p[f]] =
        [input |-> i, weights |-> w, ids |-> b, size |-> a, output |-> o]
  BY <1>2
<1>5. [p EXCEPT !.input = a, !.weights = a, !.ids = b] =
        [f \in F |-> IF f \in {"input", "weights"} THEN a ELSE IF f = "ids" THEN b ELSE p[f]]
  BY <1>2
<1>6. [f \in F |-> IF f \in {"input", "weights"} THEN a ELSE IF f = "ids" THEN b ELSE p[f]] =
        [input |-> a, weights |-> a, ids |-> b, size |-> s, output |-> o]
  BY <1>2
<1> QED BY <1>2, <1>3, <1>4, <1>5, <1>6, Zenon

(* A layer of decoding is enqueued while earlier ones may be in the stream. *)
LEMMA DecodeHands == ASSUME HandInv, DecodeLayer PROVE HandInv'
<1>1. /\ pc = "decode" /\ layer \in Layers /\ RouterRead /\ ~sync
      /\ UNCHANGED <<conf, running, tasks, pc, sync, pass, added>> /\ layer' = layer + 1
  BY ConstantsType DEF HandInv, Control, DecodeLayer, hostOnly, Layers, LmHead
<1>2. Control'
  BY <1>1, ConstantsType DEF HandInv, Control, Layers
<1>3. HandOff'
  BY <1>1 DEF HandInv, HandOff
<1>4. PICK n \in CpuCounts :
        IF n = 0 THEN UNCHANGED <<pinned, stream>>
        ELSE LET tag == [pass |-> pass, layer |-> layer, size |-> n]
             IN /\ pinned' = [pinned EXCEPT !.size = n,
                     !.ids = IF conf.router = "host" THEN tag ELSE @]
                /\ stream' = stream \o HandOver(tag, Task("decode", layer, Target(layer)))
  BY DEF DecodeLayer
<1>5. CASE n = 0
  <2>1. UNCHANGED <<pinned, stream>>
    BY <1>4, <1>5
  <2>2. Shapes' /\ Waits' /\ StreamShape' /\ AtOnce' /\ HeadInv'
    BY <1>1, <2>1 DEF HandInv, Shapes, PinnedShape, Run, Waits, QueueIdle, Awaited, StreamShape,
       InOrder, OpShape, Follows, EndsTask, StartsTask, AtOnce, Sized, HeadInv, Waiting
  <2> QED BY <1>2, <1>3, <2>2 DEF HandInv
<1>6. CASE n # 0
  <2> DEFINE tag == [pass |-> pass, layer |-> layer, size |-> n]
  <2>1. PICK r : r = HandOver(tag, Task("decode", layer, Target(layer)))
    OBVIOUS
  <2>2. /\ stream' = stream \o r
        /\ pinned' = [pinned EXCEPT !.size = n, !.ids = IF conf.router = "host" THEN tag ELSE @]
    BY <1>4, <1>6, <2>1
  <2>3. /\ r \in Seq(Range(r)) /\ Len(r) = 4 /\ InOrder(r) /\ StartsTask(r[1])
        /\ \A i \in 1 .. 4 : r[i].tag = tag /\ r[i].task.kind = "decode"
        /\ r[1].do = "copy"
    BY <1>1, <2>1, HandOverInOrder
  <2>4. tag.size = n
    OBVIOUS
  <2> HIDE DEF tag
  <2>5. /\ PinnedShape' /\ pinned'.size = n
        /\ pinned'.ids = IF conf.router = "host" THEN tag ELSE pinned.ids
        /\ pinned'.input = pinned.input /\ pinned'.weights = pinned.weights
        /\ pinned'.output = pinned.output
    <3>1. PICK b : b = IF conf.router = "host" THEN tag ELSE pinned.ids
      OBVIOUS
    <3>2. pinned' = [pinned EXCEPT !.size = n, !.ids = b]
      BY <2>2, <3>1 DEF HandInv, Shapes, PinnedShape
    <3>3. pinned' = [input |-> pinned.input, weights |-> pinned.weights, ids |-> b, size |-> n,
                     output |-> pinned.output]
      BY <3>2, PinnedRecord DEF HandInv, Shapes, PinnedShape
    <3> QED BY <3>1, <3>3 DEF PinnedShape
  <2>6. stream \in Seq(Range(stream))
    BY DEF HandInv, Shapes
  <2>7. PICK m : m = Len(stream)
    OBVIOUS
  <2>8. /\ stream' \in Seq(Range(stream')) /\ Len(stream') = m + 4 /\ m \in Nat
        /\ \A i \in 1 .. m : stream'[i] = stream[i]
        /\ \A i \in 1 .. 4 : stream'[m + i] = r[i]
        /\ stream' # <<>>
    <3>1. PICK q, u : q = stream /\ u = stream'
      OBVIOUS
    <3>2. q \in Seq(Range(q)) /\ r \in Seq(Range(r)) /\ u = q \o r /\ m = Len(q)
      BY <2>2, <2>3, <2>6, <2>7, <3>1
    <3>3. /\ u \in Seq(Range(u)) /\ Len(u) = Len(q) + Len(r) /\ Len(q) \in Nat
          /\ \A i \in 1 .. Len(q) : u[i] = q[i]
          /\ \A i \in 1 .. Len(r) : u[Len(q) + i] = r[i]
      <4>1. PICK S, T : q \in Seq(S) /\ r \in Seq(T)
        BY <3>2
      <4>2. /\ q \o r \in Seq(Range(q \o r)) /\ Len(q \o r) = Len(q) + Len(r) /\ Len(q) \in Nat
            /\ \A i \in 1 .. Len(q) : (q \o r)[i] = q[i]
            /\ \A i \in 1 .. Len(r) : (q \o r)[Len(q) + i] = r[i]
        BY <4>1, ConcatSeq
      <4> QED BY <3>2, <4>2, Zenon
    <3>4. u # <<>>
      <4>1. Len(u) # 0 /\ Len(<<>>) = 0
        BY <2>3, <3>3
      <4> QED BY <4>1, Zenon
    <3> QED BY <2>3, <3>1, <3>2, <3>3, <3>4
  <2>9. Shapes'
    BY <1>1, <2>5, <2>8 DEF HandInv, Shapes, Run
  <2>10. StreamShape'
    BY <2>2, <2>3, <2>6, InOrderConcat DEF HandInv, StreamShape
  <2>11. conf.router = "host" => m = 0 /\ stream = <<>>
    BY <1>1, <2>7 DEF RouterRead
  <2>12. conf.router # "host" => n = TopK
    BY <1>4 DEF CpuCounts
  <2>13. AtOnce'
    <3> SUFFICES ASSUME NEW i \in 1 .. m + 4, stream'[i].task.kind = "decode" PROVE Sized(stream[i])'
      BY <2>8 DEF AtOnce
    <3>1. CASE i <= m
      <4>1. stream'[i] = stream[i] /\ i \in 1 .. m
        BY <2>8, <3>1
      <4>2. Sized(stream[i]) /\ conf.router # "host"
        BY <2>7, <2>11, <4>1 DEF HandInv, AtOnce
      <4> QED BY <1>1, <2>5, <2>12, <4>1, <4>2 DEF Sized
    <3>2. CASE i > m
      <4>1. i - m \in 1 .. 4 /\ i = m + (i - m)
        BY <2>8, <3>2
      <4>2. stream'[i].tag = tag
        BY <2>3, <2>8, <4>1
      <4> QED BY <1>1, <2>4, <2>5, <2>12, <4>2 DEF Sized
    <3> QED BY <2>8, <3>1, <3>2
  <2>14. CASE stream = <<>>
    <3>1. m = 0 /\ Head(stream') = stream'[1] /\ stream'[0 + 1] = r[1]
      <4>1. m = 0
        BY <2>7, <2>14
      <4> QED BY <2>8, <4>1, TailSeq
    <3>2. Head(stream').do = "copy"
      BY <2>3, <3>1
    <3>3. HeadInv'
      BY <3>2 DEF HeadInv
    <3>4. Waits'
      BY <1>1, <2>14 DEF HandInv, Waits, Awaited, QueueIdle
    <3> QED BY <1>2, <1>3, <2>9, <2>10, <2>13, <3>3, <3>4 DEF HandInv
  <2>15. CASE stream # <<>>
    <3>1. Head(stream') = Head(stream)
      <4>1. 1 \in 1 .. m
        BY <2>6, <2>7, <2>15, TailSeq
      <4> QED BY <2>6, <2>8, <2>15, <4>1, TailSeq
    <3>2. pinned'.ids = pinned.ids
      BY <2>5, <2>11, <2>15
    <3>3. \A o : Waiting(o) => Waiting(o)'
      BY <1>1, <2>5 DEF Waiting, QueueIdle, Run
    <3>4. HeadInv'
      BY <2>5, <2>15, <3>1, <3>2, <3>3 DEF HandInv, HeadInv
    <3>5. Waits'
      BY <1>1, <2>8, <3>1 DEF HandInv, Waits, Awaited, QueueIdle
    <3> QED BY <1>2, <1>3, <2>9, <2>10, <2>13, <3>4, <3>5 DEF HandInv
  <2> QED BY <2>14, <2>15
<1> QED BY <1>5, <1>6

(* lm_head on the stream. *)
LEMMA HeadOpsInOrder ==
  ASSUME NEW tag, NEW obj
  PROVE  LET r == SubSeq(HandOver(tag, Task("linear", LmHead, obj)), 2, 3)
         IN /\ r \in Seq(Range(r)) /\ Len(r) = 2 /\ InOrder(r) /\ StartsTask(r[1])
            /\ \A i \in 1 .. 2 : r[i].task.kind = "linear"
<1> DEFINE t == Task("linear", LmHead, obj)
<1> PICK r : r = SubSeq(HandOver(tag, t), 2, 3)
  OBVIOUS
<1>1. t.kind = "linear"
  BY DEF Task
<1> HIDE DEF t
<1>2. /\ r \in Seq(Range(r)) /\ Len(r) = 2
      /\ r[1] = [do |-> "submit", tag |-> tag, task |-> t]
      /\ r[2] = [do |-> "sync", tag |-> tag, task |-> t]
  <2>1. PICK h : h = HandOver(tag, t)
    OBVIOUS
  <2>2. /\ h \in Seq({h[1], h[2], h[3], h[4]}) /\ Len(h) = 4
        /\ h[2] = [do |-> "submit", tag |-> tag, task |-> t]
        /\ h[3] = [do |-> "sync", tag |-> tag, task |-> t]
    BY <2>1 DEF HandOver
  <2>3. PICK S : h \in Seq(S)
    BY <2>2
  <2>4. r = SubSeq(h, 2, 3) /\ 2 \in 1 .. Len(h) + 1 /\ 3 \in 1 .. Len(h)
    BY <2>1, <2>2
  <2>5. r \in Seq(S) /\ Len(r) = 2 /\ r[1] = h[2] /\ r[2] = h[3]
    BY <2>2, <2>3, <2>4
  <2>6. r \in Seq(Range(r))
    BY <2>5, SeqOfRange
  <2> QED BY <2>2, <2>5, <2>6
<1>3. /\ r[1].do = "submit" /\ r[2].do = "sync"
      /\ \A i \in {1, 2} : r[i].tag = tag /\ r[i].task = t
  BY <1>2
<1>4. 1 .. 2 = {1, 2} /\ 1 .. 1 = {1} /\ 2 - 1 = 1 /\ 1 + 1 = 2
  OBVIOUS
<1>5. InOrder(r) /\ StartsTask(r[1])
  BY <1>1, <1>2, <1>3, <1>4 DEF InOrder, OpShape, Follows, EndsTask, StartsTask
<1> QED BY <1>1, <1>2, <1>3, <1>4, <1>5 DEF t

LEMMA HeadHands == ASSUME HandInv, HeadLayer PROVE HandInv'
<1>1. pc \in {"decode", "prefill"} /\ layer = LmHead /\ ~sync /\ layer \in Ops
  BY ConstantsType DEF HeadLayer, LmHead, Ops
<1>2. CASE ~(pc = "decode" /\ conf.graph)
  <2>1. PICK t : Submit(t)
    BY <1>2 DEF HeadLayer
  <2> QED BY <1>1, <2>1, SubmitHands
<1>3. CASE pc = "decode" /\ conf.graph
  <2>1. /\ UNCHANGED <<conf, running, pinned, tasks, pc, sync, pass, added>>
        /\ layer' = layer + 1
    BY <1>3 DEF HeadLayer, hostOnly
  <2>2. PICK tag, r : /\ r = SubSeq(HandOver(tag, Task("linear", LmHead, Target(LmHead))), 2, 3)
                      /\ stream' = stream \o r
    BY <1>3 DEF HeadLayer
  <2>3. /\ r \in Seq(Range(r)) /\ Len(r) = 2 /\ InOrder(r) /\ StartsTask(r[1])
        /\ \A i \in 1 .. 2 : r[i].task.kind = "linear"
    BY <2>2, HeadOpsInOrder
  <2>4. stream \in Seq(Range(stream))
    BY DEF HandInv, Shapes
  <2>5. PICK m : m = Len(stream)
    OBVIOUS
  <2>6. /\ stream' \in Seq(Range(stream')) /\ Len(stream') = m + 2 /\ m \in Nat
        /\ \A i \in 1 .. m : stream'[i] = stream[i]
        /\ \A i \in 1 .. 2 : stream'[m + i] = r[i]
        /\ stream' # <<>>
    <3>1. PICK q, u : q = stream /\ u = stream'
      OBVIOUS
    <3>2. q \in Seq(Range(q)) /\ r \in Seq(Range(r)) /\ u = q \o r /\ m = Len(q)
      BY <2>2, <2>3, <2>4, <2>5, <3>1
    <3>3. PICK S, T : q \in Seq(S) /\ r \in Seq(T)
      BY <3>2
    <3>4. /\ q \o r \in Seq(Range(q \o r)) /\ Len(q \o r) = Len(q) + Len(r) /\ Len(q) \in Nat
          /\ \A i \in 1 .. Len(q) : (q \o r)[i] = q[i]
          /\ \A i \in 1 .. Len(r) : (q \o r)[Len(q) + i] = r[i]
      BY <3>3, ConcatSeq
    <3>5. u # <<>>
      <4>1. Len(u) # 0 /\ Len(<<>>) = 0
        BY <2>3, <3>2, <3>4
      <4> QED BY <4>1, Zenon
    <3> QED BY <2>3, <3>1, <3>2, <3>4, <3>5
  <2>7. Shapes'
    BY <2>1, <2>6 DEF HandInv, Shapes, PinnedShape, Run
  <2>8. StreamShape'
    BY <2>2, <2>3, <2>4, InOrderConcat DEF HandInv, StreamShape
  <2>9. AtOnce'
    <3> SUFFICES ASSUME NEW i \in 1 .. m + 2, stream'[i].task.kind = "decode" PROVE Sized(stream[i])'
      BY <2>6 DEF AtOnce
    <3>1. i <= m
      <4>1. SUFFICES ASSUME i > m PROVE FALSE
        BY <2>6
      <4>2. i - m \in 1 .. 2 /\ i = m + (i - m)
        BY <2>6, <4>1
      <4> QED BY <2>3, <2>6, <4>2
    <3>2. stream'[i] = stream[i] /\ i \in 1 .. m
      BY <2>6, <3>1
    <3> QED BY <2>1, <2>5, <3>2 DEF HandInv, AtOnce, Sized
  <2>10. Control' /\ HandOff'
    BY <1>1, <1>3, <2>1, ConstantsType DEF HandInv, Control, HandOff, LmHead
  <2>11. CASE stream = <<>>
    <3>1. m = 0 /\ Head(stream') = stream'[1] /\ stream'[0 + 1] = r[1]
      <4>1. m = 0
        BY <2>5, <2>11
      <4> QED BY <2>6, <4>1, TailSeq
    <3>2. HeadInv'
      BY <2>3, <3>1 DEF HeadInv
    <3>3. Waits'
      BY <1>1, <2>1, <2>11 DEF HandInv, Waits, Awaited, QueueIdle
    <3> QED BY <2>7, <2>8, <2>9, <2>10, <3>2, <3>3 DEF HandInv
  <2>12. CASE stream # <<>>
    <3>1. Head(stream') = Head(stream)
      <4>1. 1 \in 1 .. m
        BY <2>4, <2>5, <2>12, TailSeq
      <4> QED BY <2>4, <2>6, <2>12, <4>1, TailSeq
    <3>2. \A o : Waiting(o) => Waiting(o)'
      BY <2>1 DEF Waiting, QueueIdle, Run
    <3>3. HeadInv' /\ Waits'
      BY <2>1, <2>6, <2>12, <3>1, <3>2 DEF HandInv, HeadInv, Waits, Awaited, QueueIdle
    <3> QED BY <2>7, <2>8, <2>9, <2>10, <3>3 DEF HandInv
  <2> QED BY <2>11, <2>12
<1> QED BY <1>2, <1>3

LEMMA StreamHands == ASSUME HandInv, StreamStep PROVE HandInv'
<1> PICK o : o = Head(stream)
  OBVIOUS
<1> PICK n : n = Len(stream)
  OBVIOUS
<1>1. /\ stream # <<>> /\ stream' = Tail(stream) /\ (o.do = "sync" => QueueIdle)
      /\ pinned' = IF o.do # "copy" THEN pinned
                   ELSE [pinned EXCEPT !.input = o.tag, !.weights = o.tag,
                           !.ids = IF conf.router = "stream" THEN o.tag ELSE @]
      /\ tasks' = IF o.do = "submit" THEN Append(tasks, o.task) ELSE tasks
      /\ added' = IF o.do = "add"
                  THEN [added EXCEPT ![o.tag.layer] = [tag |-> o.tag, got |-> pinned.output]]
                  ELSE added
      /\ UNCHANGED <<conf, running, pc, sync, layer, pass>>
  BY DEF StreamStep
<1>2. /\ stream' \in Seq(Range(stream')) /\ Len(stream') = n - 1 /\ n \in Nat \ {0}
      /\ \A i \in 1 .. n - 1 : stream'[i] = stream[i + 1]
      /\ o = stream[1]
      /\ stream' = <<>> <=> n = 1
  <2>1. stream \in Seq(Range(stream))
    BY DEF HandInv, Shapes
  <2>2. PICK q, u : q = stream /\ u = Tail(q) /\ u = stream'
    BY <1>1
  <2>3. PICK S : q \in Seq(S) /\ q # <<>>
    BY <1>1, <2>1, <2>2
  <2>4. /\ Tail(q) \in Seq(Range(Tail(q))) /\ Len(Tail(q)) = Len(q) - 1 /\ Len(q) \in Nat \ {0}
        /\ \A i \in 1 .. Len(q) - 1 : Tail(q)[i] = q[i + 1]
        /\ Head(q) = q[1] /\ (Tail(q) = <<>> <=> Len(q) = 1)
    BY <2>3, TailSeq
  <2> QED BY <2>2, <2>4
<1>3. /\ OpShape(o) /\ (n = 1 => EndsTask(o))
      /\ n > 1 => Head(stream') = stream[2] /\ Follows(o, stream[2]) /\ OpShape(stream[2])
      /\ o.task.kind = "decode" => Sized(o)
  <2>1. 1 \in 1 .. n
    BY <1>2
  <2>2. OpShape(o) /\ (n = 1 => EndsTask(o)) /\ (o.task.kind = "decode" => Sized(o))
    BY <1>1, <1>2, <2>1 DEF HandInv, StreamShape, InOrder, AtOnce
  <2>3. ASSUME n > 1 PROVE Head(stream') = stream[2] /\ Follows(o, stream[2]) /\ OpShape(stream[2])
    <3>1. 1 \in 1 .. n - 1 /\ 1 + 1 = 2 /\ 2 \in 1 .. n
      BY <1>2, <2>3
    <3>2. stream' # <<>> /\ Head(stream') = stream'[1]
      BY <1>2, <2>3, TailSeq
    <3> QED BY <1>2, <3>1, <3>2 DEF HandInv, StreamShape, InOrder
  <2> QED BY <2>2, <2>3
<1>4. ~sync /\ (o.do # "sync" => QueueIdle)
  BY <1>1 DEF HandInv, Control, Waits, Awaited
<1>5. /\ PinnedShape' /\ pinned'.size = pinned.size /\ pinned'.output = pinned.output
      /\ o.do # "copy" => pinned' = pinned
      /\ o.do = "copy" =>
           /\ pinned'.input = o.tag /\ pinned'.weights = o.tag
           /\ pinned'.ids = IF conf.router = "stream" THEN o.tag ELSE pinned.ids
  <2>1. CASE o.do # "copy"
    BY <1>1, <2>1 DEF HandInv, Shapes, PinnedShape
  <2>2. CASE o.do = "copy"
    <3>1. PICK b : b = IF conf.router = "stream" THEN o.tag ELSE pinned.ids
      OBVIOUS
    <3>2. pinned' = [pinned EXCEPT !.input = o.tag, !.weights = o.tag, !.ids = b]
      BY <1>1, <2>2, <3>1 DEF HandInv, Shapes, PinnedShape
    <3>3. pinned' = [input |-> o.tag, weights |-> o.tag, ids |-> b, size |-> pinned.size,
                     output |-> pinned.output]
      BY <3>2, PinnedRecord DEF HandInv, Shapes, PinnedShape
    <3> QED BY <2>2, <3>1, <3>3 DEF PinnedShape
  <2> QED BY <2>1, <2>2
<1>6. added' = [l \in Layers |-> added'[l]]
  BY <1>1 DEF HandInv, Shapes
<1>7. tasks' \in Seq(Range(tasks'))
  BY <1>1, AppendSeq DEF HandInv, Shapes
<1>8. Shapes'
  BY <1>1, <1>2, <1>5, <1>6, <1>7 DEF HandInv, Shapes, Run
<1>9. Control'
  BY <1>1, <1>4 DEF HandInv, Control
<1>10. StreamShape'
  BY <1>1, InOrderTail DEF HandInv, Shapes, StreamShape
<1>11. AtOnce'
  <2> SUFFICES ASSUME NEW i \in 1 .. n - 1, stream'[i].task.kind = "decode" PROVE Sized(stream[i])'
    BY <1>2 DEF AtOnce
  <2>1. i + 1 \in 1 .. n /\ stream'[i] = stream[i + 1]
    BY <1>2
  <2>2. Sized(stream[i + 1])
    BY <2>1 DEF HandInv, AtOnce
  <2>3. conf.router = "host" => pinned'.ids = pinned.ids
    BY <1>5
  <2> QED BY <1>1, <1>5, <2>1, <2>2, <2>3 DEF Sized
<1>12. HandOff'
  <2>1. CASE o.do # "add"
    BY <1>1, <2>1 DEF HandInv, HandOff
  <2>2. CASE o.do = "add"
    <3>1. o.task.kind = "decode"
      BY <1>3, <2>2 DEF OpShape
    <3>2. pinned.output = Full(o.tag) /\ o.tag.layer \in Layers
      BY <1>1, <1>3, <2>2, <3>1 DEF HandInv, HeadInv, OpShape
    <3>3. \A l \in Layers : added'[l] = IF l = o.tag.layer
                                       THEN [tag |-> o.tag, got |-> pinned.output] ELSE added[l]
      BY <1>1, <2>2 DEF HandInv, Shapes
    <3> QED BY <3>2, <3>3 DEF HandInv, HandOff, Full
  <2> QED BY <2>1, <2>2
<1>13. CASE EndsTask(o)
  <2>1. o.do \in {"sync", "add"} /\ QueueIdle /\ QueueIdle'
    BY <1>1, <1>4, <1>13 DEF EndsTask, QueueIdle
  <2>2. Waits'
    BY <2>1 DEF Waits
  <2>3. HeadInv'
    <3> SUFFICES ASSUME stream' # <<>> PROVE HeadInv'
      BY DEF HeadInv
    <3>1. StartsTask(Head(stream'))
      BY <1>2, <1>3, <1>13 DEF Follows
    <3> QED BY <3>1 DEF HeadInv, StartsTask
  <2> QED BY <1>8, <1>9, <1>10, <1>11, <1>12, <2>2, <2>3 DEF HandInv
<1>14. CASE ~EndsTask(o)
  <2> PICK p : p = Head(stream')
    OBVIOUS
  <2>1. /\ n > 1 /\ p.task = o.task /\ p.tag = o.tag /\ stream' # <<>>
        /\ <<o.do, p.do>> \in {<<"copy", "submit">>, <<"submit", "sync">>, <<"sync", "add">>}
    BY <1>2, <1>3, <1>14 DEF Follows
  <2>2. CASE o.do = "copy"
    <3>1. p.do = "submit" /\ o.task.kind = "decode"
      BY <1>3, <2>1, <2>2 DEF OpShape
    <3>2. pinned'.input = p.tag /\ pinned'.weights = p.tag /\ pinned'.ids = p.tag
      <4>1. conf.router # "stream" => conf.router = "host"
        BY CPUExpertsAssumption DEF HandInv, Shapes
      <4> QED BY <1>3, <1>5, <2>1, <2>2, <3>1, <4>1 DEF Sized
    <3>3. HeadInv'
      BY <3>1, <3>2 DEF HeadInv
    <3>4. Waits'
      BY <1>1, <1>4, <2>2 DEF Waits, QueueIdle
    <3> QED BY <1>8, <1>9, <1>10, <1>11, <1>12, <3>3, <3>4 DEF HandInv
  <2>3. CASE o.do = "submit"
    <3>1. p.do = "sync" /\ pinned' = pinned
      BY <1>5, <2>1, <2>3
    <3>2. running' = <<>> /\ tasks' = <<p.task>>
      <4>1. tasks = <<>> /\ running = <<>>
        BY <1>4, <2>3 DEF QueueIdle
      <4> QED BY <1>1, <2>1, <2>3, <4>1
    <3>3. Waiting(p)'
      BY <3>2 DEF Waiting
    <3>4. HeadInv'
      BY <1>1, <2>1, <2>3, <3>1, <3>3 DEF HandInv, HeadInv
    <3>5. Waits'
      BY <2>1, <3>1 DEF Waits, Awaited
    <3> QED BY <1>8, <1>9, <1>10, <1>11, <1>12, <3>4, <3>5 DEF HandInv
  <2>4. CASE o.do = "sync"
    <3>1. p.do = "add" /\ pinned' = pinned /\ o.task.kind = "decode"
      BY <1>3, <1>5, <1>14, <2>1, <2>4 DEF OpShape, EndsTask
    <3>2. pinned.output = Full(o.tag)
      <4>1. Waiting(o)
        BY <1>1, <2>4, <3>1 DEF HandInv, HeadInv
      <4>2. tasks # <<o.task>>
        BY <1>1, <2>4 DEF QueueIdle
      <4> QED BY <1>1, <2>4, <4>1, <4>2 DEF Waiting, QueueIdle
    <3>3. HeadInv'
      BY <2>1, <3>1, <3>2 DEF HeadInv, Full
    <3>4. Waits'
      BY <1>1, <2>4 DEF Waits, QueueIdle
    <3> QED BY <1>8, <1>9, <1>10, <1>11, <1>12, <3>3, <3>4 DEF HandInv
  <2> QED BY <2>1, <2>2, <2>3, <2>4
<1> QED BY <1>13, <1>14

LEMMA HandNext == ASSUME HandInv, [Next]_vars PROVE HandInv'
<1>1. CASE Next
  <2>1. CASE \E kind \in {"decode", "prefill", "reload"} : Begin(kind)
    BY <2>1, IdleHands
  <2>2. CASE Host
    BY <2>2, LoadHands, IdleHands, DecodeHands, HeadHands, PrefillHands DEF Host
  <2>3. CASE StreamStep
    BY <2>3, StreamHands
  <2>4. CASE Worker
    BY <2>4, StartHands, GroupHands, FinishHands DEF Worker
  <2> QED BY <1>1, <2>1, <2>2, <2>3, <2>4 DEF Next
<1>2. CASE UNCHANGED vars
  BY <1>2 DEF vars, memory, HandInv, Shapes, PinnedShape, Run, Control, Waits, QueueIdle, Awaited, StreamShape,
     InOrder, OpShape, Follows, EndsTask, StartsTask, AtOnce, Sized, HeadInv, Waiting, HandOff
<1> QED BY <1>1, <1>2

(* Every layer of decoding adds what its own operator computed from its    *)
(* own pinned input, for any number of layers, passes and experts.         *)
THEOREM LayersAddTheirOwn == Spec => []HandOff
<1>1. HandInv => HandOff
  BY DEF HandInv
<1>2. Spec => []HandInv
  BY HandInit, HandNext, PTL DEF Spec
<1> QED BY <1>1, <1>2, PTL

-----------------------------------------------------------------------------
(***************************************************************************)
(* Scratch memory.  Every group of requests of an operator alive was       *)
(* arranged in the block in force and fits it; the operators Python holds  *)
(* are those alive; and what is enqueued names one of them.                *)
(***************************************************************************)
Arranged(group, b) ==
  /\ group = Arrange(group.request, b) /\ group.request \in Seq(Nat)
  /\ SizeOf(group.request) <= b.size

AllArranged(b, hist) ==
  /\ b = [allocation |-> b.allocation, size |-> b.size]
  /\ b.allocation \in Nat /\ b.size \in Nat
  /\ hist = [o \in Objects |-> hist[o]]
  /\ \A o \in Objects :
       /\ hist[o] \in Seq(Range(hist[o]))
       /\ \A i \in 1 .. Len(hist[o]) : Arranged(hist[o][i], b)

OneObjectEach ==
  /\ op \in [Ops -> Objects \cup {0}]
  /\ \A k, l \in Ops : k # l /\ op[k] = op[l] => op[k] = 0
  /\ \A o \in Objects : hist_requests[o] # <<>> <=> \E l \in Ops : op[l] = o

Built ==
  /\ pc = "load" => captured = <<>>
  /\ captured # <<>> => captured[LmHead] = op[LmHead]
  /\ \A l \in Ops : (pc = "load" => l < layer \/ (sync /\ l = layer)) => op[l] # 0

Current(t) ==
  t.layer \in Ops /\ op[t.layer] # 0 /\ (t.obj = op[t.layer] \/ StaleReplay(t))

InUse ==
  /\ \A i \in 1 .. Len(tasks) : Current(tasks[i])
  /\ \A i \in 1 .. Len(stream) : Current(stream[i].task)
  /\ running # <<>> => Current(Run.task) /\ Run.allocation = buffer.allocation

MemoryInv ==
  AllArranged(buffer, hist_requests) /\ OneObjectEach /\ Built /\ InUse

-----------------------------------------------------------------------------
(* Offsets within a request. *)
LEMMA SumsOf ==
  ASSUME NEW r \in Seq(Nat)
  PROVE  /\ Sums(r) \in [0 .. Len(r) -> Nat] /\ Len(r) \in Nat
         /\ \A i \in 1 .. Len(r) : Sums(r)[i] = Sums(r)[i - 1] + r[i]
         /\ \A i \in 0 .. Len(r) : \A k \in 0 .. i : Sums(r)[k] <= Sums(r)[i]
<1> PICK n : n = Len(r)
  OBVIOUS
<1>1. n \in Nat /\ \A i \in 1 .. n : r[i] \in Nat
  OBVIOUS
<1>2. PICK s : s = CHOOSE g : g = [i \in 0 .. n |-> IF i = 0 THEN 0 ELSE g[i - 1] + r[i]]
  OBVIOUS
<1>3. s = [i \in 0 .. n |-> IF i = 0 THEN 0 ELSE s[i - 1] + r[i]]
  BY <1>1, <1>2, SumsExist
<1>4. Sums(r) = s
  BY <1>2 DEF Sums
<1>5. /\ s \in [0 .. n -> Nat]
      /\ \A i \in 1 .. n : s[i] = s[i - 1] + r[i]
      /\ \A i \in 0 .. n : \A k \in 0 .. i : s[k] <= s[i]
  <2> HIDE DEF Sums
  <2> QED BY <1>1, <1>3, SumsValue
<1> QED BY <1>1, <1>4, <1>5

LEMMA SizeOfType == ASSUME NEW r \in Seq(Nat) PROVE SizeOf(r) \in Nat
<1>1. Len(r) \in 0 .. Len(r)
  BY SumsOf
<1> QED BY <1>1, SumsOf DEF SizeOf

(* Regions of a request that fits do not overlap. *)
LEMMA ArrangedInForce ==
  ASSUME NEW group, Arranged(group, buffer), buffer.size \in Nat PROVE InForce(group)
<1> PICK r : r = group.request
  OBVIOUS
<1> PICK n, s : n = Len(r) /\ s = Sums(r)
  OBVIOUS
<1>1. r \in Seq(Nat) /\ SizeOf(r) <= buffer.size /\ DOMAIN r = 1 .. n
  BY DEF Arranged
<1>2. /\ s \in [0 .. n -> Nat] /\ n \in Nat
      /\ \A i \in 1 .. n : s[i] = s[i - 1] + r[i]
      /\ \A i \in 0 .. n : \A k \in 0 .. i : s[k] <= s[i]
  BY <1>1, SumsOf
<1>3. \A i \in 1 .. n : group.pointers[i] = <<buffer.allocation, s[i - 1]>>
  BY <1>1 DEF Arranged, Arrange, Offset
<1>4. s[n] <= buffer.size
  BY <1>1 DEF SizeOf
<1>5. ASSUME NEW i \in 1 .. n
      PROVE  /\ s[i - 1] + r[i] <= buffer.size
             /\ \A k \in 1 .. i - 1 : s[k - 1] + r[k] <= s[i - 1]
  <2>1. s[i - 1] + r[i] <= buffer.size
    <3>1. n \in 0 .. n /\ i \in 0 .. n
      BY <1>2
    <3>2. s[i] <= s[n] /\ s[i] \in Nat /\ s[n] \in Nat
      BY <1>2, <3>1
    <3> QED BY <1>2, <1>4, <3>2
  <2>2. ASSUME NEW k \in 1 .. i - 1 PROVE s[k - 1] + r[k] <= s[i - 1]
    <3>1. k \in 1 .. n /\ i - 1 \in 0 .. n /\ k \in 0 .. i - 1
      BY <1>2
    <3> QED BY <1>2, <3>1
  <2> QED BY <2>1, <2>2
<1>6. \A i \in 1 .. n : \A k \in 1 .. i - 1 : k \in 1 .. n
  BY <1>2
<1>7. ASSUME NEW i \in 1 .. n
      PROVE  /\ group.pointers[i][1] = buffer.allocation
             /\ group.pointers[i][2] + r[i] <= buffer.size
             /\ \A k \in 1 .. i - 1 : group.pointers[k][2] + r[k] <= group.pointers[i][2]
  <2>1. group.pointers[i][1] = buffer.allocation /\ group.pointers[i][2] = s[i - 1]
    BY <1>3
  <2>2. \A k \in 1 .. i - 1 : group.pointers[k][2] = s[k - 1]
    BY <1>3, <1>6
  <2> QED BY <1>5, <2>1, <2>2
<1> QED BY <1>1, <1>7 DEF InForce

-----------------------------------------------------------------------------
(* What alloc and dealloc keep. *)
LEMMA FunctionIsSeq ==
  ASSUME NEW n \in Nat, NEW f, f = [i \in 1 .. n |-> f[i]]
  PROVE  f \in Seq(Range(f)) /\ Len(f) = n
<1> PICK S : S = Range(f)
  OBVIOUS
<1>1. f \in [1 .. n -> S]
  BY DEF Range
<1> QED BY <1>1

LEMMA RearrangedAll ==
  ASSUME NEW b, NEW c, NEW h, AllArranged(b, h), c.size \in Nat, c.allocation \in Nat,
         c = [allocation |-> c.allocation, size |-> c.size], b.size <= c.size
  PROVE  /\ AllArranged(c, Rearranged(h, c))
         /\ \A o \in Objects : Rearranged(h, c)[o] = <<>> <=> h[o] = <<>>
<1> PICK k : k = Rearranged(h, c)
  OBVIOUS
<1>1. /\ k = [o \in Objects |-> k[o]]
      /\ \A o \in Objects : k[o] = [i \in DOMAIN h[o] |-> Arrange(h[o][i].request, c)]
  <2>1. DOMAIN h = Objects
    BY DEF AllArranged
  <2> QED BY <2>1 DEF Rearranged
<1>2. ASSUME NEW o \in Objects
      PROVE  /\ k[o] \in Seq(Range(k[o])) /\ (k[o] = <<>> <=> h[o] = <<>>)
             /\ \A i \in 1 .. Len(k[o]) : Arranged(k[o][i], c)
  <2> PICK q, r : q = h[o] /\ r = k[o]
    OBVIOUS
  <2>1. PICK n : n = Len(q)
    OBVIOUS
  <2>2. q \in Seq(Range(q)) /\ \A i \in 1 .. n : Arranged(q[i], b)
    BY <2>1 DEF AllArranged
  <2>3. n \in Nat /\ DOMAIN q = 1 .. n /\ (q = <<>> <=> n = 0)
    <3>1. PICK S : q \in Seq(S)
      BY <2>2
    <3> QED BY <2>1, <3>1, EmptySeq
  <2>4. r = [i \in 1 .. n |-> r[i]] /\ \A i \in 1 .. n : r[i] = Arrange(q[i].request, c)
    BY <1>1, <2>3
  <2>5. r \in Seq(Range(r)) /\ Len(r) = n
    BY <2>3, <2>4, FunctionIsSeq
  <2>6. r = <<>> <=> n = 0
    <3>1. PICK S : r \in Seq(S)
      BY <2>5
    <3> QED BY <2>5, <3>1, EmptySeq
  <2>7. ASSUME NEW i \in 1 .. n PROVE Arranged(r[i], c)
    <3>1. PICK x : x = q[i].request
      OBVIOUS
    <3>2. x \in Seq(Nat) /\ SizeOf(x) <= b.size /\ b.size \in Nat
      BY <2>2, <3>1 DEF Arranged, AllArranged
    <3>3. SizeOf(x) <= c.size
      BY <3>2, SizeOfType
    <3>4. r[i] = Arrange(x, c) /\ r[i].request = x
      BY <2>4, <3>1 DEF Arrange
    <3> QED BY <3>2, <3>3, <3>4 DEF Arranged
  <2> QED BY <2>3, <2>5, <2>6, <2>7
<1> QED BY <1>1, <1>2 DEF AllArranged

Allocated(m, n, obj) ==
  /\ n = [buffer |-> n.buffer, hist |-> n.hist] /\ AllArranged(n.buffer, n.hist)
  /\ n.hist[obj] # <<>>
  /\ \A o \in Objects \ {obj} : n.hist[o] = <<>> <=> m.hist[o] = <<>>

LEMMA AllocKeeps ==
  ASSUME NEW m, AllArranged(m.buffer, m.hist), NEW obj \in Objects, NEW request \in Seq(Nat),
         NEW n, n = Alloc(m, obj, request)
  PROVE  Allocated(m, n, obj)
<1> PICK b, h : b = m.buffer /\ h = m.hist
  OBVIOUS
<1>0. AllArranged(b, h)
  OBVIOUS
<1> DEFINE grows == SizeOf(request) > b.size
<1>1. PICK c : c = IF grows THEN [allocation |-> b.allocation + 1, size |-> SizeOf(request)] ELSE b
  OBVIOUS
<1>2. PICK k : k = IF grows THEN Rearranged(h, c) ELSE h
  OBVIOUS
<1>3. /\ n = [buffer |-> c, hist |-> [k EXCEPT ![obj] = Append(@, Arrange(request, c))]]
  BY <1>1, <1>2 DEF Alloc
<1>4. /\ AllArranged(c, k) /\ SizeOf(request) <= c.size
      /\ \A o \in Objects : k[o] = <<>> <=> h[o] = <<>>
  <2>1. SizeOf(request) \in Nat /\ b.size \in Nat /\ b.allocation \in Nat
    BY <1>0, SizeOfType DEF AllArranged
  <2>2. CASE grows
    <3>1. /\ c = [allocation |-> c.allocation, size |-> c.size] /\ c.allocation \in Nat
          /\ c.size = SizeOf(request) /\ k = Rearranged(h, c)
      BY <1>1, <1>2, <2>1, <2>2
    <3>2. b.size <= c.size
      BY <2>1, <2>2, <3>1
    <3> QED BY <1>0, <2>1, <3>1, <3>2, RearrangedAll
  <2>3. CASE ~grows
    BY <1>0, <1>1, <1>2, <2>1, <2>3
  <2> QED BY <2>2, <2>3
<1>5. PICK g : g = Arrange(request, c)
  OBVIOUS
<1>6. Arranged(g, c)
  BY <1>4, <1>5 DEF Arranged, Arrange
<1>7. PICK z : z = [k EXCEPT ![obj] = Append(@, g)]
  OBVIOUS
<1>8. /\ z = [o \in Objects |-> z[o]]
      /\ \A o \in Objects \ {obj} : z[o] = k[o]
      /\ z[obj] = Append(k[obj], g)
  BY <1>4, <1>7 DEF AllArranged
<1>9. /\ z[obj] # <<>> /\ z[obj] \in Seq(Range(z[obj]))
      /\ \A i \in 1 .. Len(z[obj]) : Arranged(z[obj][i], c)
  <2> PICK q, r : q = k[obj] /\ r = z[obj]
    OBVIOUS
  <2>1. q \in Seq(Range(q)) /\ (\A i \in 1 .. Len(q) : Arranged(q[i], c)) /\ r = Append(q, g)
    BY <1>4, <1>8 DEF AllArranged
  <2>2. PICK S : q \in Seq(S)
    BY <2>1
  <2>3. /\ r \in Seq(Range(r)) /\ r # <<>> /\ Len(r) = Len(q) + 1 /\ Len(q) \in Nat
        /\ (\A i \in 1 .. Len(q) : r[i] = q[i]) /\ r[Len(q) + 1] = g
    <3>1. /\ Append(q, g) \in Seq(Range(Append(q, g)))
          /\ Append(q, g) # <<>> /\ Len(Append(q, g)) = Len(q) + 1
          /\ \A i \in 1 .. Len(q) : Append(q, g)[i] = q[i]
          /\ Append(q, g)[Len(q) + 1] = g
      <4>1. Append(q, g) \in Seq(Range(Append(q, g)))
        BY <2>2, AppendSeq
      <4>2. Append(q, g) # <<>>
        BY <2>2, AppendSeq
      <4>3. Len(Append(q, g)) = Len(q) + 1
        BY <2>2
      <4>4. \A i \in 1 .. Len(q) : Append(q, g)[i] = q[i]
        BY <2>2
      <4>5. Append(q, g)[Len(q) + 1] = g
        BY <2>2
      <4> QED BY <4>1, <4>2, <4>3, <4>4, <4>5
    <3>2. Len(q) \in Nat
      BY <2>2
    <3> QED BY <2>1, <3>1, <3>2, Zenon
  <2>4. \A i \in 1 .. Len(r) : i \in 1 .. Len(q) \/ i = Len(q) + 1
    BY <2>3
  <2> QED BY <1>6, <2>1, <2>3, <2>4
<1>10. AllArranged(c, z)
  BY <1>4, <1>8, <1>9 DEF AllArranged
<1>11. n = [buffer |-> c, hist |-> z]
  BY <1>3, <1>5, <1>7
<1>12. n.buffer = c /\ n.hist = z
  BY <1>11
<1> QED BY <1>4, <1>8, <1>9, <1>10, <1>11, <1>12 DEF Allocated

LEMMA RequestsType ==
  OneRequest \in Seq(Nat) /\ ManyRequest \in Seq(Nat) /\ LinearRequest \in Seq(Nat)
<1>1. TopK \in Nat /\ GroupMax \in Nat /\ LinearWidth \in Nat
  BY ConstantsType
<1>2. [k \in 1 .. TopK |-> 1] \in Seq(Nat) /\ [i \in 1 .. GroupMax |-> 1] \in Seq(Nat)
  BY <1>1
<1>3. <<1>> \in Seq(Nat) /\ <<TopK * GroupMax>> \in Seq(Nat)
  BY <1>1
<1>4. LinearRequest \in Seq(Nat)
  BY <1>1 DEF LinearRequest
<1> QED BY <1>2, <1>3, <1>4 DEF OneRequest, ManyRequest

(* There is an address for one more object than there are operators. *)
LEMMA FreeObject ==
  ASSUME OneObjectEach PROVE \E o \in Objects : hist_requests[o] = <<>>
<1>1. NLayers \in Nat
  BY ConstantsType
<1>2. /\ IsFiniteSet(Ops) /\ Cardinality(Ops) = NLayers + 1
      /\ IsFiniteSet(Objects) /\ Cardinality(Objects) = NLayers + 2
  <2>1. /\ IsFiniteSet(0 .. NLayers) /\ Cardinality(0 .. NLayers) = NLayers - 0 + 1
        /\ IsFiniteSet(1 .. NLayers + 2) /\ Cardinality(1 .. NLayers + 2) = (NLayers + 2) - 1 + 1
    BY <1>1, FS_Interval
  <2> QED BY <1>1, <2>1 DEF Ops, Objects
<1>3. DEFINE held == {op[l] : l \in Ops}
<1>4. IsFiniteSet(held) /\ Cardinality(held) <= NLayers + 1
  <2>1. op \in Surjection(Ops, held)
    BY DEF OneObjectEach, Surjection
  <2> HIDE DEF held
  <2> QED BY <1>1, <1>2, <2>1, FS_Surjection
<1>5. SUFFICES ASSUME \A o \in Objects : hist_requests[o] # <<>> PROVE FALSE
  OBVIOUS
<1>6. Objects \subseteq held
  BY <1>5 DEF OneObjectEach
<1> HIDE DEF held
<1>7. Cardinality(Objects) <= Cardinality(held)
  BY <1>4, <1>6, FS_Subset
<1>8. Cardinality(held) \in Nat
  BY <1>4, FS_CardinalityType
<1> QED BY <1>1, <1>2, <1>4, <1>7, <1>8

(* Building an operator and destroying the one it replaces. *)
LEMMA ConstructKeeps ==
  ASSUME NEW l \in Ops, AllArranged(buffer, hist_requests), OneObjectEach, Construct(l)
  PROVE  /\ AllArranged(buffer, hist_requests)' /\ OneObjectEach'
         /\ \A k \in Ops : k # l => op'[k] = op[k]
         /\ op'[l] \in Objects
<1> PICK obj : obj = CHOOSE o \in Objects : o \notin Live(hist_requests)
  OBVIOUS
<1>1. obj \in Objects /\ hist_requests[obj] = <<>>
  BY FreeObject DEF Live
<1> PICK old : old = op[l]
  OBVIOUS
<1> PICK b, h : b = buffer /\ h = hist_requests
  OBVIOUS
<1> PICK start : start = [buffer |-> b, hist |-> h]
  OBVIOUS
<1> DEFINE built == IF l = LmHead THEN Alloc(start, obj, LinearRequest)
                    ELSE Alloc(Alloc(start, obj, OneRequest), obj, ManyRequest)
<1>2. PICK m : m = built
  <2> HIDE DEF built
  <2> QED OBVIOUS
<1>3. /\ m = [buffer |-> m.buffer, hist |-> m.hist] /\ AllArranged(m.buffer, m.hist)
      /\ m.hist[obj] # <<>>
      /\ \A o \in Objects \ {obj} : m.hist[o] = <<>> <=> hist_requests[o] = <<>>
  <2>0. AllArranged(start.buffer, start.hist) /\ obj \in Objects /\ start.hist = hist_requests
    BY <1>1
  <2>1. CASE l = LmHead
    <3>1. m = Alloc(start, obj, LinearRequest) /\ LinearRequest \in Seq(Nat)
      BY <1>2, <2>1, RequestsType
    <3>2. Allocated(start, m, obj)
      BY <2>0, <3>1, AllocKeeps
    <3> QED BY <2>0, <3>2 DEF Allocated
  <2>2. CASE l # LmHead
    <3>1. PICK f : f = Alloc(start, obj, OneRequest)
      OBVIOUS
    <3>2. Allocated(start, f, obj)
      BY <2>0, <3>1, AllocKeeps, RequestsType
    <3>3. m = Alloc(f, obj, ManyRequest) /\ AllArranged(f.buffer, f.hist)
      BY <1>2, <2>2, <3>1, <3>2 DEF Allocated
    <3>4. Allocated(f, m, obj)
      BY <2>0, <3>3, AllocKeeps, RequestsType
    <3> QED BY <2>0, <3>2, <3>4 DEF Allocated
  <2> QED BY <2>1, <2>2
<1>4. /\ buffer' = (IF old = 0 THEN m ELSE Dealloc(m, old)).buffer
      /\ hist_requests' = (IF old = 0 THEN m ELSE Dealloc(m, old)).hist
      /\ op' = [op EXCEPT ![l] = obj]
  BY <1>2 DEF Construct
<1>5. /\ op \in [Ops -> Objects \cup {0}]
      /\ \A k \in Ops : k # l => op'[k] = op[k]
      /\ op'[l] = obj /\ op' \in [Ops -> Objects \cup {0}]
      /\ \A k \in Ops : op[k] # obj
      /\ old \in Objects \cup {0} /\ old # obj
      /\ 0 \notin Objects
  <2>1. op \in [Ops -> Objects \cup {0}] /\ op' = [op EXCEPT ![l] = obj]
    BY <1>4 DEF OneObjectEach
  <2>2. /\ \A k \in Ops : k # l => op'[k] = op[k]
        /\ op'[l] = obj /\ op' \in [Ops -> Objects \cup {0}]
    BY <1>1, <2>1
  <2>3. \A k \in Ops : op[k] # obj
    BY <1>1 DEF OneObjectEach
  <2>4. 0 \notin Objects
    BY ConstantsType DEF Objects
  <2> QED BY <2>1, <2>2, <2>3, <2>4
<1>6. /\ AllArranged(buffer', hist_requests')
      /\ \A o \in Objects : hist_requests'[o] # <<>> <=>
            (o = obj \/ (o # old /\ hist_requests[o] # <<>>))
  <2>1. CASE old = 0
    <3>1. buffer' = m.buffer /\ hist_requests' = m.hist
      BY <1>4, <2>1
    <3> QED BY <1>3, <1>5, <2>1, <3>1
  <2>2. CASE old # 0
    <3>1. PICK g : g = [m.hist EXCEPT ![old] = <<>>]
      OBVIOUS
    <3>2. buffer' = m.buffer /\ hist_requests' = g
      <4>1. PICK c, k : m = [buffer |-> c, hist |-> k]
        BY <1>3
      <4>2. [m EXCEPT !.hist[old] = <<>>] = [buffer |-> c, hist |-> [k EXCEPT ![old] = <<>>]]
        BY <4>1
      <4> QED BY <1>4, <2>2, <3>1, <4>1, <4>2 DEF Dealloc
    <3>3. /\ g = [o \in Objects |-> g[o]] /\ g[old] = <<>>
          /\ \A o \in Objects \ {old} : g[o] = m.hist[o]
      BY <1>3, <1>5, <2>2, <3>1 DEF AllArranged
    <3>4. <<>> \in Seq(Range(<<>>)) /\ Len(<<>>) = 0
      OBVIOUS
    <3>5. AllArranged(m.buffer, g)
      <4>1. \A o \in Objects :
              /\ g[o] \in Seq(Range(g[o]))
              /\ \A i \in 1 .. Len(g[o]) : Arranged(g[o][i], m.buffer)
        <5> TAKE o \in Objects
        <5>1. CASE o = old
          <6>1. g[o] = <<>>
            BY <3>3, <5>1
          <6> QED BY <3>4, <6>1
        <5>2. CASE o # old
          BY <1>3, <3>3, <5>2 DEF AllArranged
        <5> QED BY <5>1, <5>2
      <4> QED BY <1>3, <3>3, <4>1 DEF AllArranged
    <3> QED BY <1>3, <1>5, <3>2, <3>3, <3>5
  <2> QED BY <2>1, <2>2
<1>7. OneObjectEach'
  <2>1. \A j, k \in Ops : j # k /\ op'[j] = op'[k] => op'[j] = 0
    BY <1>5 DEF OneObjectEach
  <2>2. \A o \in Objects : hist_requests'[o] # <<>> <=> \E k \in Ops : op'[k] = o
    <3> SUFFICES ASSUME NEW o \in Objects
                 PROVE (o = obj \/ (o # old /\ hist_requests[o] # <<>>)) <=> \E k \in Ops : op'[k] = o
      BY <1>6
    <3>1. CASE o = obj
      BY <1>5, <3>1
    <3>2. CASE o # obj
      <4>1. (\E k \in Ops : op'[k] = o) <=> \E k \in Ops : k # l /\ op[k] = o
        BY <1>5, <3>2
      <4>2. (\E k \in Ops : k # l /\ op[k] = o) <=> (o # old /\ \E k \in Ops : op[k] = o)
        BY <1>5 DEF OneObjectEach
      <4>3. hist_requests[o] # <<>> <=> \E k \in Ops : op[k] = o
        BY DEF OneObjectEach
      <4> QED BY <3>2, <4>1, <4>2, <4>3
    <3> QED BY <3>1, <3>2
  <2> QED BY <1>5, <2>1, <2>2 DEF OneObjectEach
<1> QED BY <1>1, <1>5, <1>6, <1>7

-----------------------------------------------------------------------------
(* MemoryInv is inductive relative to HandInv. *)
LEMMA MemoryInit == Init => MemoryInv
<1> SUFFICES ASSUME Init PROVE MemoryInv
  OBVIOUS
<1>1. /\ hist_requests = [o \in Objects |-> <<>>] /\ op = [l \in Ops |-> 0]
      /\ buffer = [allocation |-> 0, size |-> 0]
      /\ stream = <<>> /\ tasks = <<>> /\ running = <<>> /\ captured = <<>>
      /\ pc = "load" /\ sync = FALSE /\ layer = 0
  BY DEF Init
<1>2. AllArranged(buffer, hist_requests)
  <2>1. <<>> \in Seq(Range(<<>>)) /\ Len(<<>>) = 0
    OBVIOUS
  <2> QED BY <1>1, <2>1 DEF AllArranged
<1>3. OneObjectEach
  <2>1. 0 \notin Objects
    BY ConstantsType DEF Objects
  <2> QED BY <1>1, <2>1 DEF OneObjectEach
<1>4. Built
  BY <1>1, ConstantsType DEF Built, Ops
<1>5. InUse
  BY <1>1 DEF InUse
<1> QED BY <1>2, <1>3, <1>4, <1>5 DEF MemoryInv

LEMMA CurrentKept ==
  ASSUME UNCHANGED <<memory, captured>>
  PROVE  \A t : Current(t)' <=> Current(t)
BY DEF memory, Current, StaleReplay

LEMMA MemoryKept ==
  ASSUME MemoryInv, UNCHANGED <<memory, captured>>, Built', InUse' PROVE MemoryInv'
BY DEF memory, MemoryInv, AllArranged, Arranged, OneObjectEach

(* Operators are built while the CPU has nothing to do. *)
LEMMA BuildMemory == ASSUME HandInv, MemoryInv, Load \/ Reload PROVE MemoryInv'
<1>1. layer \in Ops /\ Construct(layer) /\ stream = <<>> /\ QueueIdle
  <2>1. CASE Load
    BY <2>1 DEF HandInv, Control, Waits, Awaited, Load
  <2>2. CASE Reload
    <3>1. stream = <<>> /\ ~sync
      BY <2>2 DEF HandInv, Control, Reload
    <3> QED BY <2>2, <3>1, ConstantsType DEF HandInv, Waits, Awaited, Reload, Layers, Ops
  <2> QED BY <2>1, <2>2
<1>2. /\ AllArranged(buffer, hist_requests)' /\ OneObjectEach'
      /\ \A k \in Ops : k # layer => op'[k] = op[k]
      /\ op'[layer] \in Objects
  BY <1>1, ConstructKeeps DEF MemoryInv
<1>3. 0 \notin Objects
  BY ConstantsType DEF Objects
<1>4. CASE Load
  <2>1. /\ pc = "load" /\ UNCHANGED <<captured, stream, running, pc>> /\ captured = <<>>
        /\ stream' = <<>> /\ running' = <<>>
    BY <1>1, <1>4 DEF Load, hostOnly, MemoryInv, Built, QueueIdle
  <2>2. CASE WarmsUp(layer)
    <3>1. PICK t : t = Task("warm", layer, op'[layer])
      OBVIOUS
    <3>2. tasks' = <<t>> /\ sync' = TRUE /\ layer' = layer
      BY <1>1, <1>4, <2>2, <3>1 DEF Load, QueueIdle
    <3>3. t.layer = layer /\ t.obj = op'[layer]
      BY <3>1 DEF Task
    <3>4. Built'
      BY <1>1, <1>2, <1>3, <2>1, <3>2, ConstantsType DEF MemoryInv, Built, Ops
    <3>5. Current(t)'
      BY <1>1, <1>2, <1>3, <3>3 DEF Current
    <3>6. InUse'
      BY <2>1, <3>2, <3>5 DEF InUse
    <3> QED BY <1>2, <3>4, <3>6 DEF MemoryInv
  <2>3. CASE ~WarmsUp(layer)
    <3>1. tasks' = <<>> /\ sync' = sync /\ layer' = layer + 1 /\ ~sync
      BY <1>1, <1>4, <2>3 DEF Load, QueueIdle
    <3>2. Built'
      BY <1>1, <1>2, <1>3, <2>1, <3>1, ConstantsType DEF MemoryInv, Built, Ops
    <3>3. InUse'
      BY <2>1, <3>1 DEF InUse
    <3> QED BY <1>2, <3>2, <3>3 DEF MemoryInv
  <2> QED BY <2>2, <2>3
<1>5. CASE Reload
  <2>1. pc = "reload" /\ pc' = pc /\ stream' = <<>> /\ tasks' = <<>> /\ running' = <<>>
    BY <1>1, <1>5 DEF Reload, hostOnly, QueueIdle
  <2>2. Built'
    <3>1. captured' = captured /\ layer \in Layers
      BY <1>5 DEF Reload
    <3>2. LmHead \in Ops /\ LmHead # layer
      BY <3>1, ConstantsType DEF LmHead, Ops, Layers
    <3>3. op'[LmHead] = op[LmHead]
      BY <1>2, <3>2
    <3> QED BY <1>1, <1>2, <1>3, <2>1, <3>1, <3>3 DEF MemoryInv, Built
  <2>3. InUse'
    BY <2>1 DEF InUse
  <2> QED BY <1>2, <2>2, <2>3 DEF MemoryInv
<1> QED BY <1>4, <1>5

LEMMA BeginMemory ==
  ASSUME HandInv, MemoryInv, NEW k \in {"decode", "prefill", "reload"}, Begin(k) PROVE MemoryInv'
<1>1. /\ pc = "idle" /\ pc' = k /\ stream = <<>> /\ ~sync
      /\ UNCHANGED <<memory, stream, tasks, running>>
  BY DEF HandInv, Control, Begin, hostOnly
<1>2. QueueIdle
  BY <1>1 DEF HandInv, Waits, Awaited
<1>3. InUse'
  BY <1>1, <1>2 DEF InUse, QueueIdle
<1>4. Built'
  <2>1. captured' = op \/ captured' = captured
    BY DEF Begin
  <2> QED BY <1>1, <2>1 DEF MemoryInv, Built, memory
<1> QED BY <1>1, <1>3, <1>4 DEF memory, MemoryInv, AllArranged, Arranged, OneObjectEach

LEMMA IdleMemory ==
  ASSUME HandInv, MemoryInv, Synced \/ End \/ PrefillOnGpu PROVE MemoryInv'
<1>1. UNCHANGED <<memory, captured, stream, tasks, running>>
  BY DEF Synced, End, PrefillOnGpu, hostOnly
<1>2. InUse'
  BY <1>1, CurrentKept DEF MemoryInv, InUse, Run, memory
<1>3. Built'
  <2>1. CASE Synced
    <3>1. pc' = pc /\ sync /\ layer' = layer + 1 /\ layer \in 0 .. NLayers + 1 /\ sync' = FALSE
      BY <2>1 DEF HandInv, Control, Synced
    <3> QED BY <1>1, <3>1, ConstantsType DEF MemoryInv, Built, memory, Ops
  <2>2. CASE End
    <3>1. pc' = "idle" /\ (pc = "load" => layer = NLayers + 1)
      BY <2>2 DEF End
    <3> QED BY <1>1, <3>1, ConstantsType DEF MemoryInv, Built, memory, Ops
  <2>3. CASE PrefillOnGpu
    <3>1. pc' = pc /\ pc = "prefill"
      BY <2>3 DEF PrefillOnGpu
    <3> QED BY <1>1, <3>1 DEF MemoryInv, Built, memory
  <2> QED BY <2>1, <2>2, <2>3
<1> QED BY <1>1, <1>2, <1>3, MemoryKept

(* A task names the operator Python holds, or the graph it replays. *)
LEMMA TargetCurrent ==
  ASSUME MemoryInv, pc # "load", NEW l \in Ops, NEW t, t.layer = l,
         \/ t.obj = Target(l) /\ (t.kind = "decode" \/ l = LmHead)
         \/ t.obj = op[l]
  PROVE  Current(t)
BY DEF MemoryInv, Built, Current, StaleReplay, Target

LEMMA SubmitMemory ==
  ASSUME HandInv, MemoryInv, NEW t, Submit(t), Current(t), pc # "load" PROVE MemoryInv'
<1>1. /\ UNCHANGED <<memory, captured, stream, running, pc>> /\ tasks' = Append(tasks, t)
  BY DEF Submit, hostOnly
<1>2. \A i \in 1 .. Len(tasks') : Current(tasks'[i])
  <2>1. /\ Len(tasks') = Len(tasks) + 1 /\ Len(tasks) \in Nat
        /\ \A i \in 1 .. Len(tasks) : tasks'[i] = tasks[i]
        /\ tasks'[Len(tasks) + 1] = t
    BY <1>1 DEF HandInv, Shapes
  <2>2. \A i \in 1 .. Len(tasks') : i \in 1 .. Len(tasks) \/ i = Len(tasks) + 1
    BY <2>1
  <2> QED BY <2>1, <2>2 DEF MemoryInv, InUse
<1>3. InUse'
  BY <1>1, <1>2, CurrentKept DEF MemoryInv, InUse, Run, memory
<1>4. Built'
  BY <1>1 DEF MemoryInv, Built, memory
<1> QED BY <1>1, <1>3, <1>4, MemoryKept

(* What is put into the stream is for a task that is current. *)
LEMMA EnqueueMemory ==
  ASSUME HandInv, MemoryInv, UNCHANGED <<memory, captured, tasks, running, pc>>, pc # "load",
         NEW r, r \in Seq(Range(r)), stream' = stream \o r,
         \A i \in 1 .. Len(r) : Current(r[i].task)
  PROVE  MemoryInv'
<1>1. \A i \in 1 .. Len(stream') : Current(stream'[i].task)
  <2> PICK q, u : q = stream /\ u = stream'
    OBVIOUS
  <2>1. PICK S, T : q \in Seq(S) /\ r \in Seq(T)
    BY DEF HandInv, Shapes
  <2>2. /\ Len(q \o r) = Len(q) + Len(r) /\ Len(q) \in Nat /\ Len(r) \in Nat
        /\ \A i \in 1 .. Len(q) : (q \o r)[i] = q[i]
        /\ \A i \in 1 .. Len(r) : (q \o r)[Len(q) + i] = r[i]
    BY <2>1, ConcatSeq
  <2>3. /\ Len(u) = Len(q) + Len(r)
        /\ \A i \in 1 .. Len(q) : u[i] = q[i]
        /\ \A i \in 1 .. Len(r) : u[Len(q) + i] = r[i]
    BY <2>2
  <2>4. \A i \in 1 .. Len(q) : Current(q[i].task)
    BY DEF MemoryInv, InUse
  <2> SUFFICES ASSUME NEW i \in 1 .. Len(u) PROVE Current(u[i].task)
    OBVIOUS
  <2>5. CASE i <= Len(q)
    BY <2>2, <2>3, <2>4, <2>5
  <2>6. CASE i > Len(q)
    <3>1. i - Len(q) \in 1 .. Len(r) /\ i = Len(q) + (i - Len(q))
      BY <2>2, <2>3, <2>6
    <3>2. u[i] = r[i - Len(q)]
      BY <2>3, <3>1
    <3> QED BY <3>1, <3>2
  <2> QED BY <2>2, <2>3, <2>5, <2>6
<1>2. InUse'
  BY <1>1, CurrentKept DEF MemoryInv, InUse, Run, memory
<1>3. Built'
  BY ConstantsType DEF HandInv, MemoryInv, Built, memory
<1> QED BY <1>2, <1>3, MemoryKept

LEMMA PassMemory ==
  ASSUME HandInv, MemoryInv, DecodeLayer \/ HeadLayer \/ PrefillLayer PROVE MemoryInv'
<1>1. CASE DecodeLayer
  <2>1. /\ pc = "decode" /\ layer \in Layers /\ layer \in Ops
        /\ UNCHANGED <<memory, captured, tasks, running, pc>>
    <3>1. pc = "decode" /\ layer \in Layers /\ UNCHANGED <<memory, captured, tasks, running, pc>>
      BY <1>1 DEF DecodeLayer, hostOnly
    <3> QED BY <3>1, ConstantsType DEF Layers, Ops
  <2>2. CASE UNCHANGED stream
    <3>1. InUse' /\ Built'
      BY <2>1, <2>2, CurrentKept DEF MemoryInv, InUse, Run, Built, memory
    <3> QED BY <2>1, <3>1, MemoryKept
  <2>3. CASE stream' # stream
    <3>1. PICK n \in CpuCounts :
            LET tag == [pass |-> pass, layer |-> layer, size |-> n]
            IN stream' = stream \o HandOver(tag, Task("decode", layer, Target(layer)))
      BY <1>1, <2>3 DEF DecodeLayer
    <3> PICK tag : tag = [pass |-> pass, layer |-> layer, size |-> n]
      OBVIOUS
    <3> PICK t : t = Task("decode", layer, Target(layer))
      OBVIOUS
    <3>2. PICK r : r = HandOver(tag, t)
      OBVIOUS
    <3>3. stream' = stream \o r /\ r \in Seq(Range(r)) /\ Len(r) = 4
      BY <2>1, <3>1, <3>2, HandOverInOrder
    <3>4. Current(t)
      <4>1. t.layer = layer /\ t.obj = Target(layer) /\ t.kind = "decode"
        BY DEF Task
      <4> QED BY <2>1, <4>1, TargetCurrent
    <3>5. \A i \in {1, 2, 3, 4} : r[i].task = t
      BY <3>2 DEF HandOver
    <3>6. \A i \in 1 .. Len(r) : Current(r[i].task)
      BY <3>3, <3>4, <3>5
    <3> QED BY <2>1, <3>3, <3>6, EnqueueMemory
  <2> QED BY <2>2, <2>3
<1>2. CASE HeadLayer
  <2> PICK t : t = Task("linear", LmHead, Target(LmHead))
    OBVIOUS
  <2>1. Current(t) /\ pc # "load"
    <3>1. t.layer = LmHead /\ t.obj = Target(LmHead) /\ LmHead \in Ops
      BY ConstantsType DEF Task, LmHead, Ops
    <3>2. pc # "load"
      BY <1>2 DEF HeadLayer
    <3> QED BY <3>1, <3>2, TargetCurrent
  <2>2. CASE ~(pc = "decode" /\ conf.graph)
    <3>1. Submit(t)
      BY <1>2, <2>2 DEF HeadLayer
    <3> QED BY <2>1, <3>1, SubmitMemory
  <2>3. CASE pc = "decode" /\ conf.graph
    <3>1. PICK tag, r : /\ r = SubSeq(HandOver(tag, t), 2, 3)
                        /\ stream' = stream \o r
      BY <1>2, <2>3 DEF HeadLayer
    <3>2. r \in Seq(Range(r)) /\ Len(r) = 2
      BY <3>1, HeadOpsInOrder
    <3>3. r[1].task = t /\ r[2].task = t
      <4>1. PICK h : h = HandOver(tag, t)
        OBVIOUS
      <4>2. h \in Seq({h[1], h[2], h[3], h[4]}) /\ Len(h) = 4 /\ h[2].task = t /\ h[3].task = t
        BY <4>1 DEF HandOver
      <4>3. PICK S : h \in Seq(S)
        BY <4>2
      <4>4. r[1] = h[2] /\ r[2] = h[3]
        BY <3>1, <4>1, <4>2, <4>3
      <4> QED BY <4>2, <4>4
    <3>4. \A i \in 1 .. Len(r) : Current(r[i].task)
      <4>1. \A i \in 1 .. Len(r) : i = 1 \/ i = 2
        BY <3>2
      <4> QED BY <2>1, <3>3, <4>1
    <3>5. UNCHANGED <<memory, captured, tasks, running, pc>>
      BY <1>2, <2>3 DEF HeadLayer, hostOnly
    <3> QED BY <2>1, <3>1, <3>2, <3>4, <3>5, EnqueueMemory
  <2> QED BY <2>2, <2>3
<1>3. CASE PrefillLayer
  <2>1. PICK routed, cpu : Submit(PrefillTask(layer, routed, cpu))
    BY <1>3 DEF PrefillLayer
  <2>2. PICK t : t = PrefillTask(layer, routed, cpu)
    OBVIOUS
  <2>3. t.layer = layer /\ t.obj = op[layer]
    <3>1. PICK b : b = [i \in DOMAIN routed |-> Chosen(routed[i], cpu)]
      OBVIOUS
    <3>2. t = [Task("prefill", layer, op[layer]) EXCEPT !.routed = routed, !.cpu = cpu, !.batch = b]
      BY <2>2, <3>1 DEF PrefillTask
    <3> QED BY <3>2 DEF Task
  <2>4. layer \in Ops /\ pc # "load"
    BY <1>3, ConstantsType DEF PrefillLayer, Layers, Ops
  <2>5. Current(t)
    BY <2>3, <2>4, TargetCurrent
  <2> QED BY <2>1, <2>2, <2>4, <2>5, SubmitMemory
<1> QED BY <1>1, <1>2, <1>3

LEMMA StreamMemory == ASSUME HandInv, MemoryInv, StreamStep PROVE MemoryInv'
<1> PICK o : o = Head(stream)
  OBVIOUS
<1>1. /\ stream # <<>> /\ stream' = Tail(stream)
      /\ tasks' = IF o.do = "submit" THEN Append(tasks, o.task) ELSE tasks
      /\ UNCHANGED <<memory, captured, running, pc, sync, layer>>
  BY DEF StreamStep
<1>2. /\ Current(o.task)
      /\ \A i \in 1 .. Len(stream') : Current(stream'[i].task)
  <2> PICK q, u : q = stream /\ u = Tail(q)
    OBVIOUS
  <2>1. PICK S : q \in Seq(S) /\ q # <<>>
    BY <1>1 DEF HandInv, Shapes
  <2>2. /\ Len(Tail(q)) = Len(q) - 1 /\ Len(q) \in Nat \ {0}
        /\ \A i \in 1 .. Len(q) - 1 : Tail(q)[i] = q[i + 1]
        /\ Head(q) = q[1]
    BY <2>1, TailSeq
  <2>3. \A i \in 1 .. Len(q) : Current(q[i].task)
    BY DEF MemoryInv, InUse
  <2>4. 1 \in 1 .. Len(q) /\ \A i \in 1 .. Len(q) - 1 : i + 1 \in 1 .. Len(q)
    BY <2>2
  <2>5. stream' = u /\ Len(u) = Len(q) - 1 /\ \A i \in 1 .. Len(q) - 1 : u[i] = q[i + 1]
    BY <1>1, <2>2
  <2> QED BY <2>2, <2>3, <2>4, <2>5
<1>3. \A i \in 1 .. Len(tasks') : Current(tasks'[i])
  <2>1. CASE o.do # "submit"
    BY <1>1, <2>1 DEF MemoryInv, InUse
  <2>2. CASE o.do = "submit"
    <3>1. /\ Len(tasks') = Len(tasks) + 1 /\ Len(tasks) \in Nat
          /\ \A i \in 1 .. Len(tasks) : tasks'[i] = tasks[i]
          /\ tasks'[Len(tasks) + 1] = o.task
      BY <1>1, <2>2 DEF HandInv, Shapes
    <3>2. \A i \in 1 .. Len(tasks') : i \in 1 .. Len(tasks) \/ i = Len(tasks) + 1
      BY <3>1
    <3> QED BY <1>2, <3>1, <3>2 DEF MemoryInv, InUse
  <2> QED BY <2>1, <2>2
<1>4. InUse'
  BY <1>1, <1>2, <1>3, CurrentKept DEF MemoryInv, InUse, Run, memory
<1>5. Built'
  BY <1>1 DEF MemoryInv, Built, memory
<1> QED BY <1>1, <1>4, <1>5, MemoryKept

LEMMA WorkerMemory == ASSUME HandInv, MemoryInv, Worker PROVE MemoryInv'
<1>1. UNCHANGED <<memory, captured, stream, pc, sync, layer>>
  BY DEF Worker, Start, RunGroup, RunToken, Finish, workerOnly
<1>2. Built'
  BY <1>1 DEF MemoryInv, Built, memory
<1>3. /\ \A i \in 1 .. Len(tasks') : Current(tasks'[i])
      /\ running' # <<>> => Current(Run'.task) /\ Run'.allocation = buffer.allocation
  <2>1. CASE Start
    <3>1. /\ tasks # <<>> /\ tasks' = Tail(tasks)
          /\ Run'.task = Head(tasks) /\ Run'.allocation = buffer.allocation
      BY <2>1 DEF Start, Run
    <3> PICK q, u : q = tasks /\ u = Tail(q)
      OBVIOUS
    <3>2. PICK S : q \in Seq(S) /\ q # <<>>
      BY <3>1 DEF HandInv, Shapes
    <3>3. /\ Len(Tail(q)) = Len(q) - 1 /\ Len(q) \in Nat \ {0}
          /\ \A i \in 1 .. Len(q) - 1 : Tail(q)[i] = q[i + 1]
          /\ Head(q) = q[1]
      BY <3>2, TailSeq
    <3>4. \A i \in 1 .. Len(q) : Current(q[i])
      BY DEF MemoryInv, InUse
    <3>5. 1 \in 1 .. Len(q) /\ \A i \in 1 .. Len(q) - 1 : i + 1 \in 1 .. Len(q)
      BY <3>3
    <3>6. tasks' = u /\ Len(u) = Len(q) - 1 /\ \A i \in 1 .. Len(q) - 1 : u[i] = q[i + 1]
      BY <3>1, <3>3
    <3> QED BY <3>1, <3>3, <3>4, <3>5, <3>6
  <2>2. CASE RunGroup \/ RunToken
    <3>1. running # <<>> /\ tasks' = tasks
      BY <2>2 DEF RunGroup, RunToken, workerOnly
    <3>2. Run'.task = Run.task /\ Run'.allocation = Run.allocation
      BY <2>2, RunKept
    <3> QED BY <3>1, <3>2 DEF MemoryInv, InUse
  <2>3. CASE Finish
    BY <2>3 DEF Finish, MemoryInv, InUse
  <2> QED BY <2>1, <2>2, <2>3 DEF Worker
<1>4. InUse'
  BY <1>1, <1>3, CurrentKept DEF MemoryInv, InUse, memory
<1> QED BY <1>1, <1>2, <1>4, MemoryKept

LEMMA MemoryNext == ASSUME HandInv, MemoryInv, [Next]_vars PROVE MemoryInv'
<1>1. CASE Next
  <2>1. CASE \E kind \in {"decode", "prefill", "reload"} : Begin(kind)
    BY <2>1, BeginMemory
  <2>2. CASE Host
    BY <2>2, BuildMemory, IdleMemory, PassMemory DEF Host
  <2>3. CASE StreamStep
    BY <2>3, StreamMemory
  <2>4. CASE Worker
    BY <2>4, WorkerMemory
  <2> QED BY <1>1, <2>1, <2>2, <2>3, <2>4 DEF Next
<1>2. CASE UNCHANGED vars
  <2>1. UNCHANGED <<memory, captured, tasks, stream, running, pc, sync, layer>>
    BY <1>2 DEF vars, memory
  <2>2. InUse' /\ Built'
    BY <2>1, CurrentKept DEF MemoryInv, InUse, Built, Run, memory
  <2> QED BY <2>1, <2>2, MemoryKept
<1> QED BY <1>1, <1>2

LEMMA MemorySafe == ASSUME HandInv, MemoryInv PROVE UsesLiveMemory
<1>1. ASSUME NEW o \in Live(hist_requests), NEW group \in Range(hist_requests[o]) PROVE InForce(group)
  <2>1. o \in Objects
    BY DEF Live
  <2>2. PICK i \in DOMAIN hist_requests[o] : group = hist_requests[o][i]
    BY DEF Range
  <2>3. DOMAIN hist_requests[o] = 1 .. Len(hist_requests[o])
    BY <2>1 DEF MemoryInv, AllArranged
  <2>4. Arranged(group, buffer) /\ buffer.size \in Nat
    BY <2>1, <2>2, <2>3 DEF MemoryInv, AllArranged
  <2> QED BY <2>4, ArrangedInForce
<1>2. ASSUME NEW t, Current(t) PROVE NamesLive(t) \/ StaleReplay(t)
  <2>1. CASE StaleReplay(t)
    BY <2>1
  <2>2. CASE t.obj = op[t.layer]
    <3>1. t.layer \in Ops /\ op[t.layer] # 0
      BY <1>2 DEF Current
    <3>2. t.obj \in Objects
      BY <2>2, <3>1 DEF MemoryInv, OneObjectEach
    <3> QED BY <2>2, <3>1, <3>2 DEF MemoryInv, OneObjectEach, NamesLive
  <2> QED BY <1>2, <2>1, <2>2 DEF Current
<1>3. ASSUME NEW t \in Range(tasks) PROVE NamesLive(t) \/ StaleReplay(t)
  <2>1. PICK i \in DOMAIN tasks : t = tasks[i]
    BY DEF Range
  <2>2. i \in 1 .. Len(tasks)
    BY <2>1 DEF HandInv, Shapes
  <2> QED BY <1>2, <2>1, <2>2 DEF MemoryInv, InUse
<1>4. running # <<>> => /\ NamesLive(Run.task) \/ StaleReplay(Run.task)
                       /\ Run.allocation = buffer.allocation
  BY <1>2 DEF MemoryInv, InUse
<1> QED BY <1>1, <1>3, <1>4 DEF UsesLiveMemory

(* Whatever is built, rebuilt or grown in between, all scratch memory is   *)
(* in the block in force, and the operators in use are alive and those of  *)
(* their layers, unless a graph captured before a reload is replayed.      *)
THEOREM ScratchMemoryAlive == Spec => []UsesLiveMemory
<1>1. Spec => [](HandInv /\ MemoryInv)
  <2>1. Init => HandInv /\ MemoryInv
    BY HandInit, MemoryInit
  <2>2. HandInv /\ MemoryInv /\ [Next]_vars => (HandInv /\ MemoryInv)'
    BY HandNext, MemoryNext
  <2> QED BY <2>1, <2>2, PTL DEF Spec
<1>2. HandInv /\ MemoryInv => UsesLiveMemory
  BY MemorySafe
<1> QED BY <1>1, <1>2, PTL

-----------------------------------------------------------------------------
(* The rows forward_many gathers by expert.                                *)
Group(g) ==
  /\ DOMAIN g = 1 .. Len(g) /\ Len(g) \in Nat
  /\ \A i \in 1 .. Len(g) :
       /\ DOMAIN g[i] = 1 .. Len(g[i]) /\ Len(g[i]) \in Nat
       /\ \A j \in 1 .. Len(g[i]) : g[i][j].id \in Experts

LEMMA RoutesOf ==
  ASSUME NEW g, Group(g)
  PROVE  /\ IsFiniteSet(Routes(g))
         /\ \A r \in Routes(g) :
              /\ r = <<r[1], r[2]>> /\ r[1] \in 1 .. Len(g) /\ r[2] \in 1 .. Len(g[r[1]])
              /\ r[1] \in Int /\ r[2] \in Int /\ Id(g, r) \in Experts
         /\ \A i \in 1 .. Len(g) : \A j \in 1 .. Len(g[i]) : <<i, j>> \in Routes(g)
<1> PICK n : n = Len(g)
  OBVIOUS
<1> PICK f : f = [i \in 1 .. n |-> {i} \X DOMAIN g[i]]
  OBVIOUS
<1>1. DOMAIN g = 1 .. n /\ n \in Nat
  BY DEF Group
<1>2. Routes(g) = UNION {f[i] : i \in 1 .. n}
  BY <1>1 DEF Routes
<1>3. \A i \in 1 .. n : f[i] = {i} \X (1 .. Len(g[i])) /\ Len(g[i]) \in Nat
  BY <1>1 DEF Group
<1>4. IsFiniteSet(Routes(g))
  <2> DEFINE F == {f[i] : i \in 1 .. n}
  <2>1. f \in Surjection(1 .. n, F)
    BY DEF Surjection
  <2>2. IsFiniteSet(1 .. n)
    BY <1>1, FS_Interval
  <2>3. IsFiniteSet(F)
    BY <2>1, <2>2, FS_Surjection
  <2>4. \A T \in F : IsFiniteSet(T)
    <3> SUFFICES ASSUME NEW i \in 1 .. n PROVE IsFiniteSet(f[i])
      OBVIOUS
    <3>1. PICK k \in Nat : k = Len(g[i])
      BY <1>3
    <3>2. IsFiniteSet({i}) /\ IsFiniteSet(1 .. k)
      <4>1. IsFiniteSet(1 .. k)
        <5>1. 1 \in Int /\ k \in Int
          OBVIOUS
        <5> QED BY <5>1, FS_Interval
      <4> QED BY <4>1, FS_Singleton
    <3> QED BY <1>3, <3>1, <3>2, FS_Product
  <2> HIDE DEF F
  <2>5. IsFiniteSet(UNION F)
    BY <2>3, <2>4, FS_UNION
  <2> QED BY <1>2, <2>5 DEF F
<1>5. ASSUME NEW r \in Routes(g)
      PROVE  /\ r = <<r[1], r[2]>> /\ r[1] \in 1 .. n /\ r[2] \in 1 .. Len(g[r[1]])
             /\ r[1] \in Int /\ r[2] \in Int /\ Id(g, r) \in Experts
  <2>1. PICK i \in 1 .. n : r \in {i} \X (1 .. Len(g[i]))
    BY <1>2, <1>3
  <2>2. r = <<r[1], r[2]>> /\ r[1] = i /\ r[2] \in 1 .. Len(g[i])
    BY <2>1
  <2>3. g[i][r[2]].id \in Experts
    BY <2>2 DEF Group
  <2> QED BY <1>1, <1>3, <2>2, <2>3 DEF Id
<1>6. ASSUME NEW i \in 1 .. n, NEW j \in 1 .. Len(g[i]) PROVE <<i, j>> \in Routes(g)
  BY <1>2, <1>3
<1> QED BY <1>4, <1>5, <1>6

LEMMA LocalsType ==
  ASSUME NEW g, Group(g), NEW e
  PROVE  /\ IsFiniteSet({r \in Routes(g) : Id(g, r) = e})
         /\ LocalNum(g, e) \in Nat /\ LocalOffset(g, e) \in Nat
<1>1. IsFiniteSet(Routes(g))
  BY RoutesOf
<1>2. /\ IsFiniteSet({r \in Routes(g) : Id(g, r) = e})
      /\ IsFiniteSet({r \in Routes(g) : Id(g, r) < e})
  BY <1>1, FS_Subset
<1> QED BY <1>2, FS_CardinalityType DEF LocalNum, LocalOffset

(* The rows of an expert come before those of the next ...                 *)
LEMMA RowsApart ==
  ASSUME NEW g, Group(g), NEW d \in Experts, NEW e \in Experts, d < e
  PROVE  LocalOffset(g, d) + LocalNum(g, d) <= LocalOffset(g, e)
<1> DEFINE A == {r \in Routes(g) : Id(g, r) < d}
           B == {r \in Routes(g) : Id(g, r) = d}
           C == {r \in Routes(g) : Id(g, r) < e}
<1>1. IsFiniteSet(A) /\ IsFiniteSet(B) /\ IsFiniteSet(C)
  BY RoutesOf, FS_Subset
<1>2. \A r \in Routes(g) : Id(g, r) \in Int
  BY RoutesOf DEF Experts
<1>3. A \cap B = {} /\ A \cup B \subseteq C
  BY <1>2 DEF Experts
<1> HIDE DEF A, B, C
<1>4. Cardinality(A \cap B) = 0
  BY <1>3, FS_EmptySet
<1>5. /\ Cardinality(A \cup B) = Cardinality(A) + Cardinality(B) - Cardinality(A \cap B)
      /\ Cardinality(A \cup B) <= Cardinality(C)
  BY <1>1, <1>3, FS_Union, FS_Subset
<1>6. Cardinality(A) \in Nat /\ Cardinality(B) \in Nat /\ Cardinality(C) \in Nat
  BY <1>1, FS_CardinalityType
<1>7. Cardinality(A) + Cardinality(B) <= Cardinality(C)
  BY <1>4, <1>5, <1>6
<1> QED BY <1>7 DEF LocalOffset, LocalNum, A, B, C

(* ... and those of one expert are in the order of their routes.           *)
LEMMA RowsOrdered ==
  ASSUME NEW g, Group(g), NEW r \in Routes(g)
  PROVE  /\ LocalPos(g, r) \in Nat /\ LocalPos(g, r) < LocalNum(g, Id(g, r))
         /\ \A q \in Routes(g) :
              Id(g, q) = Id(g, r) /\ Before(q, r) => LocalPos(g, q) < LocalPos(g, r)
<1> DEFINE S == {q \in Routes(g) : Id(g, q) = Id(g, r)}
           B(p) == {q \in Routes(g) : Id(g, q) = Id(g, p) /\ Before(q, p)}
<1>1. \A q \in Routes(g) : q[1] \in Int /\ q[2] \in Int
  BY RoutesOf
<1>2. IsFiniteSet(S) /\ IsFiniteSet(B(r))
  BY RoutesOf, FS_Subset
<1>3. B(r) \subseteq S /\ r \in S /\ r \notin B(r)
  BY <1>1 DEF Before
<1>4. Cardinality(B(r)) \in Nat /\ Cardinality(S) \in Nat
  BY <1>2, FS_CardinalityType
<1>5. Cardinality(B(r)) < Cardinality(S)
  <2> HIDE DEF S, B
  <2>1. /\ Cardinality(B(r)) <= Cardinality(S)
        /\ Cardinality(S) = Cardinality(B(r)) => S = B(r)
    BY <1>2, <1>3, FS_Subset
  <2> QED BY <1>3, <1>4, <2>1
<1>6. ASSUME NEW q \in Routes(g), Id(g, q) = Id(g, r), Before(q, r)
      PROVE  LocalPos(g, q) < LocalPos(g, r)
  <2>1. B(q) \subseteq B(r) /\ q \in B(r) /\ q \notin B(q)
    BY <1>1, <1>6 DEF Before
  <2> HIDE DEF B
  <2>2. /\ Cardinality(B(q)) <= Cardinality(B(r)) /\ IsFiniteSet(B(q))
        /\ Cardinality(B(r)) = Cardinality(B(q)) => B(r) = B(q)
    BY <1>2, <2>1, FS_Subset
  <2>3. Cardinality(B(q)) \in Nat
    BY <2>2, FS_CardinalityType
  <2>4. Cardinality(B(q)) < Cardinality(B(r))
    BY <1>4, <2>1, <2>2, <2>3
  <2> QED BY <2>4 DEF LocalPos, B
<1> QED BY <1>4, <1>5, <1>6 DEF LocalPos, LocalNum

(* Each row is of one token and one expert. *)
LEMMA RowsOwned ==
  ASSUME NEW g, Group(g), NEW r \in Routes(g)
  PROVE  ExpertOfRow(g, Row(g, r)) = Id(g, r) /\ TokenInRow(g, Row(g, r)) = r[1]
<1> DEFINE Rows(e) == LocalOffset(g, e) .. LocalOffset(g, e) + LocalNum(g, e) - 1
<1>1. ASSUME NEW q \in Routes(g)
      PROVE  Id(g, q) \in Experts /\ Row(g, q) \in Rows(Id(g, q)) /\ Row(g, q) \in Int
  <2>1. Id(g, q) \in Experts
    BY RoutesOf
  <2>2. PICK e : e = Id(g, q)
    OBVIOUS
  <2>3. /\ LocalOffset(g, e) \in Nat /\ LocalNum(g, e) \in Nat
        /\ LocalPos(g, q) \in Nat /\ LocalPos(g, q) < LocalNum(g, e)
    BY <2>2, RowsOrdered, LocalsType
  <2>4. Row(g, q) = LocalOffset(g, e) + LocalPos(g, q)
    BY <2>2 DEF Row
  <2> QED BY <2>1, <2>2, <2>3, <2>4
<1>2. ASSUME NEW d \in Experts, NEW e \in Experts, d # e, NEW x \in Rows(d), x \in Rows(e)
      PROVE  FALSE
  <2>1. /\ LocalOffset(g, d) \in Nat /\ LocalNum(g, d) \in Nat
        /\ LocalOffset(g, e) \in Nat /\ LocalNum(g, e) \in Nat /\ d \in Int /\ e \in Int
    <3>1. d \in Int /\ e \in Int
      BY ConstantsType DEF Experts
    <3>2. LocalOffset(g, d) \in Nat /\ LocalNum(g, d) \in Nat
      BY LocalsType
    <3>3. LocalOffset(g, e) \in Nat /\ LocalNum(g, e) \in Nat
      BY LocalsType
    <3> QED BY <3>1, <3>2, <3>3
  <2>2. CASE d < e
    <3>1. LocalOffset(g, d) + LocalNum(g, d) <= LocalOffset(g, e)
      BY <2>2, RowsApart
    <3> QED BY <1>2, <2>1, <3>1
  <2>3. CASE e < d
    <3>1. LocalOffset(g, e) + LocalNum(g, e) <= LocalOffset(g, d)
      BY <2>3, RowsApart
    <3> QED BY <1>2, <2>1, <3>1
  <2> QED BY <1>2, <2>1, <2>2, <2>3
<1>3. ExpertOfRow(g, Row(g, r)) = Id(g, r)
  <2> DEFINE E == {e \in Experts : Row(g, r) \in Rows(e)}
  <2>1. Id(g, r) \in E /\ \A e \in E : e = Id(g, r)
    <3>1. Id(g, r) \in E
      BY <1>1
    <3>2. ASSUME NEW e \in E PROVE e = Id(g, r)
      BY <1>1, <1>2
    <3> QED BY <3>1, <3>2
  <2> QED BY <2>1 DEF ExpertOfRow
<1>4. ASSUME NEW q \in Routes(g), Row(g, q) = Row(g, r) PROVE q[1] = r[1]
  <2>1. Id(g, q) = Id(g, r)
    BY <1>1, <1>2, <1>4
  <2>2. LocalPos(g, q) = LocalPos(g, r) /\ LocalPos(g, r) \in Nat
    <3>1. LocalOffset(g, Id(g, r)) \in Nat /\ LocalPos(g, r) \in Nat /\ LocalPos(g, q) \in Nat
      BY LocalsType, RowsOrdered
    <3>2. LocalOffset(g, Id(g, r)) + LocalPos(g, q) = LocalOffset(g, Id(g, r)) + LocalPos(g, r)
      BY <1>4, <2>1 DEF Row
    <3> QED BY <3>1, <3>2
  <2>3. ~Before(q, r) /\ ~Before(r, q)
    BY <2>1, <2>2, RowsOrdered
  <2>4. q[1] \in Int /\ r[1] \in Int
    BY RoutesOf
  <2> QED BY <2>3, <2>4 DEF Before
<1>5. TokenInRow(g, Row(g, r)) = r[1]
  <2> PICK p : p = CHOOSE q \in Routes(g) : Row(g, q) = Row(g, r)
    OBVIOUS
  <2>1. p \in Routes(g) /\ Row(g, p) = Row(g, r)
    OBVIOUS
  <2>2. p[1] = r[1]
    BY <1>4, <2>1
  <2> QED BY <2>2 DEF TokenInRow
<1> QED BY <1>3, <1>5

(* However the rows are gathered, forward_many adds what forward_one would *)
(* for each token.                                                         *)
LEMMA ManyAsOne ==
  ASSUME NEW g, Group(g), NEW at
  PROVE  ForwardMany(g, at) = [i \in 1 .. Len(g) |-> ForwardOne(g[i], at + i)]
<1>1. ASSUME NEW i \in 1 .. Len(g), NEW j \in 1 .. Len(g[i])
      PROVE  /\ ExpertOfRow(g, Row(g, <<i, j>>)) = g[i][j].id
             /\ TokenInRow(g, Row(g, <<i, j>>)) = i
  <2> PICK r : r = <<i, j>>
    OBVIOUS
  <2>1. r \in Routes(g) /\ r[1] = i /\ r[2] = j
    BY RoutesOf
  <2>2. ExpertOfRow(g, Row(g, r)) = Id(g, r) /\ TokenInRow(g, Row(g, r)) = r[1]
    BY <2>1, RowsOwned
  <2> QED BY <2>1, <2>2 DEF Id
<1>2. ASSUME NEW i \in 1 .. Len(g)
      PROVE  {[id |-> ExpertOfRow(g, Row(g, <<i, j>>)), token |-> at + TokenInRow(g, Row(g, <<i, j>>)),
               weight |-> g[i][j].weight] : j \in DOMAIN g[i]} = ForwardOne(g[i], at + i)
  <2>1. DOMAIN g[i] = 1 .. Len(g[i])
    BY DEF Group
  <2> QED BY <1>1, <2>1 DEF ForwardOne
<1>3. DOMAIN g = 1 .. Len(g)
  BY DEF Group
<1> QED BY <1>2, <1>3 DEF ForwardMany

(* What a token gets from the experts the CPU was given. *)
Given(ids, cpu, i) ==
  {[id |-> ids[k], token |-> i, weight |-> k] :
     k \in {h \in 1 .. TopK : ids[h] \in IF conf.router = "stream" THEN Experts ELSE Range(cpu)}}

LEMMA RoutingShape ==
  ASSUME NEW ids \in Routings
  PROVE  /\ ids \in [1 .. TopK -> Experts]
         /\ \A h, k \in 1 .. TopK : ids[h] = ids[k] => h = k
BY CPUExpertsAssumption DEF Injection, IsInjective, Experts

LEMMA AppendRange ==
  ASSUME NEW S, NEW q \in Seq(S), NEW e
  PROVE  \A x : x \in Range(Append(q, e)) <=> x \in Range(q) \/ x = e
<1> PICK n : n = Len(q)
  OBVIOUS
<1> PICK u : u = Append(q, e)
  OBVIOUS
<1>1. n \in Nat /\ DOMAIN q = 1 .. n /\ DOMAIN u = 1 .. n + 1
  OBVIOUS
<1>2. (\A i \in 1 .. n : u[i] = q[i]) /\ u[n + 1] = e
  BY AppendSeq
<1>3. \A x : x \in Range(q) <=> \E i \in 1 .. n : q[i] = x
  BY <1>1 DEF Range
<1>4. \A x : x \in Range(u) <=> \E i \in 1 .. n + 1 : u[i] = x
  BY <1>1 DEF Range
<1> SUFFICES ASSUME NEW x PROVE x \in Range(u) <=> x \in Range(q) \/ x = e
  OBVIOUS
<1>5. ASSUME NEW i \in 1 .. n + 1, u[i] = x PROVE x \in Range(q) \/ x = e
  <2>1. i \in 1 .. n \/ i = n + 1
    BY <1>1
  <2> QED BY <1>2, <1>3, <1>5, <2>1
<1>6. (\A i \in 1 .. n : i \in 1 .. n + 1) /\ n + 1 \in 1 .. n + 1
  BY <1>1
<1> QED BY <1>2, <1>3, <1>4, <1>5, <1>6

(* The loop over cpu_idxs. *)
Weighted(ids, cpu, n) ==
  [m \in 1 .. n |-> [id |-> cpu[m], weight |-> CHOOSE k \in 1 .. TopK : ids[k] = cpu[m]]]

LEMMA ChosenByHost ==
  ASSUME conf.router = "host", NEW ids \in Routings, NEW cpu, NEW n \in Nat, n = Len(cpu),
         NEW rec, rec = Weighted(ids, cpu, n)
  PROVE  /\ Chosen(ids, cpu) \in Seq(Range(rec))
         /\ \A x : x \in Range(Chosen(ids, cpu)) <=>
                   \E m \in 1 .. n : cpu[m] \in Range(ids) /\ x = rec[m]
<1>0. rec = [m \in 1 .. n |->
              [id |-> cpu[m], weight |-> CHOOSE k \in 1 .. TopK : ids[k] = cpu[m]]]
  BY DEF Weighted
<1> PICK S, U : S = Seq(Range(rec)) /\ U = Range(ids)
  OBVIOUS
<1> PICK step : step = [m \in 1 .. n |-> [q \in S |-> IF cpu[m] \notin U THEN q ELSE Append(q, rec[m])]]
  OBVIOUS
<1>1. step \in [1 .. n -> [S -> S]]
  <2> SUFFICES ASSUME NEW m \in 1 .. n, NEW q \in S
               PROVE  (IF cpu[m] \notin U THEN q ELSE Append(q, rec[m])) \in S
    OBVIOUS
  <2>1. rec[m] \in Range(rec)
    BY <1>0 DEF Range
  <2> QED BY <2>1
<1>2. <<>> \in S
  OBVIOUS
<1>3. PICK g \in [0 .. n -> S] : Recurs(g, n, <<>>, step)
  BY <1>1, <1>2, StepsExist
<1> DEFINE F(f) == [m \in 0 .. n |-> IF m = 0 THEN <<>>
                      ELSE IF cpu[m] \notin Range(ids) THEN f[m - 1]
                      ELSE Append(f[m - 1], [id |-> cpu[m],
                             weight |-> CHOOSE k \in 1 .. TopK : ids[k] = cpu[m]])]
<1>4. g = F(g)
  <2>1. ASSUME NEW m \in 0 .. n, m # 0
        PROVE g[m] = IF cpu[m] \notin Range(ids) THEN g[m - 1]
                     ELSE Append(g[m - 1], [id |-> cpu[m],
                            weight |-> CHOOSE k \in 1 .. TopK : ids[k] = cpu[m]])
    <3>1. m \in 1 .. n /\ g[m - 1] \in S
      BY <1>3, <2>1
    <3>2. g[m] = step[m][g[m - 1]]
      BY <1>3, <3>1 DEF Recurs
    <3> QED BY <1>0, <3>1, <3>2
  <2>2. g[0] = <<>>
    BY <1>3 DEF Recurs
  <2>3. g = [m \in 0 .. n |-> g[m]]
    OBVIOUS
  <2> QED BY <2>1, <2>2, <2>3
<1>5. PICK f : f = CHOOSE h : h = F(h)
  OBVIOUS
<1>6. f = F(f)
  BY <1>4, <1>5
<1>7. Chosen(ids, cpu) = f[n]
  BY <1>5 DEF Chosen
<1>8. /\ f[0] = <<>>
      /\ \A m \in 1 .. n : f[m] = IF cpu[m] \notin U THEN f[m - 1] ELSE Append(f[m - 1], rec[m])
  <2>1. \A m \in 0 .. n : f[m] = IF m = 0 THEN <<>>
                      ELSE IF cpu[m] \notin Range(ids) THEN f[m - 1]
                      ELSE Append(f[m - 1], [id |-> cpu[m],
                             weight |-> CHOOSE k \in 1 .. TopK : ids[k] = cpu[m]])
    BY <1>6
  <2> HIDE DEF F
  <2>2. ASSUME NEW m \in 1 .. n
        PROVE f[m] = IF cpu[m] \notin U THEN f[m - 1] ELSE Append(f[m - 1], rec[m])
    <3>1. m \in 0 .. n /\ m # 0
      OBVIOUS
    <3>2. rec[m] = [id |-> cpu[m], weight |-> CHOOSE k \in 1 .. TopK : ids[k] = cpu[m]]
      BY <1>0
    <3> QED BY <2>1, <3>1, <3>2, Zenon
  <2>3. 0 \in 0 .. n
    OBVIOUS
  <2> QED BY <2>1, <2>2, <2>3, Zenon
<1> HIDE DEF F
<1> DEFINE Good(m) == /\ f[m] \in S
                      /\ \A x : x \in Range(f[m]) <=> \E l \in 1 .. m : cpu[l] \in U /\ x = rec[l]
           Bad == {m \in 0 .. n : ~Good(m)}
<1>9. Bad = {}
  <2> SUFFICES ASSUME Bad # {} PROVE FALSE
    OBVIOUS
  <2>1. PICK m \in Bad : \A k \in Bad : m <= k
    <3>1. Bad \in SUBSET Nat
      OBVIOUS
    <3> HIDE DEF Bad
    <3> QED BY <3>1, Least
  <2>2. m # 0
    <3>1. Good(0)
      <4>1. \A x : x \notin Range(<<>>)
        BY DEF Range
      <4> QED BY <1>2, <1>8, <4>1
    <3> QED BY <2>1, <3>1
  <2>3. m \in 1 .. n /\ m - 1 \in 0 .. n /\ m - 1 \notin Bad /\ m - 1 \in Nat
    <3>1. m \in 0 .. n
      BY <2>1
    <3>2. m \in 1 .. n /\ m - 1 \in 0 .. n /\ ~(m <= m - 1) /\ m - 1 \in Nat
      BY <2>2, <3>1
    <3> HIDE DEF Bad
    <3> QED BY <2>1, <3>2
  <2>4. Good(m - 1)
    BY <2>3
  <2>5. Good(m)
    <3> PICK q : q = f[m - 1]
      OBVIOUS
    <3>1. q \in S /\ \A x : x \in Range(q) <=> \E l \in 1 .. m - 1 : cpu[l] \in U /\ x = rec[l]
      BY <2>4
    <3>2. \A l : l \in 1 .. m <=> l \in 1 .. m - 1 \/ l = m
      BY <2>3
    <3>3. CASE cpu[m] \notin U
      <4>1. f[m] = q
        BY <1>8, <2>3, <3>3
      <4> QED BY <3>1, <3>2, <3>3, <4>1, Zenon
    <3>4. CASE cpu[m] \in U
      <4>1. f[m] = Append(q, rec[m]) /\ rec[m] \in Range(rec)
        BY <1>0, <1>8, <2>3, <3>4 DEF Range
      <4>2. f[m] \in S
        BY <3>1, <4>1
      <4>3. \A x : x \in Range(f[m]) <=> x \in Range(q) \/ x = rec[m]
        <5>1. q \in Seq(Range(rec))
          BY <3>1
        <5> PICK T, e : T = Range(rec) /\ e = rec[m]
          OBVIOUS
        <5>2. q \in Seq(T)
          BY <5>1
        <5>3. \A x : x \in Range(Append(q, e)) <=> x \in Range(q) \/ x = e
          BY <5>2, AppendRange
        <5>4. f[m] = Append(q, e)
          BY <4>1
        <5> QED BY <5>3, <5>4
      <4> QED BY <3>1, <3>2, <3>4, <4>2, <4>3, Zenon
    <3> QED BY <3>3, <3>4
  <2> QED BY <2>1, <2>5
<1>10. Good(n)
  <2>1. n \in 0 .. n
    OBVIOUS
  <2> HIDE DEF Good
  <2> QED BY <1>9, <2>1
<1> QED BY <1>7, <1>10

(* Whatever the order of the experts in a batch, a token gets each once.   *)
LEMMA ChosenGiven ==
  ASSUME conf \in Configs, NEW ids \in Routings, NEW cpu,
         conf.router = "host" => Len(cpu) \in Nat /\ DOMAIN cpu = 1 .. Len(cpu),
         NEW c, c = Chosen(ids, cpu)
  PROVE  /\ DOMAIN c = 1 .. Len(c) /\ Len(c) \in Nat
         /\ \A j \in 1 .. Len(c) : c[j].id \in Experts
         /\ \A i : ForwardOne(c, i) = Given(ids, cpu, i)
<1>1. /\ ids \in [1 .. TopK -> Experts] /\ TopK \in Nat
      /\ \A h, k \in 1 .. TopK : ids[h] = ids[k] => h = k
  BY RoutingShape, ConstantsType
<1>2. CASE conf.router = "stream"
  <2>1. c = [j \in 1 .. TopK |-> [id |-> ids[j], weight |-> j]]
    BY <1>2 DEF Chosen
  <2>2. DOMAIN c = 1 .. TopK /\ Len(c) = TopK
    BY <1>1, <2>1
  <2>3. \A j \in 1 .. TopK : c[j].id = ids[j] /\ c[j].weight = j /\ ids[j] \in Experts
    BY <1>1, <2>1
  <2>4. ASSUME NEW i PROVE ForwardOne(c, i) = Given(ids, cpu, i)
    <3>1. ForwardOne(c, i) = {[id |-> ids[k], token |-> i, weight |-> k] : k \in 1 .. TopK}
      BY <2>2, <2>3 DEF ForwardOne
    <3>2. {h \in 1 .. TopK : ids[h] \in IF conf.router = "stream" THEN Experts ELSE Range(cpu)}
            = 1 .. TopK
      BY <1>2, <2>3
    <3> QED BY <3>1, <3>2 DEF Given
  <2> QED BY <1>1, <2>2, <2>3, <2>4
<1>3. CASE conf.router = "host"
  <2> PICK n \in Nat : n = Len(cpu)
    BY <1>3
  <2> PICK rec : rec = Weighted(ids, cpu, n)
    OBVIOUS
  <2>1. /\ c \in Seq(Range(rec))
        /\ \A x : x \in Range(c) <=> \E m \in 1 .. n : cpu[m] \in Range(ids) /\ x = rec[m]
    BY <1>3, ChosenByHost
  <2>2. DOMAIN c = 1 .. Len(c) /\ Len(c) \in Nat
    BY <2>1
  <2>3. ASSUME NEW m \in 1 .. n, cpu[m] \in Range(ids)
        PROVE  \E k \in 1 .. TopK : /\ ids[k] = cpu[m]
                                    /\ rec[m].id = ids[k] /\ rec[m].weight = k
    <3>1. PICK k \in 1 .. TopK : ids[k] = cpu[m]
      BY <1>1, <2>3 DEF Range
    <3>2. \A h \in 1 .. TopK : ids[h] = cpu[m] => h = k
      BY <1>1, <3>1
    <3>3. (CHOOSE h \in 1 .. TopK : ids[h] = cpu[m]) = k
      BY <3>1, <3>2
    <3>4. rec[m] = [id |-> cpu[m], weight |-> CHOOSE h \in 1 .. TopK : ids[h] = cpu[m]]
      BY DEF Weighted
    <3> QED BY <3>1, <3>3, <3>4
  <2>4. DOMAIN cpu = 1 .. n
    BY <1>3
  <2>5. ASSUME NEW j \in 1 .. Len(c)
        PROVE  \E k \in 1 .. TopK : /\ c[j].id = ids[k] /\ c[j].weight = k
                                    /\ ids[k] \in Range(cpu) /\ ids[k] \in Experts
    <3>1. c[j] \in Range(c)
      BY <2>2 DEF Range
    <3>2. PICK m \in 1 .. n : cpu[m] \in Range(ids) /\ c[j] = rec[m]
      BY <2>1, <3>1
    <3>3. cpu[m] \in Range(cpu)
      BY <2>4 DEF Range
    <3> QED BY <1>1, <2>3, <3>2, <3>3
  <2>6. ASSUME NEW k \in 1 .. TopK, ids[k] \in Range(cpu)
        PROVE  \E j \in 1 .. Len(c) : c[j].id = ids[k] /\ c[j].weight = k
    <3>1. PICK m \in 1 .. n : cpu[m] = ids[k]
      BY <2>4, <2>6 DEF Range
    <3>2. ids[k] \in Range(ids)
      BY <1>1 DEF Range
    <3>3. PICK h \in 1 .. TopK : ids[h] = cpu[m] /\ rec[m].id = ids[h] /\ rec[m].weight = h
      BY <2>3, <3>1, <3>2
    <3>4. h = k
      BY <1>1, <3>1, <3>3
    <3>5. rec[m] \in Range(c)
      BY <2>1, <3>1, <3>2
    <3>6. PICK j \in DOMAIN c : c[j] = rec[m]
      BY <3>5 DEF Range
    <3> QED BY <2>2, <3>3, <3>4, <3>6
  <2>7. ASSUME NEW i PROVE ForwardOne(c, i) = Given(ids, cpu, i)
    <3>1. Given(ids, cpu, i) = {[id |-> ids[k], token |-> i, weight |-> k] :
                                  k \in {h \in 1 .. TopK : ids[h] \in Range(cpu)}}
      BY <1>3 DEF Given
    <3>2. ForwardOne(c, i) = {[id |-> c[j].id, token |-> i, weight |-> c[j].weight] : j \in 1 .. Len(c)}
      BY <2>2 DEF ForwardOne
    <3>3. ASSUME NEW x \in ForwardOne(c, i) PROVE x \in Given(ids, cpu, i)
      <4>1. PICK j \in 1 .. Len(c) : x = [id |-> c[j].id, token |-> i, weight |-> c[j].weight]
        BY <3>2, <3>3
      <4>2. PICK k \in 1 .. TopK : c[j].id = ids[k] /\ c[j].weight = k /\ ids[k] \in Range(cpu)
        BY <2>5
      <4> QED BY <3>1, <4>1, <4>2
    <3>4. ASSUME NEW x \in Given(ids, cpu, i) PROVE x \in ForwardOne(c, i)
      <4>1. PICK k \in 1 .. TopK : ids[k] \in Range(cpu) /\ x = [id |-> ids[k], token |-> i, weight |-> k]
        BY <3>1, <3>4
      <4>2. PICK j \in 1 .. Len(c) : c[j].id = ids[k] /\ c[j].weight = k
        BY <2>6, <4>1
      <4> QED BY <3>2, <4>1, <4>2
    <3> QED BY <3>3, <3>4
  <2>8. \A j \in 1 .. Len(c) : c[j].id \in Experts
    BY <2>5
  <2> QED BY <2>2, <2>7, <2>8
<1> QED BY <1>2, <1>3, CPUExpertsAssumption

-----------------------------------------------------------------------------
(* What Python submits for a prefill, and how far the worker is with it. *)
PrefillShape(t) ==
  /\ DOMAIN t.batch = 1 .. Len(t.batch) /\ Len(t.batch) \in Nat
  /\ \A i \in 1 .. Len(t.batch) : t.routed[i] \in Routings
  /\ conf.router = "host" => Len(t.cpu) \in Nat /\ DOMAIN t.cpu = 1 .. Len(t.cpu)
  /\ t.batch = [i \in 1 .. Len(t.batch) |-> Chosen(t.routed[i], t.cpu)]

ShareInv ==
  /\ conf \in Configs
  /\ \A i \in 1 .. Len(tasks) : tasks[i].kind = "prefill" => PrefillShape(tasks[i])
  /\ running # <<>> /\ Run.task.kind = "prefill" =>
       /\ PrefillShape(Run.task)
       /\ Run.at \in 0 .. Len(Run.task.batch)
       /\ Run.out = [i \in 1 .. Run.at |-> ForwardOne(Run.task.batch[i], i)]

LEMMA ShareInit == Init => ShareInv
<1> SUFFICES ASSUME Init PROVE ShareInv
  OBVIOUS
<1>1. tasks = <<>> /\ running = <<>> /\ conf \in Configs
  BY DEF Init
<1> QED BY <1>1 DEF ShareInv

LEMMA ShapeKept == ASSUME conf' = conf PROVE \A t : PrefillShape(t)' <=> PrefillShape(t)
BY DEF PrefillShape, Chosen

(* A task is added to the queue, or none. *)
LEMMA ShareSubmits ==
  ASSUME HandInv, ShareInv, conf' = conf, running' = running, NEW t,
         tasks' = tasks \/ (tasks' = Append(tasks, t) /\ (t.kind = "prefill" => PrefillShape(t)))
  PROVE  ShareInv'
<1>1. Run' = Run
  BY DEF Run
<1>2. \A i \in 1 .. Len(tasks') : tasks'[i].kind = "prefill" => PrefillShape(tasks'[i])
  <2>1. CASE tasks' = tasks
    BY <2>1 DEF ShareInv
  <2>2. CASE tasks' = Append(tasks, t) /\ (t.kind = "prefill" => PrefillShape(t))
    <3> PICK q : q = tasks
      OBVIOUS
    <3>1. PICK S : q \in Seq(S)
      BY DEF HandInv, Shapes
    <3>2. /\ Len(Append(q, t)) = Len(q) + 1 /\ Len(q) \in Nat
          /\ \A i \in 1 .. Len(q) : Append(q, t)[i] = q[i]
          /\ Append(q, t)[Len(q) + 1] = t
      BY <3>1, AppendSeq
    <3> PICK u : u = Append(q, t)
      OBVIOUS
    <3>3. tasks' = u /\ Len(u) = Len(q) + 1 /\ u[Len(q) + 1] = t /\ \A i \in 1 .. Len(q) : u[i] = q[i]
      BY <2>2, <3>2
    <3>4. \A i \in 1 .. Len(q) : q[i].kind = "prefill" => PrefillShape(q[i])
      BY DEF ShareInv
    <3>5. \A i \in 1 .. Len(u) : i \in 1 .. Len(q) \/ i = Len(q) + 1
      BY <3>2, <3>3
    <3> QED BY <2>2, <3>3, <3>4, <3>5
  <2> QED BY <2>1, <2>2
<1> QED BY <1>1, <1>2, ShapeKept DEF ShareInv

LEMMA PrefillSubmits ==
  ASSUME ShareInv, PrefillLayer
  PROVE  \E t : tasks' = Append(tasks, t) /\ PrefillShape(t)
<1>1. PICK n \in 2 .. MaxPrompt : \E routed \in [1 .. n -> Routings] :
         \E cpu \in CpuIdxs(routed) : Submit(PrefillTask(layer, routed, cpu))
  BY DEF PrefillLayer
<1>0. PICK routed \in [1 .. n -> Routings] : \E cpu \in CpuIdxs(routed) :
         Submit(PrefillTask(layer, routed, cpu))
  BY <1>1
<1>2. PICK cpu \in CpuIdxs(routed) : Submit(PrefillTask(layer, routed, cpu))
  BY <1>0
<1> PICK batch : batch = [i \in DOMAIN routed |-> Chosen(routed[i], cpu)]
  OBVIOUS
<1> PICK t : t = PrefillTask(layer, routed, cpu)
  OBVIOUS
<1>3. t.batch = batch /\ t.routed = routed /\ t.cpu = cpu
  BY DEF PrefillTask, Task
<1>4. n \in Nat /\ DOMAIN batch = 1 .. n /\ batch = [i \in 1 .. n |-> Chosen(routed[i], cpu)]
  OBVIOUS
<1>5. Len(batch) = n
  BY <1>4
<1>6. conf.router = "host" => Len(cpu) \in Nat /\ DOMAIN cpu = 1 .. Len(cpu)
  <2> SUFFICES ASSUME conf.router = "host" PROVE Len(cpu) \in Nat /\ DOMAIN cpu = 1 .. Len(cpu)
    OBVIOUS
  <2> DEFINE used == UNION {Range(routed[i]) : i \in DOMAIN routed}
  <2>1. cpu \in UNION {[1 .. m -> used] : m \in 1 .. NumExperts}
    BY DEF CpuIdxs
  <2> HIDE DEF used
  <2>2. PICK m \in 1 .. NumExperts : cpu \in [1 .. m -> used]
    BY <2>1
  <2>3. m \in Nat
    BY ConstantsType
  <2> QED BY <2>2, <2>3
<1>7. PrefillShape(t)
  BY <1>3, <1>4, <1>5, <1>6 DEF PrefillShape
<1> QED BY <1>2, <1>7 DEF Submit

LEMMA HostShares ==
  ASSUME HandInv, ShareInv, Host \/ (\E k \in {"decode", "prefill", "reload"} : Begin(k))
  PROVE  ShareInv'
<1>1. conf' = conf /\ running' = running
  BY DEF Host, Load, Reload, Synced, End, DecodeLayer, HeadLayer, PrefillLayer, PrefillOnGpu,
         Begin, Submit, hostOnly
<1>2. CASE tasks' = tasks
  BY <1>1, <1>2, ShareSubmits
<1>3. CASE Load
  <2>1. tasks' = tasks \/ tasks' = Append(tasks, Task("warm", layer, op'[layer]))
    BY <1>3 DEF Load
  <2>2. PICK t : t = Task("warm", layer, op'[layer])
    OBVIOUS
  <2>3. t.kind # "prefill"
    BY <2>2 DEF Task
  <2> QED BY <1>1, <2>1, <2>2, <2>3, ShareSubmits
<1>4. CASE HeadLayer
  <2> PICK t : t = Task("linear", LmHead, Target(LmHead))
    OBVIOUS
  <2>1. tasks' = tasks \/ tasks' = Append(tasks, t)
    BY <1>4 DEF HeadLayer, Submit
  <2>2. t.kind # "prefill"
    BY DEF Task
  <2> QED BY <1>1, <2>1, <2>2, ShareSubmits
<1>5. CASE PrefillLayer
  BY <1>1, <1>5, PrefillSubmits, ShareSubmits
<1>6. CASE Reload \/ Synced \/ End \/ DecodeLayer \/ PrefillOnGpu
           \/ (\E k \in {"decode", "prefill", "reload"} : Begin(k))
  BY <1>2, <1>6 DEF Reload, Synced, End, DecodeLayer, PrefillOnGpu, Begin
<1> QED BY <1>3, <1>4, <1>5, <1>6 DEF Host

LEMMA StreamShares == ASSUME HandInv, ShareInv, StreamStep PROVE ShareInv'
<1> PICK o : o = Head(stream)
  OBVIOUS
<1>1. /\ stream # <<>> /\ conf' = conf /\ running' = running
      /\ tasks' = IF o.do = "submit" THEN Append(tasks, o.task) ELSE tasks
  BY DEF StreamStep
<1>2. o.task.kind # "prefill"
  <2>1. PICK S : stream \in Seq(S)
    BY DEF HandInv, Shapes
  <2>2. o = stream[1] /\ 1 \in 1 .. Len(stream)
    <3>1. Head(stream) = stream[1] /\ Len(stream) \in Nat \ {0}
      BY <1>1, <2>1, TailSeq
    <3> QED BY <3>1
  <2>3. OpShape(o)
    BY <2>2 DEF HandInv, StreamShape, InOrder
  <2> QED BY <2>3 DEF OpShape
<1> PICK t : t = o.task
  OBVIOUS
<1>3. tasks' = tasks \/ tasks' = Append(tasks, t)
  BY <1>1
<1> QED BY <1>1, <1>2, <1>3, ShareSubmits

LEMMA StartShares == ASSUME HandInv, ShareInv, Start PROVE ShareInv'
<1>1. /\ tasks # <<>> /\ tasks' = Tail(tasks) /\ conf' = conf
      /\ Run'.task = Head(tasks) /\ Run'.at = 0 /\ Run'.out = <<>>
  BY DEF Start, Run
<1> PICK q, u : q = tasks /\ u = Tail(q)
  OBVIOUS
<1>2. PICK S : q \in Seq(S) /\ q # <<>>
  BY <1>1 DEF HandInv, Shapes
<1>3. /\ Len(Tail(q)) = Len(q) - 1 /\ Len(q) \in Nat \ {0}
      /\ \A i \in 1 .. Len(q) - 1 : Tail(q)[i] = q[i + 1]
      /\ Head(q) = q[1]
  BY <1>2, TailSeq
<1>4. \A i \in 1 .. Len(q) : q[i].kind = "prefill" => PrefillShape(q[i])
  BY DEF ShareInv
<1>5. 1 \in 1 .. Len(q) /\ \A i \in 1 .. Len(q) - 1 : i + 1 \in 1 .. Len(q)
  BY <1>3
<1>6. tasks' = u /\ Len(u) = Len(q) - 1 /\ \A i \in 1 .. Len(q) - 1 : u[i] = q[i + 1]
  BY <1>1, <1>3
<1>7. \A i \in 1 .. Len(tasks') : tasks'[i].kind = "prefill" => PrefillShape(tasks'[i])
  BY <1>4, <1>5, <1>6
<1>8. Run'.task.kind = "prefill" => PrefillShape(Run'.task)
  BY <1>1, <1>3, <1>4, <1>5
<1>9. Run'.task.kind = "prefill" =>
        /\ Run'.at \in 0 .. Len(Run'.task.batch)
        /\ Run'.out = [i \in 1 .. Run'.at |-> ForwardOne(Run'.task.batch[i], i)]
  BY <1>1, <1>8 DEF PrefillShape
<1> QED BY <1>1, <1>7, <1>8, <1>9, ShapeKept DEF ShareInv

(* The worker adds what is due to some more tokens. *)
LEMMA SubSeqOf ==
  ASSUME NEW S, NEW q \in Seq(S), NEW at \in Nat, NEW len \in Nat, at + len <= Len(q)
  PROVE  /\ SubSeq(q, at + 1, at + len) \in Seq(S) /\ Len(SubSeq(q, at + 1, at + len)) = len
         /\ \A i \in 1 .. len : SubSeq(q, at + 1, at + len)[i] = q[at + i]
<1>1. \A i \in at + 1 .. at + len : i \in 1 .. Len(q) /\ q[i] \in S
  OBVIOUS
<1>2. SubSeq(q, at + 1, at + len) \in Seq(S)
  BY <1>1
<1>3. Len(SubSeq(q, at + 1, at + len)) = len
  BY <1>1
<1>4. \A i \in 1 .. len : SubSeq(q, at + 1, at + len)[i] = q[at + i]
  BY <1>1
<1> QED BY <1>2, <1>3, <1>4

Sequence(f, n) == f = [i \in 1 .. n |-> f[i]]

Joined(u, f, k, h, n) ==
  /\ Sequence(u, k + n)
  /\ \A i \in 1 .. k : u[i] = f[i]
  /\ \A i \in 1 .. n : u[k + i] = h[i]

LEMMA ConcatFun ==
  ASSUME NEW k \in Nat, NEW n \in Nat, NEW f, NEW h, Sequence(f, k), Sequence(h, n)
  PROVE  Joined(f \o h, f, k, h, n)
<1>0. PICK S, T : S = Range(f) /\ T = Range(h)
  OBVIOUS
<1>1. f \in Seq(S) /\ h \in Seq(T)
  BY <1>0, FunctionIsSeq DEF Sequence
<1>5. Len(f) = k /\ Len(h) = n
  BY FunctionIsSeq DEF Sequence
<1>2. /\ f \o h \in Seq(Range(f \o h)) /\ Len(f \o h) = Len(f) + Len(h)
      /\ \A i \in 1 .. Len(f) : (f \o h)[i] = f[i]
      /\ \A i \in 1 .. Len(h) : (f \o h)[Len(f) + i] = h[i]
  BY <1>1, ConcatSeq
<1>3. PICK u : u = f \o h
  OBVIOUS
<1>4. u = [i \in 1 .. Len(u) |-> u[i]] /\ Len(u) = k + n
  <2>1. u \in Seq(Range(u)) /\ Len(u) = k + n
    BY <1>2, <1>3, <1>5
  <2> QED BY <2>1
<1> QED BY <1>2, <1>3, <1>4, <1>5 DEF Sequence, Joined

Batch(b, n) ==
  /\ n \in Nat /\ Sequence(b, n)
  /\ \A i \in 1 .. n : /\ DOMAIN b[i] = 1 .. Len(b[i]) /\ Len(b[i]) \in Nat
                       /\ \A j \in 1 .. Len(b[i]) : b[i][j].id \in Experts
Computed(b, n) == [i \in 1 .. n |-> ForwardOne(b[i], i)]

LEMMA GroupOf ==
  ASSUME NEW b, NEW n, Batch(b, n), NEW at \in Nat, NEW len \in Nat, at + len <= n
  PROVE  ForwardMany(SubSeq(b, at + 1, at + len), at)
           = [i \in 1 .. len |-> ForwardOne(b[at + i], at + i)]
<1>1. PICK g : g = SubSeq(b, at + 1, at + len)
  OBVIOUS
<1>2. PICK S : S = Range(b)
  OBVIOUS
<1>3. n \in Nat /\ b \in Seq(S) /\ Len(b) = n
  BY <1>2, FunctionIsSeq DEF Batch, Sequence
<1>4. /\ SubSeq(b, at + 1, at + len) \in Seq(S) /\ Len(SubSeq(b, at + 1, at + len)) = len
      /\ \A i \in 1 .. len : SubSeq(b, at + 1, at + len)[i] = b[at + i]
  BY <1>3, SubSeqOf
<1>5. g \in Seq(S) /\ Len(g) = len /\ \A i \in 1 .. len : g[i] = b[at + i]
  BY <1>1, <1>4
<1>6. Group(g)
  <2>1. DOMAIN g = 1 .. len
    BY <1>5
  <2>2. ASSUME NEW i \in 1 .. len
        PROVE  /\ DOMAIN g[i] = 1 .. Len(g[i]) /\ Len(g[i]) \in Nat
               /\ \A j \in 1 .. Len(g[i]) : g[i][j].id \in Experts
    <3>1. at + i \in 1 .. n
      BY <1>3
    <3>2. PICK k \in 1 .. n : k = at + i
      BY <3>1
    <3>3. g[i] = b[k]
      BY <1>5, <3>2
    <3> QED BY <3>3 DEF Batch
  <2> QED BY <1>5, <2>1, <2>2 DEF Group
<1>7. ForwardMany(g, at) = [i \in 1 .. Len(g) |-> ForwardOne(g[i], at + i)]
  BY <1>6, ManyAsOne
<1>8. \A i \in 1 .. len : ForwardOne(g[i], at + i) = ForwardOne(b[at + i], at + i)
  BY <1>5
<1>9. [i \in 1 .. Len(g) |-> ForwardOne(g[i], at + i)]
        = [i \in 1 .. len |-> ForwardOne(b[at + i], at + i)]
  BY <1>5, <1>8
<1> QED BY <1>1, <1>7, <1>9

LEMMA GroupComputed ==
  ASSUME NEW b, NEW n, Batch(b, n), NEW at \in Nat, NEW len \in Nat, at + len <= n
  PROVE  Computed(b, at) \o ForwardMany(SubSeq(b, at + 1, at + len), at) = Computed(b, at + len)
<1>0. PICK f, m : f = Computed(b, at) /\ m = ForwardMany(SubSeq(b, at + 1, at + len), at)
  OBVIOUS
<1>1. m = [i \in 1 .. len |-> ForwardOne(b[at + i], at + i)]
  BY <1>0, GroupOf
<1>2. f = [i \in 1 .. at |-> ForwardOne(b[i], i)]
  BY <1>0 DEF Computed
<1>3. Sequence(f, at) /\ Sequence(m, len)
  BY <1>1, <1>2 DEF Sequence
<1>4. PICK u : u = f \o m
  OBVIOUS
<1>5. Joined(u, f, at, m, len)
  BY <1>3, <1>4, ConcatFun
<1>6. ASSUME NEW i \in 1 .. at + len PROVE u[i] = ForwardOne(b[i], i)
  <2>1. CASE i <= at
    <3>1. i \in 1 .. at
      BY <2>1
    <3> QED BY <1>2, <1>5, <3>1 DEF Joined
  <2>2. CASE i > at
    <3>1. PICK k \in 1 .. len : i = at + k
      <4>1. i - at \in 1 .. len /\ i = at + (i - at)
        BY <2>2
      <4> QED BY <4>1
    <3>2. u[i] = m[k]
      BY <1>5, <3>1 DEF Joined
    <3> QED BY <1>1, <3>1, <3>2
  <2>3. i <= at \/ i > at
    OBVIOUS
  <2> QED BY <2>1, <2>2, <2>3
<1>7. u = Computed(b, at + len)
  BY <1>5, <1>6 DEF Computed, Sequence, Joined
<1> QED BY <1>0, <1>4, <1>7

LEMMA TokenComputed ==
  ASSUME NEW b, NEW at \in Nat
  PROVE  Append(Computed(b, at), ForwardOne(b[at + 1], at + 1)) = Computed(b, at + 1)
<1> PICK f, c : f = Computed(b, at) /\ c = ForwardOne(b[at + 1], at + 1)
  OBVIOUS
<1>1. f = [i \in 1 .. at |-> ForwardOne(b[i], i)]
  BY DEF Computed
<1>2. f = [i \in 1 .. at |-> f[i]]
  BY <1>1
<1> PICK S : S = Range(f)
  OBVIOUS
<1>3. f \in Seq(S) /\ Len(f) = at
  BY <1>2, FunctionIsSeq
<1>4. /\ Append(f, c) \in Seq(Range(Append(f, c))) /\ Len(Append(f, c)) = Len(f) + 1
      /\ \A i \in 1 .. Len(f) : Append(f, c)[i] = f[i]
      /\ Append(f, c)[Len(f) + 1] = c
  BY <1>3, AppendSeq
<1> PICK u : u = Append(f, c)
  OBVIOUS
<1>5. u = [i \in 1 .. at + 1 |-> u[i]]
  BY <1>3, <1>4
<1>6. ASSUME NEW i \in 1 .. at + 1 PROVE u[i] = ForwardOne(b[i], i)
  <2>1. i \in 1 .. at \/ i = at + 1
    OBVIOUS
  <2> QED BY <1>1, <1>3, <1>4, <2>1
<1> QED BY <1>5, <1>6 DEF Computed

LEMMA BatchShape ==
  ASSUME conf \in Configs, NEW t, PrefillShape(t)
  PROVE  /\ Batch(t.batch, Len(t.batch))
         /\ \A i \in 1 .. Len(t.batch) : \A k :
              ForwardOne(t.batch[i], k) = Given(t.routed[i], t.cpu, k)
<1> PICK n : n = Len(t.batch)
  OBVIOUS
<1>1. /\ n \in Nat /\ t.batch = [i \in 1 .. n |-> Chosen(t.routed[i], t.cpu)]
      /\ \A i \in 1 .. n : t.routed[i] \in Routings
      /\ conf.router = "host" => Len(t.cpu) \in Nat /\ DOMAIN t.cpu = 1 .. Len(t.cpu)
  BY DEF PrefillShape
<1>2. ASSUME NEW i \in 1 .. n
      PROVE  /\ DOMAIN t.batch[i] = 1 .. Len(t.batch[i]) /\ Len(t.batch[i]) \in Nat
             /\ \A j \in 1 .. Len(t.batch[i]) : t.batch[i][j].id \in Experts
             /\ \A k : ForwardOne(t.batch[i], k) = Given(t.routed[i], t.cpu, k)
  <2> PICK ids, cpu, c : ids = t.routed[i] /\ cpu = t.cpu /\ c = t.batch[i]
    OBVIOUS
  <2>1. c = Chosen(ids, cpu) /\ ids \in Routings
    BY <1>1
  <2>2. conf.router = "host" => Len(cpu) \in Nat /\ DOMAIN cpu = 1 .. Len(cpu)
    BY <1>1
  <2>3. /\ DOMAIN c = 1 .. Len(c) /\ Len(c) \in Nat
        /\ \A j \in 1 .. Len(c) : c[j].id \in Experts
        /\ \A k : ForwardOne(c, k) = Given(ids, cpu, k)
    BY <2>1, <2>2, ChosenGiven
  <2> QED BY <2>3
<1>3. Sequence(t.batch, n)
  BY <1>1 DEF Sequence
<1>4. Batch(t.batch, n)
  BY <1>1, <1>2, <1>3 DEF Batch
<1> QED BY <1>2, <1>4

LEMMA RunShares == ASSUME HandInv, ShareInv, RunGroup \/ RunToken PROVE ShareInv'
<1>1. /\ running # <<>> /\ running' # <<>> /\ Run'.task = Run.task
      /\ Run.task.kind = "prefill" /\ tasks' = tasks /\ conf' = conf
  <2>1. /\ running # <<>> /\ Run.task.kind = "prefill" /\ tasks' = tasks /\ conf' = conf
    BY DEF RunGroup, RunToken, workerOnly
  <2>2. running' = <<Run'>> /\ Run'.task = Run.task
    BY RunKept
  <2> QED BY <2>1, <2>2
<1>0. PICK t, n, at, b, out : t = Run.task /\ n = Len(t.batch) /\ at = Run.at /\ b = t.batch
                            /\ out = Run.out
  OBVIOUS
<1>2. PrefillShape(t) /\ at \in 0 .. n /\ conf \in Configs /\ out = Computed(b, at)
  BY <1>0, <1>1 DEF ShareInv, Computed
<1>3. Batch(b, n) /\ n \in Nat /\ at \in Nat
  <2>1. Batch(b, n)
    BY <1>0, <1>2, BatchShape
  <2>2. n \in Nat
    BY <2>1 DEF Batch
  <2>3. at \in Nat
    BY <1>2, <2>2
  <2> QED BY <2>1, <2>2, <2>3
<1>9. PICK size, a : size = Run.size /\ a = Run.allocation
  OBVIOUS
<1>4. Run = [task |-> t, at |-> at, out |-> out, size |-> size, allocation |-> a]
  BY <1>0, <1>1, <1>9 DEF HandInv, Shapes
<1>5. \A x, o : [Run EXCEPT !.at = x, !.out = o]
                 = [task |-> t, at |-> x, out |-> o, size |-> size, allocation |-> a]
  <2> SUFFICES ASSUME NEW x, NEW o
               PROVE [Run EXCEPT !.at = x, !.out = o]
                       = [task |-> t, at |-> x, out |-> o, size |-> size, allocation |-> a]
    OBVIOUS
  <2>1. PICK r : r = [Run EXCEPT !.at = x, !.out = o]
    OBVIOUS
  <2>2. r = [task |-> t, at |-> x, out |-> o, size |-> size, allocation |-> a]
    BY <1>4, <2>1, RunRecord, Zenon
  <2> QED BY <2>1, <2>2
<1>6. Run'.at \in 0 .. n /\ Run'.out = Computed(b, Run'.at)
  <2>1. CASE RunGroup
    <3>8. PICK len : len = IF Rest < GroupMax THEN Rest ELSE GroupMax
      OBVIOUS
    <3>9. PICK o : o = out \o ForwardMany(SubSeq(b, at + 1, at + len), at)
      OBVIOUS
    <3>1. ~TooShort(Rest) /\ Rest = n - at
      BY <1>0, <2>1 DEF RunGroup, Rest
    <3>2. running' = <<[Run EXCEPT !.at = at + len, !.out = o]>>
      BY <1>0, <2>1, <3>8, <3>9 DEF RunGroup
    <3>3. Run'.at = at + len /\ Run'.out = o
      <4>1. Run' = [Run EXCEPT !.at = at + len, !.out = o]
        BY <3>2 DEF Run
      <4> QED BY <1>5, <4>1
    <3>4. len \in Nat /\ at + len <= n
      <4>1. n - at \in Nat /\ GroupMax \in Nat
        BY <1>2, <1>3, ConstantsType
      <4>2. len = IF n - at < GroupMax THEN n - at ELSE GroupMax
        BY <3>1, <3>8
      <4> QED BY <1>3, <4>1, <4>2
    <3>5. Computed(b, at) \o ForwardMany(SubSeq(b, at + 1, at + len), at) = Computed(b, at + len)
      BY <1>3, <3>4, GroupComputed
    <3>6. Run'.out = Computed(b, Run'.at)
      BY <1>2, <3>3, <3>5, <3>9
    <3>7. at + len \in 0 .. n
      BY <1>3, <3>4
    <3> QED BY <3>3, <3>6, <3>7
  <2>2. CASE RunToken
    <3>1. Rest = n - at /\ Rest > 0
      BY <1>0, <2>2 DEF RunToken, Rest
    <3>9. PICK o : o = Append(out, ForwardOne(b[at + 1], at + 1))
      OBVIOUS
    <3>2. CASE UNCHANGED running
      <4>1. Run' = Run
        BY <3>2 DEF Run
      <4> QED BY <1>0, <1>2, <4>1
    <3>3. CASE running' = <<[Run EXCEPT !.at = at + 1, !.out = o]>>
      <4>1. Run' = [Run EXCEPT !.at = at + 1, !.out = o]
        BY <3>3 DEF Run
      <4>2. Run'.at = at + 1 /\ Run'.out = o
        BY <1>5, <4>1
      <4>3. o = Computed(b, at + 1)
        BY <1>2, <1>3, <3>9, TokenComputed
      <4> QED BY <1>3, <3>1, <4>2, <4>3
    <3> QED BY <1>0, <2>2, <3>2, <3>3, <3>9 DEF RunToken
  <2> QED BY <2>1, <2>2
<1> QED BY <1>0, <1>1, <1>2, <1>6, ShapeKept DEF ShareInv, Computed

LEMMA ShareNext == ASSUME HandInv, ShareInv, [Next]_vars PROVE ShareInv'
<1>1. CASE Finish
  <2>1. running' = <<>> /\ tasks' = tasks /\ conf' = conf
    BY <1>1 DEF Finish
  <2> QED BY <2>1, ShapeKept DEF ShareInv
<1>2. CASE UNCHANGED vars
  BY <1>2, ShareSubmits DEF vars
<1> QED BY <1>1, <1>2, HostShares, StreamShares, StartShares, RunShares DEF Next, Worker

LEMMA SharesAdded == ASSUME ShareInv PROVE Contributions
<1> SUFFICES ASSUME running # <<>>, Run.task.kind = "prefill", NEW i \in 1 .. Run.at
             PROVE Run.out[i] = {[id |-> Run.task.routed[i][k], token |-> i, weight |-> k] :
                         k \in {h \in 1 .. TopK : Run.task.routed[i][h] \in CpuExperts(Run.task)}}
  BY DEF Contributions
<1> PICK t : t = Run.task
  OBVIOUS
<1>1. /\ PrefillShape(t) /\ Run.at \in 0 .. Len(t.batch) /\ conf \in Configs
      /\ Run.out[i] = ForwardOne(t.batch[i], i)
  BY DEF ShareInv
<1>2. Len(t.batch) \in Nat
  BY <1>1, BatchShape DEF Batch
<1>3. i \in 1 .. Len(t.batch)
  BY <1>1, <1>2
<1>4. ForwardOne(t.batch[i], i) = Given(t.routed[i], t.cpu, i)
  BY <1>1, <1>3, BatchShape
<1>5. Given(t.routed[i], t.cpu, i) = {[id |-> t.routed[i][k], token |-> i, weight |-> k] :
                         k \in {h \in 1 .. TopK : t.routed[i][h] \in CpuExperts(t)}}
  BY DEF Given, CpuExperts
<1> QED BY <1>1, <1>4, <1>5

(* However a prefill is cut in groups and single tokens and its rows are   *)
(* gathered by expert, a token gets its experts with its weights.          *)
THEOREM TokensGetTheirExperts == Spec => []Contributions
<1>1. Spec => [](HandInv /\ ShareInv)
  <2>1. Init => HandInv /\ ShareInv
    BY HandInit, ShareInit
  <2>2. HandInv /\ ShareInv /\ [Next]_vars => (HandInv /\ ShareInv)'
    BY HandNext, ShareNext
  <2> QED BY <2>1, <2>2, PTL DEF Spec
<1>2. HandInv /\ ShareInv => Contributions
  BY SharesAdded
<1> QED BY <1>1, <1>2, PTL
=============================================================================
