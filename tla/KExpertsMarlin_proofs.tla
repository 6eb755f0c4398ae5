------------------------ MODULE KExpertsMarlin_proofs ------------------------
(***************************************************************************)
(* Proofs about the two models of KExpertsMarlin: ExpertCache (types, the  *)
(* partition of the slots, the index, the weights kernels find) and, at    *)
(* the end, HybridSchedule (every expert computed once, never slower than  *)
(* one device), for every number of layers, experts and slots.             *)
(*                                                                         *)
(* What makes the partition inductive: an expert is put into a slot only   *)
(* when it is in none.  Look-ups and prefetches test that, but             *)
(* reset_buffer does not; it is safe because the cache is full once the    *)
(* weights are loaded and the buffers, just emptied, have room for a whole *)
(* layer.  The invariant says both.                                        *)
(***************************************************************************)
EXTENDS ExpertCache, HybridSchedule, NumberLemmas, FiniteSetTheorems, TLAPS

IndexType ==
  /\ loaded \in [Layers -> [Experts -> 0 .. L * LoadSize - 1 \cup {None}]]
  /\ free \in [Layers -> SUBSET (0 .. L * LoadSize - 1)]
  /\ buffer_slots \in [Experts -> Uids \cup {NoUid}]

QueueType ==
  /\ copies \in [Streams -> Seq([at : Places, uid : Uids])]
  /\ memory \in [Places -> Uids \cup {NoUid}]
  /\ prefetch_lock \in [Experts -> Waits]
  /\ loading_lock \in [Layers -> [Experts -> Waits]]
  /\ compute \in Seq([at : Places, uid : Uids, after : Waits])
  /\ barrier \in Waits
  /\ views \in Seq([at : Places, uid : Uids])

HostType ==
  /\ pc \in {"loading", "idle", "lookup", "prefetch", "use", "reset"}
  /\ layer \in 0 .. L /\ kind \in {"prefill", "decode"} /\ passes \in Nat
  /\ todo \in Seq(SUBSET Experts)

(* Which layer the host is at, and what todo is there. *)
ControlInv ==
  /\ pc \in {"loading", "prefetch", "reset"} => Len(todo) = 1
  /\ pc = "lookup" => Len(todo) = 2
  /\ pc \in {"loading", "lookup", "use", "prefetch", "reset"} => layer < L
  /\ pc = "prefetch" => layer < L - 1
  /\ pc = "reset" => \A i \in todo[1] : layer < L - 2 /\ BufferFree(i)

(* The layers before the current one are full, and so are all of them once *)
(* the weights are loaded.                                                 *)
FullInv ==
  /\ pc # "loading" => \A l \in Layers : free[l] = {}
  /\ pc = "loading" =>
       /\ \A l \in Layers : l < layer => free[l] = {}
       /\ \A l \in Layers : l > layer => Loaded(l) = {}
       /\ todo[1] \cap Loaded(layer) = {}
       /\ free[layer] # {} => Experts \ todo[1] \subseteq Loaded(layer)

IInv == IndexType /\ QueueType /\ HostType /\ ControlInv /\ FullInv /\ SlotPartition

-----------------------------------------------------------------------------
(* Numbers and sets *)

(* The element Smallest chooses. *)
LEMMA SmallestElement ==
  ASSUME NEW S \in SUBSET Experts, S # {}
  PROVE  Smallest(S) \in S /\ \A e \in S : Smallest(S) <= e
<1>1. S \in SUBSET Nat
  BY ExpertCacheAssumption DEF Experts
<1>2. \E m \in S : \A k \in S : m <= k
  BY <1>1, Least
<1> QED
  BY <1>2 DEF Smallest

(* Slots are numbered layer by layer, and slots2layer inverts this. *)
LEMMA SlotsOfLayer ==
  ASSUME NEW l \in Layers
  PROVE  /\ Slots(l) \subseteq 0 .. L * LoadSize - 1
         /\ \A slot \in Slots(l) : slots2layer(slot) = l
<1>1. l \in Nat /\ l + 1 <= L /\ L \in Nat /\ LoadSize \in Nat \ {0}
  BY ExpertCacheAssumption DEF Layers
<1>2. (l + 1) * LoadSize <= L * LoadSize /\ l * LoadSize \in Nat
  BY <1>1
<1>3. (l + 1) * LoadSize = l * LoadSize + LoadSize
  BY <1>1
<1>4. ASSUME NEW slot \in l * LoadSize .. (l + 1) * LoadSize - 1
      PROVE  slot \div LoadSize = l
  BY <1>1
<1> QED
  BY <1>1, <1>2, <1>4 DEF Slots, slots2layer

(* A layer has LoadSize slots. *)
LEMMA NumberOfSlots ==
  ASSUME NEW l \in Layers
  PROVE  IsFiniteSet(Slots(l)) /\ Cardinality(Slots(l)) = LoadSize
<1>1. l \in Nat /\ LoadSize \in Nat \ {0} /\ n \in Nat
  BY ExpertCacheAssumption DEF Layers
<1>2. (l + 1) * LoadSize = l * LoadSize + LoadSize /\ l * LoadSize \in Nat
  BY <1>1
<1> DEFINE a == l * LoadSize
           b == a + LoadSize - 1
<1>3. Slots(l) = a .. b
  <2>1. (l + 1) * LoadSize - 1 = b
    BY <1>1, <1>2
  <2> QED
    BY <2>1 DEF Slots
<1>4. a \in Int /\ b \in Int /\ a <= b /\ b - a + 1 = LoadSize
  BY <1>1, <1>2
<1> HIDE DEF a, b
<1>5. IsFiniteSet(a .. b) /\ Cardinality(a .. b) = b - a + 1
  BY <1>4, FS_Interval
<1> QED
  BY <1>3, <1>4, <1>5

-----------------------------------------------------------------------------
(* What the ways to load an expert do to the index and to the copies. *)

IndexInv == IndexType /\ SlotPartition

CopiesType == copies \in [Streams -> Seq([at : Places, uid : Uids])]

LEMMA IssueType ==
  ASSUME CopiesType, NEW s \in Streams, NEW place \in Places, NEW u \in Uids, Issue(s, place, u)
  PROVE  CopiesType'
<1>1. Item(place, u) \in [at : Places, uid : Uids]
  BY DEF Item
<1>2. copies[s] \in Seq([at : Places, uid : Uids])
  BY DEF CopiesType
<1>3. Append(copies[s], Item(place, u)) \in Seq([at : Places, uid : Uids])
  BY <1>1, <1>2
<1> QED
  BY <1>3 DEF Issue, CopiesType

LEMMA PlacesAre ==
  /\ \A slot \in 0 .. L * LoadSize - 1 : <<"slot", slot>> \in Places
  /\ \A i \in Experts : <<"buffer", i>> \in Places
BY DEF Places

LEMMA BufferLoad ==
  ASSUME IndexInv, CopiesType, NEW l \in Layers, NEW e \in Experts, LoadIntoBuffer(l, e)
  PROVE  /\ IndexInv' /\ CopiesType'
         /\ UNCHANGED <<loaded, free>> /\ Found(l, e)'
         /\ \A i \in Experts : BufferFree(i) =>
              FirstBuffer <= i /\ (i # FirstBuffer => BufferFree(i)')
<1> DEFINE S == {i \in Experts : BufferFree(i)}
<1>1. S \in SUBSET Nat /\ S # {}
  BY ExpertCacheAssumption DEF Experts, LoadIntoBuffer, RoomInBuffer
<1>2. PICK m \in S : \A k \in S : m <= k
  BY <1>1, Least
<1>3. m \in Experts /\ BufferFree(m) /\ \A j \in 0 .. m - 1 : ~BufferFree(j)
  <2>1. ASSUME NEW j \in 0 .. m - 1, BufferFree(j) PROVE FALSE
    BY <1>1, <1>2, <2>1, ExpertCacheAssumption DEF Experts
  <2> QED
    BY <2>1
<1>4. FirstBuffer \in Experts /\ BufferFree(FirstBuffer)
      /\ \A j \in 0 .. FirstBuffer - 1 : ~BufferFree(j)
  BY <1>3 DEF FirstBuffer
<1> HIDE DEF S
<1>5. <<l, e>> \in Uids
  BY DEF Uids
<1>6. IndexType'
  BY <1>4, <1>5 DEF IndexInv, IndexType, LoadIntoBuffer
<1>7. UNCHANGED <<loaded, free>>
  BY DEF LoadIntoBuffer
<1>8. SlotPartition'
  BY <1>7 DEF IndexInv, SlotPartition, Loaded
<1>9. CopiesType'
  BY <1>4, <1>5, IssueType, PlacesAre DEF LoadIntoBuffer, Streams
<1>10. ASSUME NEW i \in Experts, BufferFree(i)
       PROVE  FirstBuffer <= i /\ (i # FirstBuffer => BufferFree(i)')
  <2>1. FirstBuffer <= i
    BY <1>4, <1>10, ExpertCacheAssumption DEF Experts
  <2>2. i # FirstBuffer => BufferFree(i)'
    BY <1>4, <1>10 DEF BufferFree, LoadIntoBuffer, IndexInv, IndexType
  <2> QED
    BY <2>1, <2>2
<1>11. Found(l, e)'
  <2>1. buffer_slots'[FirstBuffer] = <<l, e>>
    BY <1>4 DEF LoadIntoBuffer, IndexInv, IndexType
  <2> QED
    BY <1>4, <2>1 DEF Found, InBuffer
<1> QED
  BY <1>6, <1>7, <1>8, <1>9, <1>10, <1>11 DEF IndexInv

LEMMA SlotLoad ==
  ASSUME IndexInv, CopiesType, NEW l \in Layers, NEW e \in Experts, NEW s \in Streams,
         loaded[l][e] = None, LoadIntoSlot(l, e, s)
  PROVE  /\ IndexInv' /\ CopiesType'
         /\ UNCHANGED buffer_slots
         /\ \A k \in Layers \ {l} : free'[k] = free[k] /\ loaded'[k] = loaded[k]
         /\ free'[l] \subseteq free[l]
         /\ Loaded(l)' = Loaded(l) \cup {e}
<1> PICK slot \in free[l] :
       /\ free' = [free EXCEPT ![l] = @ \ {slot}]
       /\ loaded' = [loaded EXCEPT ![l][e] = slot]
       /\ Issue(s, <<"slot", slot>>, <<l, e>>)
  BY DEF LoadIntoSlot
<1>1. slot \in Slots(l) /\ slot \in 0 .. L * LoadSize - 1 /\ slot # None
  <2>1. slot \in Slots(l)
    BY DEF IndexInv, SlotPartition
  <2>2. slot \in 0 .. L * LoadSize - 1
    BY <2>1, SlotsOfLayer
  <2> QED
    BY <2>1, <2>2 DEF None
<1>2. loaded'[l] = [loaded[l] EXCEPT ![e] = slot] /\ loaded[l] \in [Experts -> Int]
  BY ExpertCacheAssumption DEF IndexInv, IndexType, None
<1>3. UNCHANGED buffer_slots
  BY DEF LoadIntoSlot
<1>4. IndexType'
  BY <1>1, <1>3 DEF IndexInv, IndexType
<1>5. \A k \in Layers \ {l} : free'[k] = free[k] /\ loaded'[k] = loaded[k]
  BY DEF IndexInv, IndexType
<1>6. free'[l] = free[l] \ {slot}
  BY DEF IndexInv, IndexType
<1>7. Loaded(l)' = Loaded(l) \cup {e} /\ e \notin Loaded(l)
  BY <1>1, <1>2 DEF Loaded
<1>8. loaded'[l][e] = slot /\ \A f \in Loaded(l) : loaded'[l][f] = loaded[l][f] /\ loaded[l][f] # slot
  <2>1. \A f \in Loaded(l) : f \in Experts /\ f # e
    BY <1>7 DEF Loaded
  <2>2. \A f \in Loaded(l) : loaded[l][f] \notin free[l]
    BY DEF IndexInv, SlotPartition
  <2> QED
    BY <1>2, <2>1, <2>2
<1>9. SlotPartition'
  <2> SUFFICES ASSUME NEW k \in Layers
               PROVE  /\ free'[k] \subseteq Slots(k)
                      /\ {loaded'[k][f] : f \in Loaded(k)'} = Slots(k) \ free'[k]
                      /\ \A f, g \in Loaded(k)' : loaded'[k][f] = loaded'[k][g] => f = g
    BY DEF SlotPartition
  <2>1. CASE k # l
    BY <2>1, <1>5 DEF IndexInv, SlotPartition, Loaded
  <2>2. CASE k = l
    <3>1. free[l] \subseteq Slots(l) /\ {loaded[l][f] : f \in Loaded(l)} = Slots(l) \ free[l]
      BY DEF IndexInv, SlotPartition
    <3>2. {loaded'[l][f] : f \in Loaded(l)'} = {loaded[l][f] : f \in Loaded(l)} \cup {slot}
      BY <1>7, <1>8
    <3>3. {loaded'[l][f] : f \in Loaded(l)'} = Slots(l) \ free'[l]
      BY <3>1, <3>2, <1>6, <1>1
    <3>4. \A f, g \in Loaded(l) : loaded[l][f] = loaded[l][g] => f = g
      BY DEF IndexInv, SlotPartition
    <3>5. \A f, g \in Loaded(l)' : loaded'[l][f] = loaded'[l][g] => f = g
      BY <1>7, <1>8, <3>4
    <3> QED
      BY <2>2, <3>1, <3>3, <3>5, <1>6
  <2> QED
    BY <2>1, <2>2
<1>10. CopiesType'
  BY <1>1, IssueType, PlacesAre DEF Uids
<1> QED
  BY <1>3, <1>4, <1>5, <1>6, <1>7, <1>9, <1>10 DEF IndexInv

(* The slot of the victim goes to the expert that is loaded. *)
LEMMA EvictingLoad ==
  ASSUME IndexInv, CopiesType, NEW l \in Layers, NEW e \in Experts, NEW s \in Streams,
         loaded[l][e] = None, LoadEvicting(l, e, s)
  PROVE  /\ IndexInv' /\ CopiesType'
         /\ UNCHANGED <<buffer_slots, free>>
         /\ \A k \in Layers \ {l} : loaded'[k] = loaded[k]
         /\ Found(l, e)'
<1> PICK victim \in Loaded(l) :
       LET freed == FreeWith(loaded[l][victim])
           owner == slots2layer(loaded[l][victim])
       IN  \E slot \in freed[owner] :
             /\ free' = [freed EXCEPT ![owner] = @ \ {slot}]
             /\ loaded' = Replaced(l, victim, e, slot)
             /\ Issue(s, <<"slot", slot>>, <<l, e>>)
  BY DEF LoadEvicting
<1> DEFINE slot == loaded[l][victim]
<1>1. /\ victim \in Experts /\ victim # e
      /\ slot \in Slots(l) /\ slot \in 0 .. L * LoadSize - 1 /\ slot # None
  <2>1. victim \in Experts /\ slot # None
    BY DEF Loaded
  <2>2. slot \in Slots(l)
    BY DEF IndexInv, SlotPartition
  <2> QED
    BY <2>1, <2>2, SlotsOfLayer
<1>2. slots2layer(slot) = l
  BY <1>1, SlotsOfLayer
<1>3. free[l] = {} /\ UNCHANGED buffer_slots
  BY DEF LoadEvicting
<1>4. FreeWith(slot) = [free EXCEPT ![l] = {slot}]
  BY <1>2, <1>3 DEF FreeWith, IndexInv, IndexType
<1> HIDE DEF slot
<1>5. free \in [Layers -> SUBSET (0 .. L * LoadSize - 1)]
  BY DEF IndexInv, IndexType
<1>6. FreeWith(slot)[l] = {slot}
  BY <1>4, <1>5
<1>7. /\ free' = [FreeWith(slot) EXCEPT ![l] = @ \ {slot}]
      /\ loaded' = Replaced(l, victim, e, slot)
      /\ Issue(s, <<"slot", slot>>, <<l, e>>)
  BY <1>2, <1>6 DEF slot
<1>8. free' = free
  <2>1. free' = [free EXCEPT ![l] = {}]
    BY <1>4, <1>6, <1>7
  <2> QED
    BY <2>1, <1>3, <1>5
<1>9. loaded' = [loaded EXCEPT ![l][victim] = None, ![l][e] = slot]
  BY <1>7 DEF Replaced
<1>10. IndexType'
  BY <1>1, <1>3, <1>8, <1>9 DEF IndexInv, IndexType
<1>11. \A k \in Layers \ {l} : loaded'[k] = loaded[k]
  BY <1>9 DEF IndexInv, IndexType
<1>12. /\ loaded'[l][e] = slot /\ loaded'[l][victim] = None
       /\ \A f \in Experts \ {e, victim} : loaded'[l][f] = loaded[l][f]
  BY <1>1, <1>9 DEF IndexInv, IndexType
<1>13. Loaded(l)' = (Loaded(l) \ {victim}) \cup {e}
  BY <1>1, <1>12 DEF Loaded
<1>14. SlotPartition'
  <2> SUFFICES ASSUME NEW k \in Layers
               PROVE  /\ free'[k] \subseteq Slots(k)
                      /\ {loaded'[k][f] : f \in Loaded(k)'} = Slots(k) \ free'[k]
                      /\ \A f, g \in Loaded(k)' : loaded'[k][f] = loaded'[k][g] => f = g
    BY DEF SlotPartition
  <2>1. CASE k # l
    <3>1. loaded'[k] = loaded[k] /\ Loaded(k)' = Loaded(k) /\ free'[k] = free[k]
      BY <2>1, <1>8, <1>11 DEF Loaded
    <3> QED
      BY <3>1 DEF IndexInv, SlotPartition
  <2>2. CASE k = l
    <3>1. /\ {loaded[l][f] : f \in Loaded(l)} = Slots(l) \ free[l]
          /\ \A f, g \in Loaded(l) : loaded[l][f] = loaded[l][g] => f = g
      BY DEF IndexInv, SlotPartition
    <3>2. \A f \in Loaded(l) \ {victim} : loaded'[l][f] = loaded[l][f] /\ loaded[l][f] # slot
      <4>1. \A f \in Loaded(l) : f \in Experts /\ f # e
        BY DEF Loaded
      <4> QED
        BY <4>1, <1>12, <3>1 DEF slot
    <3>3. \A f, g \in Loaded(l)' : loaded'[l][f] = loaded'[l][g] => f = g
      BY <1>12, <1>13, <3>1, <3>2
    <3>4. {loaded'[l][f] : f \in Loaded(l)'} = {loaded[l][f] : f \in Loaded(l)}
      <4> DEFINE before == {loaded[l][f] : f \in Loaded(l)}
                 after == {loaded'[l][f] : f \in Loaded(l)'}
      <4>1. slot \in before /\ slot \in after
        BY <1>12, <1>13 DEF slot
      <4>2. \A f \in Loaded(l) \ {victim} : loaded[l][f] \in after
        BY <1>13, <3>2
      <4>3. before \subseteq after
        BY <4>1, <4>2 DEF slot
      <4>4. \A f \in Loaded(l)' : loaded'[l][f] \in before
        BY <1>12, <1>13, <3>2, <4>1
      <4> QED
        BY <4>3, <4>4
    <3>5. free'[l] \subseteq Slots(l) /\ {loaded'[l][f] : f \in Loaded(l)'} = Slots(l) \ free'[l]
      BY <3>1, <3>4, <1>3, <1>8
    <3> QED
      BY <2>2, <3>3, <3>5
  <2> QED
    BY <2>1, <2>2
<1>15. CopiesType'
  BY <1>1, <1>7, IssueType, PlacesAre DEF Uids
<1>16. Found(l, e)'
  BY <1>1, <1>12 DEF Found
<1> QED
  BY <1>3, <1>8, <1>10, <1>11, <1>14, <1>15, <1>16 DEF IndexInv

(* After a load the expert is in the index, and full layers are full. *)
LEMMA DecodeLoad ==
  ASSUME IndexInv, CopiesType, NEW l \in Layers, NEW e \in Experts, NEW s \in Streams,
         loaded[l][e] = None, LoadForDecode(l, e, s)
  PROVE  /\ IndexInv' /\ CopiesType'
         /\ UNCHANGED buffer_slots /\ Found(l, e)'
         /\ \A k \in Layers : free[k] = {} => free'[k] = {}
<1>1. CASE LoadIntoSlot(l, e, s)
  <2>1. free[l] # {}
    BY <1>1 DEF LoadIntoSlot
  <2> QED
    BY <1>1, <2>1, SlotLoad DEF Found, Loaded
<1>2. CASE LoadEvicting(l, e, s)
  BY <1>2, EvictingLoad
<1> QED
  BY <1>1, <1>2 DEF LoadForDecode

LEMMA PrefillLoad ==
  ASSUME IndexInv, CopiesType, NEW l \in Layers, NEW e \in Experts,
         loaded[l][e] = None \/ (free[l] = {} /\ RoomInBuffer), LoadForPrefill(l, e)
  PROVE  /\ IndexInv' /\ CopiesType' /\ Found(l, e)'
         /\ \A k \in Layers : free[k] = {} => free'[k] = {}
<1>1. CASE LoadIntoBuffer(l, e)
  BY <1>1, BufferLoad
<1>2. CASE LoadIntoSlot(l, e, "copy")
  <2>1. free[l] # {} /\ "copy" \in Streams
    BY <1>2 DEF LoadIntoSlot, Streams
  <2> QED
    BY <1>2, <2>1, SlotLoad DEF Found, Loaded
<1>3. CASE ~RoomInBuffer /\ LoadEvicting(l, e, "copy")
  <2>1. "copy" \in Streams
    BY DEF Streams
  <2> QED
    BY <1>3, <2>1, EvictingLoad
<1> QED
  BY <1>1, <1>2, <1>3 DEF LoadForPrefill

-----------------------------------------------------------------------------
(* A layer all of whose experts are in slots has no free slot: there are   *)
(* at least as many experts as slots.                                      *)
LEMMA CacheFull ==
  ASSUME IndexInv, NEW l \in Layers, Experts \subseteq Loaded(l)
  PROVE  free[l] = {}
<1> SUFFICES ASSUME NEW slot \in free[l] PROVE FALSE
  OBVIOUS
<1>1. n \in Nat \ {0} /\ LoadSize \in Nat /\ LoadSize <= n
  BY ExpertCacheAssumption
<1>2. IsFiniteSet(Experts) /\ Cardinality(Experts) = n
  <2>1. IsFiniteSet(0 .. n - 1) /\ Cardinality(0 .. n - 1) = n
    BY <1>1, FS_Interval
  <2> QED
    BY <2>1 DEF Experts
<1> DEFINE T == Slots(l) \ {slot}
           f == [e \in Experts |-> loaded[l][e]]
<1>3. slot \in Slots(l)
  BY DEF IndexInv, SlotPartition
<1>4. IsFiniteSet(T) /\ Cardinality(T) = LoadSize - 1
  BY <1>3, NumberOfSlots, FS_RemoveElement
<1>5. f \in [Experts -> T]
  BY DEF IndexInv, SlotPartition
<1>6. Cardinality(T) < Cardinality(Experts)
  BY <1>1, <1>2, <1>4
<1> HIDE DEF T, f
<1>7. PICK x, y \in Experts : x # y /\ f[x] = f[y]
  BY <1>2, <1>4, <1>5, <1>6, FS_PigeonHole
<1> QED
  BY <1>7 DEF f, IndexInv, SlotPartition

-----------------------------------------------------------------------------
(* Events *)

LEMMA EventTypes ==
  /\ \A a \in Waits, s \in Streams : Ticked(a, s) \in Waits
  /\ \A a, b \in Waits : Later(a, b) \in Waits
BY DEF Waits, Ticked, Later

LEMMA RecordedType == ASSUME CopiesType, NEW s \in Streams PROVE Recorded(s) \in Waits
<1>1. \A t \in Streams : Len(copies[t]) \in Nat
  BY DEF CopiesType
<1> QED
  BY <1>1 DEF Waits, Recorded

(* wait_prefetch waits for the latest of the prefetch_locks. *)
LEMMA AfterPrefetchType ==
  ASSUME QueueType
  PROVE  /\ AfterPrefetch \in Waits
         /\ \A s \in Streams, i \in Experts : prefetch_lock[i][s] <= AfterPrefetch[s]
<1> SUFFICES ASSUME NEW s \in Streams
             PROVE  LET left == {prefetch_lock[i][s] : i \in Experts}
                        last == CHOOSE m \in left : \A k \in left : k <= m
                    IN  last \in Nat /\ \A i \in Experts : prefetch_lock[i][s] <= last
  BY DEF AfterPrefetch, Waits
<1> DEFINE left == {prefetch_lock[i][s] : i \in Experts}
           f == [i \in Experts |-> prefetch_lock[i][s]]
           last == CHOOSE m \in left : \A k \in left : k <= m
<1>1. \A i \in Experts : prefetch_lock[i][s] \in Nat
  BY DEF QueueType, Waits
<1>2. left \in SUBSET Nat /\ \A i \in Experts : prefetch_lock[i][s] \in left
  BY <1>1
<1>3. 0 \in Experts
  BY ExpertCacheAssumption DEF Experts
<1>4. left # {}
  BY <1>3
<1>5. IsFiniteSet(Experts)
  BY ExpertCacheAssumption, FS_Interval DEF Experts
<1>6. f \in Surjection(Experts, left)
  BY DEF Surjection
<1> HIDE DEF left, f
<1>7. IsFiniteSet(left)
  BY <1>5, <1>6, FS_Surjection
<1>8. \E m \in left : \A k \in left : k <= m
  BY <1>2, <1>4, <1>7, Greatest
<1>9. last \in left /\ \A k \in left : k <= last
  BY <1>8
<1> QED
  BY <1>2, <1>9 DEF left, last

-----------------------------------------------------------------------------
(* The invariant *)

LEMMA InitIInv == Init => IInv
<1> SUFFICES ASSUME Init PROVE IInv
  OBVIOUS
<1> USE ExpertCacheAssumption
<1>1. IndexType
  <2>1. \A l \in Layers : Slots(l) \subseteq 0 .. L * LoadSize - 1
    BY SlotsOfLayer
  <2> QED
    BY <2>1 DEF Init, IndexType
<1>2. QueueType
  BY DEF Init, QueueType, Waits
<1>3. HostType
  BY DEF Init, HostType
<1>4. ControlInv
  BY DEF Init, ControlInv
<1>5. \A l \in Layers : Loaded(l) = {}
  BY DEF Init, Loaded
<1>6. FullInv
  BY <1>5 DEF Init, FullInv, Layers
<1>7. SlotPartition
  BY <1>5 DEF Init, SlotPartition
<1> QED
  BY <1>1, <1>2, <1>3, <1>4, <1>6, <1>7 DEF IInv

(* Steps that leave the index, and where the host is, alone. *)
LEMMA SameIndex ==
  ASSUME IInv, UNCHANGED <<index, host, todo>>, QueueType'
  PROVE  IInv'
BY DEF IInv, index, host, IndexType, HostType, ControlInv, FullInv, SlotPartition, Loaded, BufferFree

(* The head and the tail of a sequence, and one with an element more. *)
LEMMA SequenceParts ==
  ASSUME NEW S, NEW q \in Seq(S)
  PROVE  /\ q # <<>> => Head(q) \in S /\ Tail(q) \in Seq(S)
         /\ \A x \in S : Append(q, x) \in Seq(S)
         /\ DOMAIN q = 1 .. Len(q) /\ Len(q) \in Nat
         /\ \A k \in DOMAIN q : q[k] \in S
OBVIOUS

LEMMA ExecuteCopyStep == ASSUME IInv, NEW s \in Streams, ExecuteCopy(s) PROVE IInv'
<1>1. UNCHANGED <<index, host, todo, views>>
  BY DEF ExecuteCopy
<1>2. copies[s] \in Seq([at : Places, uid : Uids]) /\ copies[s] # <<>>
  BY DEF IInv, QueueType, ExecuteCopy
<1>3. Head(copies[s]) \in [at : Places, uid : Uids] /\ Tail(copies[s]) \in Seq([at : Places, uid : Uids])
  BY <1>2, SequenceParts
<1>4. copies' \in [Streams -> Seq([at : Places, uid : Uids])] /\ memory' \in [Places -> Uids \cup {NoUid}]
  BY <1>3 DEF IInv, QueueType, ExecuteCopy
<1>5. /\ prefetch_lock' \in [Experts -> Waits]
      /\ loading_lock' \in [Layers -> [Experts -> Waits]]
      /\ barrier' \in Waits
  <2> USE EventTypes DEF IInv, QueueType, ExecuteCopy
  <2>1. \A i \in Experts : prefetch_lock[i] \in Waits /\ Ticked(prefetch_lock[i], s) \in Waits
    OBVIOUS
  <2>2. \A l \in Layers : \A e \in Experts :
          loading_lock[l][e] \in Waits /\ Ticked(loading_lock[l][e], s) \in Waits
    OBVIOUS
  <2>3. barrier' \in Waits
    OBVIOUS
  <2>4. prefetch_lock' \in [Experts -> Waits]
    BY <2>1
  <2>5. loading_lock' \in [Layers -> [Experts -> Waits]]
    BY <2>2
  <2> QED
    BY <2>3, <2>4, <2>5
<1>6. compute' \in Seq([at : Places, uid : Uids, after : Waits])
  <2>1. compute \in Seq([at : Places, uid : Uids, after : Waits])
    BY DEF IInv, QueueType
  <2>2. \A k \in DOMAIN compute : compute[k] \in [at : Places, uid : Uids, after : Waits]
    BY <2>1, SequenceParts
  <2>3. \A k \in DOMAIN compute :
          [compute[k] EXCEPT !.after = Ticked(compute[k].after, s)]
            \in [at : Places, uid : Uids, after : Waits]
    <3> TAKE k \in DOMAIN compute
    <3>1. compute[k] \in [at : Places, uid : Uids, after : Waits]
      BY <2>2
    <3>2. Ticked(compute[k].after, s) \in Waits
      BY <3>1, EventTypes
    <3> QED
      BY <3>1, <3>2
  <2>4. DOMAIN compute = 1 .. Len(compute) /\ Len(compute) \in Nat
    BY <2>1
  <2>5. compute' = [k \in 1 .. Len(compute) |->
                      [compute[k] EXCEPT !.after = Ticked(compute[k].after, s)]]
    BY <2>4 DEF ExecuteCopy
  <2> QED
    BY <2>3, <2>4, <2>5
<1> QED
  BY <1>1, <1>4, <1>5, <1>6, SameIndex DEF QueueType, IInv

LEMMA ExecuteKernelStep == ASSUME IInv, ExecuteKernel PROVE IInv'
<1>1. UNCHANGED <<index, copies, memory, prefetch_lock, loading_lock, barrier, host, todo, views>>
  BY DEF ExecuteKernel
<1>2. compute' \in Seq([at : Places, uid : Uids, after : Waits])
  <2>1. compute \in Seq([at : Places, uid : Uids, after : Waits]) /\ compute # <<>>
    BY DEF IInv, QueueType, ExecuteKernel, Runnable
  <2> QED
    BY <2>1 DEF ExecuteKernel
<1>3. QueueType'
  BY <1>1, <1>2 DEF IInv, QueueType
<1> QED
  BY <1>1, <1>3, SameIndex

(* What todo holds. *)
LEMMA TodoTypes ==
  ASSUME HostType
  PROVE  /\ Len(todo) \in 1 .. 2 => todo[1] \in SUBSET Experts
         /\ Len(todo) = 2 => todo[2] \in SUBSET Experts
         /\ \A A \in SUBSET Experts : <<A>> \in Seq(SUBSET Experts)
         /\ \A A, B \in SUBSET Experts : <<A, B>> \in Seq(SUBSET Experts)
<1> DEFINE T == SUBSET Experts
<1>1. todo \in Seq(T)
  BY DEF HostType
<1> SUFFICES /\ Len(todo) \in 1 .. 2 => todo[1] \in T
             /\ Len(todo) = 2 => todo[2] \in T
             /\ \A A \in T : <<A>> \in Seq(T)
             /\ \A A, B \in T : <<A, B>> \in Seq(T)
  OBVIOUS
<1> HIDE DEF T
<1>2. Len(todo) \in 1 .. 2 => todo[1] \in T
  BY <1>1
<1>3. Len(todo) = 2 => todo[2] \in T
  BY <1>1
<1> QED
  BY <1>2, <1>3

(* What UNCHANGED leaves true. *)
LEMMA IndexUnchanged ==
  ASSUME UNCHANGED index
  PROVE  /\ IndexType => IndexType'
         /\ SlotPartition => SlotPartition'
         /\ \A l \in Layers : Loaded(l)' = Loaded(l)
BY DEF index, IndexType, SlotPartition, Loaded

LEMMA QueuesUnchanged ==
  ASSUME QueueType,
         UNCHANGED <<copies, gpu, prefetch_lock, loading_lock, barrier, views>>
  PROVE  QueueType'
BY DEF QueueType, gpu

LEMMA StoreStep == ASSUME IInv, Store PROVE IInv'
<1>1. layer \in Layers /\ Len(todo) = 1 /\ todo[1] # {}
  <2>1. layer < L /\ Len(todo) = 1 /\ todo[1] # {}
    BY DEF IInv, ControlInv, Store
  <2>2. layer \in 0 .. L
    BY DEF IInv, HostType
  <2> QED
    BY <2>1, <2>2, ExpertCacheAssumption DEF Layers
<1>2. todo[1] \in SUBSET Experts
  BY <1>1, TodoTypes DEF IInv
<1> PICK l \in Layers : l = layer
  BY <1>1
<1> PICK e \in Experts : e = Smallest(todo[1]) /\ e \in todo[1]
  BY <1>1, <1>2, SmallestElement
<1>3. /\ pc = "loading" /\ todo[1] # {}
      /\ LoadIntoSlot(l, e, "copy") \/ (free[l] = {} /\ UNCHANGED <<index, copies>>)
      /\ todo' = <<todo[1] \ {e}>>
      /\ UNCHANGED <<gpu, prefetch_lock, loading_lock, barrier, host, views>>
  BY DEF Store
<1>4. loaded[l][e] = None
  BY <1>3 DEF IInv, FullInv, Loaded
<1>5. IndexInv /\ CopiesType
  BY DEF IInv, IndexInv, CopiesType, QueueType
<1>6. HostType'
  <2>1. todo' \in Seq(SUBSET Experts)
    BY <1>3, <1>2, TodoTypes DEF IInv
  <2> QED
    BY <1>3, <2>1 DEF IInv, HostType, host
<1>7. ControlInv'
  BY <1>3, <1>1 DEF IInv, ControlInv, host
<1>8. CASE LoadIntoSlot(l, e, "copy")
  <2>1. /\ IndexInv' /\ CopiesType'
        /\ \A k \in Layers \ {l} : free'[k] = free[k] /\ loaded'[k] = loaded[k]
        /\ free'[l] \subseteq free[l]
        /\ Loaded(l)' = Loaded(l) \cup {e}
    <3>1. "copy" \in Streams
      BY DEF Streams
    <3> QED
      BY <1>4, <1>5, <1>8, <3>1, SlotLoad
  <2>2. free[l] # {}
    BY <1>8 DEF LoadIntoSlot
  <2>3. FullInv'
    <3>1. pc' = "loading" /\ layer' = l /\ todo'[1] = todo[1] \ {e}
      BY <1>3 DEF host
    <3>2. \A k \in Layers : k < l => free'[k] = {}
      BY <1>3, <2>1 DEF IInv, FullInv, Layers
    <3>3. \A k \in Layers : k > l => Loaded(k)' = {}
      <4>1. \A k \in Layers : k > l => k # l
        BY DEF Layers
      <4> QED
        BY <1>3, <2>1, <4>1 DEF IInv, FullInv, Loaded
    <3>4. todo'[1] \cap Loaded(l)' = {}
      BY <1>3, <2>1, <3>1 DEF IInv, FullInv
    <3>5. Experts \ todo'[1] \subseteq Loaded(l)'
      BY <1>3, <2>1, <2>2, <3>1 DEF IInv, FullInv
    <3> QED
      BY <3>1, <3>2, <3>3, <3>4, <3>5 DEF FullInv, Loaded
  <2>4. QueueType'
    BY <1>3, <2>1 DEF IInv, QueueType, CopiesType, gpu
  <2> QED
    BY <1>6, <1>7, <2>1, <2>3, <2>4 DEF IInv, IndexInv
<1>9. CASE free[l] = {} /\ UNCHANGED <<index, copies>>
  <2>1. IndexType' /\ SlotPartition'
    BY <1>9 DEF IInv, IndexType, SlotPartition, index, Loaded
  <2>2. QueueType'
    BY <1>3, <1>9 DEF IInv, QueueType, gpu
  <2>3. FullInv'
    <3>1. pc' = "loading" /\ layer' = l /\ todo'[1] = todo[1] \ {e}
      BY <1>3 DEF host
    <3>2. free' = free /\ \A k \in Layers : Loaded(k)' = Loaded(k)
      BY <1>9 DEF index, Loaded
    <3> QED
      BY <1>3, <1>9, <3>1, <3>2 DEF IInv, FullInv
  <2> QED
    BY <1>6, <1>7, <2>1, <2>2, <2>3 DEF IInv
<1> QED
  BY <1>3, <1>8, <1>9

LEMMA NextLayerToLoadStep == ASSUME IInv, NextLayerToLoad PROVE IInv'
<1>1. /\ pc = "loading" /\ todo[1] = {} /\ layer < L - 1 /\ layer' = layer + 1
      /\ todo' = <<Experts>> /\ pc' = "loading"
      /\ UNCHANGED <<index, copies, gpu, prefetch_lock, loading_lock, barrier,
                     pc, kind, passes, views>>
  BY DEF NextLayerToLoad
<1>2. L \in Nat /\ layer \in Nat /\ layer \in Layers
  BY <1>1, ExpertCacheAssumption DEF IInv, HostType, Layers
<1>3. IndexType' /\ SlotPartition' /\ QueueType'
  BY <1>1, IndexUnchanged, QueuesUnchanged DEF IInv
<1>4. HostType'
  <2>1. todo' \in Seq(SUBSET Experts)
    BY <1>1, TodoTypes DEF IInv
  <2> QED
    BY <1>1, <1>2, <2>1 DEF IInv, HostType
<1>5. ControlInv'
  BY <1>1, <1>2 DEF ControlInv
<1>6. free[layer] = {}
  <2>1. free[layer] # {} => Experts \subseteq Loaded(layer)
    BY <1>1 DEF IInv, FullInv
  <2> QED
    BY <1>2, <2>1, CacheFull DEF IInv, IndexInv
<1>7. FullInv'
  <2>1. \A k \in Layers : k < layer + 1 => k < layer \/ k = layer
    BY <1>2 DEF Layers
  <2>2. \A k \in Layers : k < layer + 1 => free[k] = {}
    BY <1>1, <1>6, <2>1 DEF IInv, FullInv
  <2>3. \A k \in Layers : k >= layer + 1 => Loaded(k) = {}
    BY <1>1, <1>2 DEF IInv, FullInv, Layers
  <2>4. layer + 1 \in Layers
    BY <1>1, <1>2 DEF Layers
  <2>5. \A k \in Layers : k > layer + 1 => k >= layer + 1
    BY <1>2 DEF Layers
  <2>6. Loaded(layer + 1) = {}
    BY <1>2, <2>3, <2>4
  <2>7. free' = free /\ (\A k \in Layers : Loaded(k)' = Loaded(k)) /\ Loaded(layer)' = Loaded(layer + 1)
    BY <1>1 DEF index, Loaded
  <2> QED
    BY <1>1, <2>2, <2>3, <2>5, <2>6, <2>7 DEF FullInv
<1> QED
  BY <1>3, <1>4, <1>5, <1>7 DEF IInv

LEMMA AllLoadedStep == ASSUME IInv, AllLoaded PROVE IInv'
<1>1. /\ pc = "loading" /\ todo[1] = {} /\ layer = L - 1 /\ layer' = L /\ pc' = "idle"
      /\ UNCHANGED <<index, copies, gpu, prefetch_lock, loading_lock, barrier,
                     kind, passes, todo, views>>
  BY DEF AllLoaded
<1>2. L \in Nat \ {0} /\ layer \in Layers
  BY <1>1, ExpertCacheAssumption DEF Layers
<1>3. IndexType' /\ SlotPartition' /\ QueueType'
  BY <1>1, IndexUnchanged, QueuesUnchanged DEF IInv
<1>4. HostType' /\ ControlInv'
  BY <1>1, <1>2 DEF IInv, HostType, ControlInv
<1>5. free[layer] = {}
  <2>1. free[layer] # {} => Experts \subseteq Loaded(layer)
    BY <1>1 DEF IInv, FullInv
  <2> QED
    BY <1>2, <2>1, CacheFull DEF IInv, IndexInv
<1>6. FullInv'
  <2>1. \A k \in Layers : k < layer \/ k = layer
    BY <1>1, <1>2 DEF Layers
  <2> QED
    BY <1>1, <1>5, <2>1 DEF IInv, FullInv, index
<1> QED
  BY <1>3, <1>4, <1>6 DEF IInv

(* Steps that leave the index alone once the weights are loaded. *)
LEMMA LoadedAndSameIndex ==
  ASSUME IInv, UNCHANGED index, pc # "loading", pc' # "loading",
         QueueType', HostType', ControlInv'
  PROVE  IInv'
<1>1. IndexType' /\ SlotPartition'
  BY IndexUnchanged DEF IInv
<1>2. FullInv'
  BY DEF IInv, FullInv, index
<1> QED
  BY <1>1, <1>2 DEF IInv

LEMMA BeginPassStep == ASSUME IInv, BeginPass PROVE IInv'
<1>1. /\ pc = "idle" /\ pc' = "idle" /\ layer' = 0 /\ kind' \in Kinds /\ passes' = passes + 1
      /\ UNCHANGED <<index, copies, gpu, prefetch_lock, loading_lock, barrier, todo, views>>
  BY DEF BeginPass
<1>2. QueueType'
  BY <1>1, QueuesUnchanged DEF IInv
<1>3. HostType' /\ ControlInv'
  BY <1>1, ExpertCacheAssumption DEF IInv, HostType, ControlInv
<1> QED
  BY <1>1, <1>2, <1>3, LoadedAndSameIndex

LEMMA ForwardStep == ASSUME IInv, Forward PROVE IInv'
<1>1. /\ pc = "idle" /\ layer < L /\ pc' = "lookup" /\ barrier' = AfterPrefetch
      /\ UNCHANGED <<index, copies, gpu, prefetch_lock, loading_lock,
                     layer, kind, passes, views>>
  BY DEF Forward
<1>2. PICK A \in SUBSET Experts, B \in SUBSET Experts : todo' = <<A, B>>
  <2> PICK selected \in SUBSET Experts :
        LET hits == selected \cap Loaded(layer)
            misses == selected \ Loaded(layer)
        IN  \/ todo' = <<hits, misses>>
            \/ \E some \in SUBSET hits : todo' = <<some, {}>>
            \/ \E some \in SUBSET misses : todo' = <<hits, some>>
    BY DEF Forward
  <2> QED
    OBVIOUS
<1>3. QueueType'
  BY <1>1, AfterPrefetchType DEF IInv, QueueType, gpu
<1>4. HostType'
  <2>1. todo' \in Seq(SUBSET Experts)
    BY <1>2, TodoTypes DEF IInv
  <2> QED
    BY <1>1, <2>1 DEF IInv, HostType
<1>5. ControlInv'
  BY <1>1, <1>2 DEF ControlInv
<1> QED
  BY <1>1, <1>3, <1>4, <1>5, LoadedAndSameIndex

LEMMA EndLookupsStep == ASSUME IInv, EndLookups PROVE IInv'
<1>1. /\ pc = "lookup"
      /\ UNCHANGED <<index, copies, gpu, prefetch_lock, loading_lock, barrier,
                     layer, kind, passes, views>>
  BY DEF EndLookups
<1>2. layer < L
  BY <1>1 DEF IInv, ControlInv
<1>3. QueueType'
  BY <1>1, QueuesUnchanged DEF IInv
<1>4. CASE /\ layer < L - 1 /\ pc' = "prefetch"
           /\ \E best \in SUBSET Experts : todo' = <<best>>
  <2>1. todo' \in Seq(SUBSET Experts) /\ Len(todo') = 1
    BY <1>4, TodoTypes DEF IInv
  <2>2. HostType'
    BY <1>1, <1>4, <2>1 DEF IInv, HostType
  <2>3. ControlInv'
    BY <1>1, <1>2, <1>4, <2>1 DEF ControlInv
  <2> QED
    BY <1>1, <1>3, <1>4, <2>2, <2>3, LoadedAndSameIndex
<1>5. CASE pc' = "use" /\ todo' = <<>>
  <2>1. HostType'
    BY <1>1, <1>5 DEF IInv, HostType
  <2>2. ControlInv'
    BY <1>1, <1>2, <1>5 DEF ControlInv
  <2> QED
    BY <1>1, <1>3, <1>5, <2>1, <2>2, LoadedAndSameIndex
<1> QED
  BY <1>4, <1>5 DEF EndLookups

LEMMA EndPrefetchStep == ASSUME IInv, EndPrefetch PROVE IInv'
<1>1. /\ pc = "prefetch" /\ pc' = "use" /\ todo' = <<>>
      /\ UNCHANGED <<index, copies, gpu, prefetch_lock, loading_lock, barrier,
                     layer, kind, passes, views>>
  BY DEF EndPrefetch
<1>2. QueueType'
  BY <1>1, QueuesUnchanged DEF IInv
<1>3. HostType'
  BY <1>1 DEF IInv, HostType
<1>4. ControlInv'
  BY <1>1 DEF IInv, ControlInv
<1> QED
  BY <1>1, <1>2, <1>3, <1>4, LoadedAndSameIndex

LEMMA EndResetStep == ASSUME IInv, EndReset PROVE IInv'
<1>1. /\ pc = "reset" /\ pc' = "idle" /\ todo' = <<>> /\ layer' = layer + 1
      /\ UNCHANGED <<index, copies, gpu, prefetch_lock, loading_lock, barrier,
                     kind, passes, views>>
  BY DEF EndReset
<1>2. QueueType'
  BY <1>1, QueuesUnchanged DEF IInv
<1>3. layer < L
  BY <1>1 DEF IInv, ControlInv
<1>4. HostType'
  BY <1>1, <1>3, ExpertCacheAssumption DEF IInv, HostType
<1>5. ControlInv'
  BY <1>1 DEF ControlInv
<1> QED
  BY <1>1, <1>2, <1>4, <1>5, LoadedAndSameIndex

LEMMA UseStep == ASSUME IInv, Use PROVE IInv'
<1>1. /\ pc = "use" /\ views # <<>>
      /\ compute' = Append(compute, [at |-> Head(views).at, uid |-> Head(views).uid,
                                     after |-> Later(barrier, LoadingWait(Head(views).uid[2]))])
      /\ views' = Tail(views)
      /\ UNCHANGED <<index, copies, memory, prefetch_lock, loading_lock, barrier, host, todo>>
  BY DEF Use
<1>2. layer \in Layers
  BY <1>1, ExpertCacheAssumption DEF IInv, ControlInv, HostType, Layers
<1>3. Head(views) \in [at : Places, uid : Uids] /\ views' \in Seq([at : Places, uid : Uids])
  BY <1>1, SequenceParts DEF IInv, QueueType
<1>4. Head(views).uid[2] \in Experts
  BY <1>3 DEF Uids
<1>5. LoadingWait(Head(views).uid[2]) \in Waits /\ barrier \in Waits
  BY <1>2, <1>4 DEF IInv, QueueType, LoadingWait
<1>6. [at |-> Head(views).at, uid |-> Head(views).uid,
       after |-> Later(barrier, LoadingWait(Head(views).uid[2]))]
        \in [at : Places, uid : Uids, after : Waits]
  BY <1>3, <1>5, EventTypes
<1>7. compute' \in Seq([at : Places, uid : Uids, after : Waits])
  BY <1>1, <1>6, SequenceParts DEF IInv, QueueType
<1>8. QueueType'
  BY <1>1, <1>3, <1>7 DEF IInv, QueueType
<1> QED
  BY <1>1, <1>8, SameIndex

LEMMA EndForwardStep == ASSUME IInv, EndForward PROVE IInv'
<1>1. /\ pc = "use"
      /\ UNCHANGED <<loaded, free, copies, gpu, prefetch_lock, loading_lock, barrier,
                     kind, passes, views>>
  BY DEF EndForward
<1>2. layer < L /\ layer \in 0 .. L /\ L \in Nat
  BY <1>1, ExpertCacheAssumption DEF IInv, ControlInv, HostType
<1>3. QueueType'
  BY <1>1, QueuesUnchanged DEF IInv
<1>4. SlotPartition'
  BY <1>1 DEF IInv, SlotPartition, Loaded
<1>5. CASE /\ buffer_slots' = [i \in Experts |-> NoUid]
           /\ todo' = <<IF layer < L - 2 THEN Experts ELSE {}>>
           /\ pc' = "reset" /\ layer' = layer
  <2>1. IndexType'
    BY <1>1, <1>5 DEF IInv, IndexType
  <2>2. todo' \in Seq(SUBSET Experts) /\ Len(todo') = 1
    BY <1>5, TodoTypes DEF IInv
  <2>3. HostType'
    BY <1>1, <1>2, <1>5, <2>2 DEF IInv, HostType
  <2>4. \A i \in todo'[1] : layer' < L - 2 /\ BufferFree(i)'
    BY <1>5 DEF BufferFree
  <2>5. ControlInv'
    BY <1>2, <1>5, <2>2, <2>4 DEF ControlInv
  <2>6. FullInv'
    BY <1>1, <1>5 DEF IInv, FullInv
  <2> QED
    BY <1>3, <1>4, <2>1, <2>3, <2>5, <2>6 DEF IInv
<1>6. CASE layer' = layer + 1 /\ pc' = "idle" /\ UNCHANGED <<buffer_slots, todo>>
  <2>1. HostType'
    BY <1>1, <1>2, <1>6 DEF IInv, HostType
  <2>2. ControlInv'
    BY <1>6 DEF ControlInv
  <2> QED
    BY <1>1, <1>3, <1>6, <2>1, <2>2, LoadedAndSameIndex DEF index
<1> QED
  BY <1>5, <1>6 DEF EndForward

(* An expert that was found, or has just been loaded, has a place. *)
LEMMA PlaceFound ==
  ASSUME IndexType', NEW l \in Layers, NEW e \in Experts, Found(l, e)'
  PROVE  PlaceOf(l, e)' \in Places
<1>1. CASE loaded'[l][e] # None
  <2>1. loaded'[l][e] \in 0 .. L * LoadSize - 1
    BY <1>1 DEF IndexType
  <2>2. PlaceOf(l, e)' = <<"slot", loaded'[l][e]>>
    BY <1>1 DEF PlaceOf
  <2> QED
    BY <2>1, <2>2, PlacesAre
<1>2. CASE loaded'[l][e] = None
  <2> DEFINE S == {i \in Experts : buffer_slots'[i] = <<l, e>>}
             chosen == CHOOSE i \in Experts :
                         /\ buffer_slots'[i] = <<l, e>>
                         /\ \A j \in 0 .. i - 1 : buffer_slots'[j] # <<l, e>>
  <2>1. PlaceOf(l, e)' = <<"buffer", chosen>>
    BY <1>2 DEF PlaceOf
  <2>2. S \in SUBSET Nat /\ S # {}
    BY <1>2, ExpertCacheAssumption DEF Found, InBuffer, Experts
  <2>3. PICK m \in S : \A k \in S : m <= k
    BY <2>2, Least
  <2>4. m \in Experts /\ buffer_slots'[m] = <<l, e>>
        /\ \A j \in 0 .. m - 1 : buffer_slots'[j] # <<l, e>>
    <3>1. ASSUME NEW j \in 0 .. m - 1, buffer_slots'[j] = <<l, e>> PROVE FALSE
      <4>1. m \in Experts /\ j \in Experts /\ j < m /\ m \in Int /\ j \in Int
        BY <3>1, ExpertCacheAssumption DEF Experts
      <4> QED
        BY <2>3, <3>1, <4>1
    <3> QED
      BY <3>1
  <2>5. chosen \in Experts
    BY <2>4
  <2> QED
    BY <2>1, <2>5, PlacesAre
<1> QED
  BY <1>1, <1>2

LEMMA LookupStep == ASSUME IInv, NEW e \in Experts, Lookup(e) PROVE IInv'
<1>1. pc = "lookup" /\ UNCHANGED <<gpu, prefetch_lock, barrier, host>>
      /\ views' = Append(views, Item(PlaceOf(layer, e)', <<layer, e>>))
      /\ todo' = <<todo[1] \ {e}, todo[2] \ {e}>>
  BY DEF Lookup
<1>2. layer \in Layers /\ Len(todo) = 2
  BY <1>1, ExpertCacheAssumption DEF IInv, ControlInv, HostType, Layers
<1> PICK l \in Layers : l = layer
  BY <1>2
<1>3. \/ Found(l, e) /\ UNCHANGED <<index, copies, loading_lock>>
      \/ /\ ~Found(l, e)
         /\ LoadForPrefill(l, e) \/ LoadForDecode(l, e, "copy")
         /\ loading_lock' = [loading_lock EXCEPT ![l][e] = Recorded("copy")]
  BY DEF Lookup
<1>4. IndexInv /\ CopiesType /\ "copy" \in Streams
  BY DEF IInv, IndexInv, CopiesType, QueueType, Streams
<1>5. /\ IndexInv' /\ CopiesType' /\ Found(l, e)'
      /\ \A k \in Layers : free[k] = {} => free'[k] = {}
      /\ loading_lock' \in [Layers -> [Experts -> Waits]]
  <2>1. CASE Found(l, e) /\ UNCHANGED <<index, copies, loading_lock>>
    <3>1. IndexInv'
      BY <1>4, <2>1, IndexUnchanged DEF IndexInv
    <3>2. CopiesType' /\ Found(l, e)' /\ free' = free
      BY <1>4, <2>1 DEF CopiesType, Found, InBuffer, index
    <3>3. loading_lock' \in [Layers -> [Experts -> Waits]]
      BY <2>1 DEF IInv, QueueType
    <3> QED
      BY <3>1, <3>2, <3>3
  <2>2. CASE /\ ~Found(l, e)
             /\ LoadForPrefill(l, e) \/ LoadForDecode(l, e, "copy")
             /\ loading_lock' = [loading_lock EXCEPT ![l][e] = Recorded("copy")]
    <3>1. loaded[l][e] = None
      BY <2>2 DEF Found
    <3>2. /\ IndexInv' /\ CopiesType' /\ Found(l, e)'
          /\ \A k \in Layers : free[k] = {} => free'[k] = {}
      BY <1>4, <2>2, <3>1, PrefillLoad, DecodeLoad
    <3>3. loading_lock' \in [Layers -> [Experts -> Waits]]
      <4>1. Recorded("copy") \in Waits
        BY <1>4, RecordedType
      <4> QED
        BY <2>2, <4>1 DEF IInv, QueueType
    <3> QED
      BY <3>2, <3>3
  <2> QED
    BY <1>3, <2>1, <2>2
<1>6. views' \in Seq([at : Places, uid : Uids])
  <2>1. PlaceOf(l, e)' \in Places
    BY <1>5, PlaceFound DEF IndexInv
  <2>2. PlaceOf(layer, e)' = PlaceOf(l, e)'
    BY <1>1 DEF PlaceOf, host
  <2>3. Item(PlaceOf(layer, e)', <<layer, e>>) \in [at : Places, uid : Uids]
    BY <2>1, <2>2 DEF Item, Uids
  <2> QED
    BY <1>1, <2>3, SequenceParts DEF IInv, QueueType
<1>7. QueueType'
  BY <1>1, <1>5, <1>6 DEF IInv, QueueType, CopiesType, gpu
<1>8. todo' \in Seq(SUBSET Experts) /\ Len(todo') = 2
  <2>1. todo[1] \ {e} \in SUBSET Experts /\ todo[2] \ {e} \in SUBSET Experts
    BY <1>2, TodoTypes DEF IInv
  <2> QED
    BY <1>1, <2>1, TodoTypes DEF IInv
<1>9. HostType'
  BY <1>1, <1>8 DEF IInv, HostType, host
<1>10. ControlInv'
  BY <1>1, <1>8 DEF IInv, ControlInv, host
<1>11. FullInv'
  BY <1>1, <1>5 DEF IInv, FullInv, host
<1> QED
  BY <1>5, <1>7, <1>9, <1>10, <1>11 DEF IInv, IndexInv

LEMMA PrefetchStep == ASSUME IInv, NEW e \in Experts, Prefetch(e) PROVE IInv'
<1>1. pc = "prefetch" /\ UNCHANGED <<gpu, loading_lock, barrier, host, views>>
      /\ todo' = <<todo[1] \ {e}>>
  BY DEF Prefetch
<1>2. layer + 1 \in Layers /\ Len(todo) = 1
  BY <1>1, ExpertCacheAssumption DEF IInv, ControlInv, HostType, Layers
<1> PICK l \in Layers : l = layer + 1
  BY <1>2
<1>3. \/ UNCHANGED <<index, copies, prefetch_lock>>
      \/ /\ loaded[l][e] = None
         /\ LoadForDecode(l, e, "prefetch")
         /\ \E idx : prefetch_lock' = [prefetch_lock EXCEPT ![idx] = Recorded("prefetch")]
  BY DEF Prefetch
<1>4. IndexInv /\ CopiesType /\ "prefetch" \in Streams
  BY DEF IInv, IndexInv, CopiesType, QueueType, Streams
<1>5. /\ IndexInv' /\ CopiesType'
      /\ \A k \in Layers : free[k] = {} => free'[k] = {}
      /\ prefetch_lock' \in [Experts -> Waits]
  <2>1. CASE UNCHANGED <<index, copies, prefetch_lock>>
    <3>1. IndexInv'
      BY <1>4, <2>1, IndexUnchanged DEF IndexInv
    <3>2. CopiesType' /\ free' = free
      BY <1>4, <2>1 DEF CopiesType, index
    <3>3. prefetch_lock' \in [Experts -> Waits]
      BY <2>1 DEF IInv, QueueType
    <3> QED
      BY <3>1, <3>2, <3>3
  <2>2. CASE /\ loaded[l][e] = None
             /\ LoadForDecode(l, e, "prefetch")
             /\ \E idx : prefetch_lock' = [prefetch_lock EXCEPT ![idx] = Recorded("prefetch")]
    <3>1. /\ IndexInv' /\ CopiesType'
          /\ \A k \in Layers : free[k] = {} => free'[k] = {}
      BY <1>4, <2>2, DecodeLoad
    <3>2. prefetch_lock' \in [Experts -> Waits]
      <4>1. Recorded("prefetch") \in Waits
        BY <1>4, RecordedType
      <4> QED
        BY <2>2, <4>1 DEF IInv, QueueType
    <3> QED
      BY <3>1, <3>2
  <2> QED
    BY <1>3, <2>1, <2>2
<1>6. QueueType'
  BY <1>1, <1>5 DEF IInv, QueueType, CopiesType, gpu
<1>7. todo' \in Seq(SUBSET Experts) /\ Len(todo') = 1
  <2>1. todo[1] \ {e} \in SUBSET Experts
    BY <1>2, TodoTypes DEF IInv
  <2> QED
    BY <1>1, <2>1, TodoTypes DEF IInv
<1>8. HostType'
  BY <1>1, <1>7 DEF IInv, HostType, host
<1>9. ControlInv'
  BY <1>1, <1>7 DEF IInv, ControlInv, host
<1>10. FullInv'
  BY <1>1, <1>5 DEF IInv, FullInv, host
<1> QED
  BY <1>5, <1>6, <1>8, <1>9, <1>10 DEF IInv, IndexInv

(* Here the cache is full and the buffer has room: what the loop does not  *)
(* test, that the expert is not loaded, does not matter.                   *)
LEMMA ReloadStep == ASSUME IInv, Reload PROVE IInv'
<1>1. /\ pc = "reset" /\ todo[1] # {}
      /\ UNCHANGED <<gpu, loading_lock, barrier, host, views>>
  BY DEF Reload
<1>2. Len(todo) = 1 /\ layer \in 0 .. L /\ \A i \in todo[1] : layer < L - 2 /\ BufferFree(i)
  BY <1>1 DEF IInv, ControlInv, HostType
<1>3. todo[1] \in SUBSET Experts
  BY <1>2, TodoTypes DEF IInv
<1> PICK e \in Experts : e = Smallest(todo[1]) /\ e \in todo[1] /\ \A f \in todo[1] : e <= f
  BY <1>1, <1>3, SmallestElement
<1>4. layer + 2 \in Layers
  BY <1>2, ExpertCacheAssumption DEF Layers
<1> PICK l \in Layers : l = layer + 2
  BY <1>4
<1>5. /\ LoadForPrefill(l, e)
      /\ prefetch_lock' = [prefetch_lock EXCEPT ![e] = Recorded("copy")]
      /\ todo' = <<todo[1] \ {e}>>
  BY DEF Reload
<1>6. IndexInv /\ CopiesType /\ "copy" \in Streams
  BY DEF IInv, IndexInv, CopiesType, QueueType, Streams
<1>7. free[l] = {} /\ RoomInBuffer
  BY <1>1, <1>2 DEF IInv, FullInv, RoomInBuffer
<1>8. LoadIntoBuffer(l, e)
  BY <1>5, <1>7 DEF LoadForPrefill, LoadIntoSlot
<1>9. /\ IndexInv' /\ CopiesType' /\ UNCHANGED <<loaded, free>>
      /\ \A i \in Experts : BufferFree(i) =>
           FirstBuffer <= i /\ (i # FirstBuffer => BufferFree(i)')
  BY <1>6, <1>8, BufferLoad
<1>10. \A f \in todo[1] \ {e} : BufferFree(f)'
  <2> TAKE f \in todo[1] \ {e}
  <2>1. f \in Int /\ e \in Int /\ e < f
    BY <1>3, ExpertCacheAssumption DEF Experts
  <2>2. FirstBuffer <= e /\ BufferFree(f) /\ f \in Experts
    BY <1>2, <1>3, <1>9
  <2>3. f # FirstBuffer
    BY <2>1, <2>2
  <2> QED
    BY <1>9, <2>2, <2>3
<1>11. QueueType'
  <2>1. Recorded("copy") \in Waits
    BY <1>6, RecordedType
  <2> QED
    BY <1>1, <1>5, <1>9, <2>1 DEF IInv, QueueType, CopiesType, gpu
<1>12. todo' \in Seq(SUBSET Experts) /\ Len(todo') = 1 /\ todo'[1] = todo[1] \ {e}
  BY <1>3, <1>5, TodoTypes DEF IInv
<1>13. HostType'
  BY <1>1, <1>12 DEF IInv, HostType, host
<1>14. ControlInv'
  BY <1>1, <1>2, <1>10, <1>12 DEF IInv, ControlInv, host
<1>15. FullInv'
  BY <1>1, <1>9 DEF IInv, FullInv, host
<1> QED
  BY <1>9, <1>11, <1>13, <1>14, <1>15 DEF IInv, IndexInv

-----------------------------------------------------------------------------
(* Every step preserves the invariant. *)
LEMMA Inductive == IInv /\ [Next]_vars => IInv'
<1> SUFFICES ASSUME IInv, [Next]_vars PROVE IInv'
  OBVIOUS
<1>1. CASE BeginPass
  BY <1>1, BeginPassStep
<1>2. CASE Work
  BY <1>2, StoreStep, NextLayerToLoadStep, AllLoadedStep, ForwardStep, EndLookupsStep,
     EndPrefetchStep, UseStep, EndForwardStep, ReloadStep, EndResetStep, LookupStep,
     PrefetchStep DEF Work
<1>3. CASE ExecuteKernel
  BY <1>3, ExecuteKernelStep
<1>4. CASE \E s \in Streams : ExecuteCopy(s)
  BY <1>4, ExecuteCopyStep
<1>5. CASE UNCHANGED vars
  <2>1. UNCHANGED <<index, host, todo>> /\ QueueType'
    BY <1>5, QueuesUnchanged DEF vars, IInv
  <2> QED
    BY <2>1, SameIndex
<1> QED
  BY <1>1, <1>2, <1>3, <1>4, <1>5 DEF Next

LEMMA InvariantHolds == Spec => []IInv
BY InitIInv, Inductive, PTL DEF Spec

(* Type correctness: in particular every slot the index names exists, no   *)
(* look-up takes a view of a buffer that is not there, and the host never  *)
(* goes past the last layer.                                               *)
THEOREM TypeCorrect == Spec => []TypeOK
<1>1. IInv => TypeOK
  BY DEF IInv, IndexType, QueueType, HostType, TypeOK
<1> QED
  BY <1>1, InvariantHolds, PTL

(* Whatever is loaded, prefetched, evicted or reset, the slots of a layer  *)
(* are its free slots and those of its loaded experts, each once: experts  *)
(* of one layer never share a slot, and no layer gets one of another.      *)
THEOREM SlotsPartitioned == Spec => []SlotPartition
<1>1. IInv => SlotPartition
  BY DEF IInv
<1> QED
  BY <1>1, InvariantHolds, PTL

-----------------------------------------------------------------------------
(***************************************************************************)
(* Proofs about ExpertCache: the index tells the truth about the slots,    *)
(* and a kernel whose expert still has its place runs on its weights.      *)
(*                                                                         *)
(* Two streams write the places and nothing orders them with each other,   *)
(* so the truth of the index rests on a fact about time: when an expert is *)
(* put into a place from one stream, the other has nothing to do there any *)
(* more.  The host knows it only through events.  The invariant says which *)
(* event awaits each copy that is enqueued: that is what makes the waits   *)
(* of forward sufficient, and it holds only because every layer waits for  *)
(* all prefetch_locks and a pass ends with the last layer's kernels.       *)
(***************************************************************************)

(* The buffers hold what buffer_slots says. *)
BufferTruthful ==
  \A i \in Experts : ~BufferFree(i) => WillHold(<<"buffer", i>>, buffer_slots[i])

(* A copy into a slot is of an expert of the slot's layer. *)
Placed ==
  \A s \in Streams : \A j \in DOMAIN copies[s] :
    copies[s][j].at[1] = "slot" => copies[s][j].at[2] \in Slots(copies[s][j].uid[1])

TruthInv == IndexTruthful /\ BufferTruthful /\ Placed

(* Only decode uses the prefetch stream, and leaves it empty to a prefill. *)
KindInv ==
  /\ pc = "loading" => kind = "prefill"
  /\ pc = "prefetch" => kind = "decode" /\ Cardinality(todo[1]) <= PrefetchSize
  /\ pc = "reset" => kind = "prefill"
  /\ kind = "prefill" => copies["prefetch"] = <<>>

(* A prefetch_lock awaits the last copy of the prefetch stream. *)
PrefetchAwaited ==
  copies["prefetch"] # <<>> =>
    \E i \in Experts : prefetch_lock[i]["prefetch"] >= Len(copies["prefetch"])

(* There may be refilled buffers that no forward has waited for. *)
Refilled ==
  /\ kind = "prefill"
  /\ (pc = "reset" /\ layer < L - 2) \/ (pc = "idle" /\ layer < L)

(* So does something the compute stream has yet to get past for the last   *)
(* copy of the copy stream.                                                *)
CopyAwaited ==
  pc # "loading" /\ copies["copy"] # <<>> =>
    \/ barrier["copy"] >= Len(copies["copy"])
    \/ \E k \in DOMAIN views :
         loading_lock[layer][views[k].uid[2]]["copy"] >= Len(copies["copy"])
    \/ \E k \in DOMAIN compute : compute[k].after["copy"] >= Len(copies["copy"])
    \/ /\ Refilled
       /\ \E i \in Experts : prefetch_lock[i]["copy"] >= Len(copies["copy"])

(* In a forward, a copy is behind its barrier, or a miss of this layer     *)
(* behind its loading_lock, or a prefetch for the next layer.              *)
Awaited(s, j) ==
  \/ j <= barrier[s]
  \/ /\ s = "copy" /\ copies[s][j].uid[1] = layer
     /\ j <= loading_lock[layer][copies[s][j].uid[2]][s]
  \/ s = "prefetch" /\ pc # "lookup" /\ copies[s][j].uid[1] = layer + 1

ForwardInv ==
  pc \in {"lookup", "prefetch", "use"} =>
    \A s \in Streams : \A j \in DOMAIN copies[s] : Awaited(s, j)

ViewInv ==
  /\ pc \in {"loading", "idle", "reset"} => views = <<>>
  /\ \A k \in DOMAIN views : views[k].uid[1] = layer

(* A kernel whose expert still has its place waits for all copies to it. *)
KernelWaits ==
  \A k \in DOMAIN compute : Current(compute[k].at, compute[k].uid) =>
    \A s \in Streams : \A j \in Pending(s, compute[k].at) : j <= compute[k].after[s]

KernelInv ==
  /\ pc \in {"loading", "lookup", "prefetch"} => compute = <<>>
  /\ pc \in {"use", "reset"} => \A k \in DOMAIN compute : compute[k].uid[1] = layer
  /\ KernelWaits

WaitInv ==
  /\ KindInv /\ PrefetchAwaited /\ CopyAwaited
  /\ ForwardInv /\ ViewInv /\ KernelInv

WInv == IInv /\ TruthInv /\ WaitInv

-----------------------------------------------------------------------------
(* What a copy that is enqueued, and one that is executed, does. *)

Copies == [at : Places, uid : Uids]

LEMMA Issued ==
  ASSUME CopiesType, NEW s \in Streams, NEW p \in Places, NEW u \in Uids, Issue(s, p, u)
  PROVE  /\ \A t \in Streams \ {s} : copies'[t] = copies[t]
         /\ Len(copies[s]) \in Nat /\ Len(copies'[s]) = Len(copies[s]) + 1
         /\ DOMAIN copies'[s] = DOMAIN copies[s] \cup {Len(copies[s]) + 1}
         /\ DOMAIN copies[s] = 1 .. Len(copies[s])
         /\ copies'[s][Len(copies[s]) + 1] = Item(p, u)
         /\ \A j \in DOMAIN copies[s] : copies'[s][j] = copies[s][j]
         /\ copies'[s] # <<>>
<1>1. copies[s] \in Seq(Copies) /\ copies \in [Streams -> Seq(Copies)]
  BY DEF CopiesType, Copies
<1>2. copies'[s] = Append(copies[s], Item(p, u)) /\ \A t \in Streams \ {s} : copies'[t] = copies[t]
  BY <1>1 DEF Issue
<1>3. Item(p, u) \in Copies
  BY DEF Item, Copies
<1> DEFINE q == copies[s]
           x == Item(p, u)
<1> HIDE DEF q, x
<1>4. ASSUME q \in Seq(Copies), x \in Copies
      PROVE  /\ Len(q) \in Nat /\ Len(Append(q, x)) = Len(q) + 1
             /\ DOMAIN Append(q, x) = DOMAIN q \cup {Len(q) + 1}
             /\ DOMAIN q = 1 .. Len(q)
             /\ Append(q, x)[Len(q) + 1] = x
             /\ \A j \in DOMAIN q : Append(q, x)[j] = q[j]
             /\ Append(q, x) # <<>>
  BY <1>4
<1> QED
  BY <1>1, <1>2, <1>3, <1>4 DEF q, x

(* A place that no other stream has a copy for will hold the new weights;  *)
(* nothing changes for the other places.                                   *)
LEMMA IssueHolds ==
  ASSUME CopiesType, NEW s \in Streams, NEW p \in Places, NEW u \in Uids, Issue(s, p, u),
         UNCHANGED memory
  PROVE  /\ (\A t \in Streams \ {s} : Pending(t, p) = {}) => WillHold(p, u)'
         /\ \A q \in Places \ {p} : \A v : WillHold(q, v) => WillHold(q, v)'
<1> DEFINE last == Len(copies[s]) + 1
<1>1. /\ \A t \in Streams \ {s} : copies'[t] = copies[t]
      /\ DOMAIN copies'[s] = DOMAIN copies[s] \cup {last}
      /\ DOMAIN copies[s] = 1 .. Len(copies[s]) /\ Len(copies[s]) \in Nat
      /\ copies'[s][last].at = p /\ copies'[s][last].uid = u
      /\ \A j \in DOMAIN copies[s] : copies'[s][j] = copies[s][j]
  <2>1. copies'[s][last] = Item(p, u)
    BY Issued
  <2>2. copies'[s][last].at = p /\ copies'[s][last].uid = u
    BY <2>1 DEF Item
  <2> QED
    BY <2>2, Issued
<1>2. last \in Nat /\ \A j \in DOMAIN copies[s] : j \in Nat /\ j < last
  BY <1>1
<1> HIDE DEF last
<1>3. \A t \in Streams \ {s} : \A q : Pending(t, q)' = Pending(t, q)
  BY <1>1 DEF Pending
<1>4. \A q : q # p => Pending(s, q)' = Pending(s, q)
  BY <1>1, <1>2 DEF Pending
<1>5. last \in Pending(s, p)' /\ \A k \in Pending(s, p)' : k = last \/ (k \in Nat /\ k < last)
  BY <1>1, <1>2 DEF Pending
<1>6. ASSUME \A t \in Streams \ {s} : Pending(t, p) = {} PROVE WillHold(p, u)'
  <2>1. \A t \in Streams \ {s} : Pending(t, p)' = {}
    BY <1>3, <1>6
  <2>2. \A k \in Pending(s, p)' : (\A j \in Pending(s, p)' : j <= k) => copies'[s][k].uid = u
    BY <1>1, <1>2, <1>5
  <2> QED
    BY <1>5, <2>1, <2>2 DEF WillHold
<1>7. ASSUME NEW q \in Places \ {p}, NEW v, WillHold(q, v) PROVE WillHold(q, v)'
  <2>1. \A t \in Streams : Pending(t, q)' = Pending(t, q)
    BY <1>3, <1>4
  <2>2. \A t \in Streams : \A k \in Pending(t, q) : copies'[t][k] = copies[t][k]
    BY <1>1 DEF Pending
  <2> QED
    BY <1>7, <2>1, <2>2 DEF WillHold
<1> QED
  BY <1>6, <1>7

LEMMA Executed ==
  ASSUME CopiesType, NEW s \in Streams, ExecuteCopy(s)
  PROVE  /\ \A t \in Streams \ {s} : copies'[t] = copies[t]
         /\ Len(copies[s]) \in Nat \ {0} /\ Len(copies'[s]) = Len(copies[s]) - 1
         /\ DOMAIN copies[s] = 1 .. Len(copies[s])
         /\ DOMAIN copies'[s] = 1 .. Len(copies[s]) - 1
         /\ \A j \in DOMAIN copies'[s] : copies'[s][j] = copies[s][j + 1]
         /\ Head(copies[s]) = copies[s][1] /\ copies[s][1] \in Copies
<1>1. copies[s] \in Seq(Copies) /\ copies \in [Streams -> Seq(Copies)] /\ copies[s] # <<>>
  BY DEF CopiesType, Copies, ExecuteCopy
<1>2. copies'[s] = Tail(copies[s]) /\ \A t \in Streams \ {s} : copies'[t] = copies[t]
  BY <1>1 DEF ExecuteCopy
<1> DEFINE q == copies[s]
<1> HIDE DEF q
<1>3. ASSUME q \in Seq(Copies), q # <<>>
      PROVE  /\ Len(q) \in Nat \ {0} /\ Len(Tail(q)) = Len(q) - 1
             /\ DOMAIN q = 1 .. Len(q)
             /\ DOMAIN Tail(q) = 1 .. Len(q) - 1
             /\ \A j \in DOMAIN Tail(q) : Tail(q)[j] = q[j + 1]
             /\ Head(q) = q[1] /\ q[1] \in Copies
  BY <1>3
<1> QED
  BY <1>1, <1>2, <1>3 DEF q

(* Executing a copy changes what no place will hold. *)
LEMMA ExecuteHolds ==
  ASSUME CopiesType, memory \in [Places -> Uids \cup {NoUid}], NEW s \in Streams, ExecuteCopy(s),
         NEW p \in Places, NEW u, WillHold(p, u)
  PROVE  WillHold(p, u)'
<1>1. /\ \A t \in Streams \ {s} : copies'[t] = copies[t]
      /\ Len(copies[s]) \in Nat \ {0}
      /\ DOMAIN copies[s] = 1 .. Len(copies[s])
      /\ DOMAIN copies'[s] = 1 .. Len(copies[s]) - 1
      /\ \A j \in DOMAIN copies'[s] : copies'[s][j] = copies[s][j + 1]
      /\ copies[s][1] \in Copies
  BY Executed
<1>2. memory' = [memory EXCEPT ![copies[s][1].at] = copies[s][1].uid] /\ copies[s][1].at \in Places
  BY <1>1, Executed DEF ExecuteCopy, Copies
<1>3. \A t \in Streams \ {s} : Pending(t, p)' = Pending(t, p)
  BY <1>1 DEF Pending
<1>4. /\ \A j \in Pending(s, p)' : j + 1 \in Pending(s, p) /\ j \in Nat
      /\ \A j \in Pending(s, p) : j \in Nat /\ (j = 1 \/ j - 1 \in Pending(s, p)')
  BY <1>1 DEF Pending
<1>5. CASE Pending(s, p) = {}
  <2>1. Pending(s, p)' = {}
    BY <1>4, <1>5
  <2>2. copies[s][1].at # p
    BY <1>1, <1>5 DEF Pending
  <2>3. memory'[p] = memory[p]
    BY <1>2, <2>2
  <2>4. \A t \in Streams : Pending(t, p)' = Pending(t, p)
    BY <1>3, <1>5, <2>1
  <2>5. \A t \in Streams : Pending(t, p) # {} => copies'[t] = copies[t]
    BY <1>1, <1>5
  <2> QED
    BY <2>3, <2>4, <2>5 DEF WillHold
<1>6. CASE Pending(s, p) # {}
  <2>1. /\ \A t \in Streams \ {s} : Pending(t, p) = {}
        /\ \A k \in Pending(s, p) : (\A j \in Pending(s, p) : j <= k) => copies[s][k].uid = u
    BY <1>6 DEF WillHold
  <2>2. CASE Pending(s, p)' = {}
    <3>1. \A j \in Pending(s, p) : j = 1
      BY <1>4, <2>2
    <3>2. 1 \in Pending(s, p) /\ copies[s][1].uid = u
      BY <1>6, <2>1, <3>1
    <3>3. copies[s][1].at = p
      BY <3>2 DEF Pending
    <3>4. memory'[p] = u
      BY <1>2, <3>2, <3>3
    <3> QED
      BY <1>3, <2>1, <2>2, <3>4 DEF WillHold
  <2>3. CASE Pending(s, p)' # {}
    <3>1. ASSUME NEW k \in Pending(s, p)', \A j \in Pending(s, p)' : j <= k
          PROVE  copies'[s][k].uid = u
      <4>1. k \in Nat /\ k + 1 \in Pending(s, p)
        BY <1>4
      <4>2. \A j \in Pending(s, p) : j <= k + 1
        <5> TAKE j \in Pending(s, p)
        <5>1. CASE j = 1
          BY <5>1, <4>1
        <5>2. CASE j - 1 \in Pending(s, p)'
          BY <5>2, <4>1, <3>1, <1>4
        <5> QED
          BY <5>1, <5>2, <1>4
      <4>3. copies[s][k + 1].uid = u
        BY <2>1, <4>1, <4>2
      <4> QED
        BY <1>1, <4>3 DEF Pending
    <3> QED
      BY <1>3, <2>1, <2>3, <3>1 DEF WillHold
  <2> QED
    BY <2>2, <2>3
<1> QED
  BY <1>5, <1>6

-----------------------------------------------------------------------------
(* What a load makes of the truth of the index. *)

(* A load into a slot: e has it afterwards, and nobody else has moved. *)
PutIntoSlot(l, e, s, slot) ==
  /\ Issue(s, <<"slot", slot>>, <<l, e>>)
  /\ loaded'[l][e] = slot
  /\ \A f \in Loaded(l)' : f # e => f \in Loaded(l) /\ loaded'[l][f] = loaded[l][f]
  /\ \A k \in Layers \ {l} : loaded'[k] = loaded[k]
  /\ UNCHANGED buffer_slots

LEMMA FreeSlotPut ==
  ASSUME IndexInv, NEW l \in Layers, NEW e \in Experts, NEW s \in Streams, LoadIntoSlot(l, e, s)
  PROVE  \E slot \in Slots(l) : PutIntoSlot(l, e, s, slot)
<1> PICK slot \in free[l] :
       /\ free' = [free EXCEPT ![l] = @ \ {slot}]
       /\ loaded' = [loaded EXCEPT ![l][e] = slot]
       /\ Issue(s, <<"slot", slot>>, <<l, e>>)
  BY DEF LoadIntoSlot
<1>1. slot \in Slots(l)
  BY DEF IndexInv, SlotPartition
<1>2. loaded'[l][e] = slot /\ \A k \in Layers \ {l} : loaded'[k] = loaded[k]
  BY DEF IndexInv, IndexType
<1>3. \A f \in Experts \ {e} : loaded'[l][f] = loaded[l][f]
  BY DEF IndexInv, IndexType
<1> QED
  BY <1>1, <1>2, <1>3 DEF PutIntoSlot, Loaded, LoadIntoSlot

LEMMA VictimSlotPut ==
  ASSUME IndexInv, NEW l \in Layers, NEW e \in Experts, NEW s \in Streams,
         loaded[l][e] = None, LoadEvicting(l, e, s)
  PROVE  \E slot \in Slots(l) : PutIntoSlot(l, e, s, slot)
<1> PICK victim \in Loaded(l) :
       LET freed == FreeWith(loaded[l][victim])
           owner == slots2layer(loaded[l][victim])
       IN  \E slot \in freed[owner] :
             /\ free' = [freed EXCEPT ![owner] = @ \ {slot}]
             /\ loaded' = Replaced(l, victim, e, slot)
             /\ Issue(s, <<"slot", slot>>, <<l, e>>)
  BY DEF LoadEvicting
<1> DEFINE slot == loaded[l][victim]
<1>1. victim \in Experts /\ victim # e /\ slot \in Slots(l)
  BY DEF Loaded, IndexInv, SlotPartition
<1>2. slots2layer(slot) = l /\ free[l] = {} /\ UNCHANGED buffer_slots
  BY <1>1, SlotsOfLayer DEF LoadEvicting
<1>3. FreeWith(slot)[l] = {slot}
  BY <1>2 DEF FreeWith, IndexInv, IndexType
<1>4. loaded' = Replaced(l, victim, e, slot) /\ Issue(s, <<"slot", slot>>, <<l, e>>)
  BY <1>2, <1>3
<1> HIDE DEF slot
<1>5. loaded' = [loaded EXCEPT ![l][victim] = None, ![l][e] = slot]
  BY <1>4 DEF Replaced
<1>6. /\ loaded'[l][e] = slot /\ loaded'[l][victim] = None
      /\ \A f \in Experts \ {e, victim} : loaded'[l][f] = loaded[l][f]
      /\ \A k \in Layers \ {l} : loaded'[k] = loaded[k]
  BY <1>1, <1>5 DEF IndexInv, IndexType
<1> QED
  BY <1>1, <1>2, <1>4, <1>6 DEF PutIntoSlot, Loaded

LEMMA DecodeLoadPut ==
  ASSUME IndexInv, NEW l \in Layers, NEW e \in Experts, NEW s \in Streams,
         loaded[l][e] = None, LoadForDecode(l, e, s)
  PROVE  \E slot \in Slots(l) : PutIntoSlot(l, e, s, slot)
BY FreeSlotPut, VictimSlotPut DEF LoadForDecode

(* Layers share no slot. *)
LEMMA SlotsApart ==
  ASSUME NEW k \in Layers, NEW l \in Layers, NEW slot \in Slots(k), slot \in Slots(l)
  PROVE  k = l
BY SlotsOfLayer

LEMMA PlacedKept ==
  ASSUME CopiesType, Placed, NEW s \in Streams, NEW p \in Places, NEW u \in Uids,
         Issue(s, p, u), p[1] = "slot" => p[2] \in Slots(u[1])
  PROVE  Placed'
<1> SUFFICES ASSUME NEW t \in Streams, NEW j \in DOMAIN copies'[t],
                    copies'[t][j].at[1] = "slot"
             PROVE  copies'[t][j].at[2] \in Slots(copies'[t][j].uid[1])
  BY DEF Placed
<1>1. CASE t # s
  BY <1>1, Issued DEF Placed
<1>2. CASE t = s /\ j \in DOMAIN copies[s]
  BY <1>2, Issued DEF Placed
<1>3. CASE t = s /\ j = Len(copies[s]) + 1
  <2>1. copies'[t][j] = Item(p, u)
    BY <1>3, Issued
  <2> QED
    BY <2>1 DEF Item
<1> QED
  BY <1>1, <1>2, <1>3, Issued

(* Into a slot that the other stream has no copy for. *)
LEMMA SlotTruth ==
  ASSUME IndexInv, IndexInv', CopiesType, TruthInv,
         NEW l \in Layers, NEW e \in Experts, NEW s \in Streams, NEW slot \in Slots(l),
         PutIntoSlot(l, e, s, slot), UNCHANGED memory,
         \A t \in Streams \ {s} : Pending(t, <<"slot", slot>>) = {}
  PROVE  TruthInv'
<1> DEFINE p == <<"slot", slot>>
<1>1. p \in Places /\ <<l, e>> \in Uids /\ Issue(s, p, <<l, e>>)
  BY SlotsOfLayer, PlacesAre DEF PutIntoSlot, Uids
<1>2. /\ WillHold(p, <<l, e>>)'
      /\ \A q \in Places \ {p} : \A v : WillHold(q, v) => WillHold(q, v)'
  BY <1>1, IssueHolds
<1>3. IndexTruthful'
  <2> SUFFICES ASSUME NEW k \in Layers, NEW f \in Loaded(k)'
               PROVE  WillHold(<<"slot", loaded[k][f]>>, <<k, f>>)'
    BY DEF IndexTruthful
  <2> PICK m : m = loaded'[k][f]
    OBVIOUS
  <2> SUFFICES WillHold(<<"slot", m>>, <<k, f>>)'
    BY DEF WillHold, Pending
  <2>1. CASE k = l /\ f = e
    BY <2>1, <1>2 DEF PutIntoSlot
  <2>2. CASE ~(k = l /\ f = e)
    <3>1. f \in Loaded(k) /\ loaded'[k][f] = loaded[k][f]
      BY <2>2 DEF PutIntoSlot, Loaded
    <3>2. WillHold(<<"slot", loaded[k][f]>>, <<k, f>>)
      BY <3>1 DEF TruthInv, IndexTruthful
    <3>3. loaded'[k][f] \in Slots(k)
      BY DEF IndexInv, SlotPartition
    <3>4. loaded'[k][f] # slot
      <4>1. CASE k # l
        BY <4>1, <3>3, SlotsApart
      <4>2. CASE k = l
        <5>1. e \in Loaded(l)'
          <6>1. slot # None
            BY SlotsOfLayer DEF None
          <6> QED
            BY <6>1 DEF PutIntoSlot, Loaded
        <5> QED
          BY <5>1, <4>2, <2>2 DEF IndexInv, SlotPartition, PutIntoSlot
      <4> QED
        BY <4>1, <4>2
    <3>5. <<"slot", loaded[k][f]>> \in Places \ {p}
      BY <3>1, <3>3, <3>4, SlotsOfLayer, PlacesAre
    <3> QED
      BY <1>2, <3>1, <3>2, <3>5
  <2> QED
    BY <2>1, <2>2
<1>4. BufferTruthful'
  <2> SUFFICES ASSUME NEW i \in Experts, ~BufferFree(i)', NEW u, u = buffer_slots'[i]
               PROVE  WillHold(<<"buffer", i>>, u)'
    BY DEF BufferTruthful, WillHold, Pending
  <2>1. buffer_slots'[i] = buffer_slots[i] /\ ~BufferFree(i)
    BY DEF PutIntoSlot, BufferFree
  <2>2. WillHold(<<"buffer", i>>, buffer_slots[i])
    BY <2>1 DEF TruthInv, BufferTruthful
  <2>3. <<"buffer", i>> \in Places \ {p}
    BY PlacesAre
  <2> QED
    BY <1>2, <2>1, <2>2, <2>3
<1>5. Placed'
  BY <1>1, PlacedKept DEF TruthInv
<1> QED
  BY <1>3, <1>4, <1>5 DEF TruthInv

(* Into a buffer, on the copy stream, while there are no prefetches. *)
LEMMA BufferTruth ==
  ASSUME IndexInv, CopiesType, TruthInv, copies["prefetch"] = <<>>, UNCHANGED memory,
         NEW l \in Layers, NEW e \in Experts, LoadIntoBuffer(l, e)
  PROVE  /\ TruthInv'
         /\ FirstBuffer \in Experts /\ BufferFree(FirstBuffer)
         /\ Issue("copy", <<"buffer", FirstBuffer>>, <<l, e>>)
         /\ loaded' = loaded /\ buffer_slots'[FirstBuffer] = <<l, e>>
         /\ \A i \in Experts \ {FirstBuffer} : buffer_slots'[i] = buffer_slots[i]
<1> DEFINE S == {i \in Experts : BufferFree(i)}
<1>1. S \in SUBSET Nat /\ S # {}
  BY ExpertCacheAssumption DEF Experts, LoadIntoBuffer, RoomInBuffer
<1>2. PICK m \in S : \A k \in S : m <= k
  BY <1>1, Least
<1>3. m \in Experts /\ BufferFree(m) /\ \A j \in 0 .. m - 1 : ~BufferFree(j)
  <2>1. ASSUME NEW j \in 0 .. m - 1, BufferFree(j) PROVE FALSE
    BY <1>1, <1>2, <2>1, ExpertCacheAssumption DEF Experts
  <2> QED
    BY <2>1
<1>4. FirstBuffer \in Experts /\ BufferFree(FirstBuffer)
  BY <1>3 DEF FirstBuffer
<1> HIDE DEF S
<1>5. /\ Issue("copy", <<"buffer", FirstBuffer>>, <<l, e>>)
      /\ loaded' = loaded /\ buffer_slots'[FirstBuffer] = <<l, e>>
      /\ \A i \in Experts \ {FirstBuffer} : buffer_slots'[i] = buffer_slots[i]
  BY <1>4 DEF LoadIntoBuffer, IndexInv, IndexType
<1> PICK b \in Experts : b = FirstBuffer
  BY <1>4
<1> DEFINE p == <<"buffer", b>>
<1>6. p \in Places /\ <<l, e>> \in Uids /\ "copy" \in Streams /\ Issue("copy", p, <<l, e>>)
  BY <1>4, <1>5, PlacesAre DEF Uids, Streams
<1>7. \A t \in Streams \ {"copy"} : Pending(t, p) = {}
  BY DEF Streams, Pending
<1>8. /\ WillHold(p, <<l, e>>)'
      /\ \A q \in Places \ {p} : \A v : WillHold(q, v) => WillHold(q, v)'
  BY <1>6, <1>7, IssueHolds
<1>9. IndexTruthful'
  <2> SUFFICES ASSUME NEW k \in Layers, NEW f \in Loaded(k)'
               PROVE  WillHold(<<"slot", loaded[k][f]>>, <<k, f>>)'
    BY DEF IndexTruthful
  <2> PICK x : x = loaded'[k][f]
    OBVIOUS
  <2> SUFFICES WillHold(<<"slot", x>>, <<k, f>>)'
    BY DEF WillHold, Pending
  <2>1. f \in Loaded(k) /\ loaded'[k][f] = loaded[k][f]
    BY <1>5 DEF Loaded
  <2>2. WillHold(<<"slot", loaded[k][f]>>, <<k, f>>)
    BY <2>1 DEF TruthInv, IndexTruthful
  <2>3. <<"slot", loaded[k][f]>> \in Places \ {p}
    <3>1. loaded[k][f] \in Slots(k)
      BY <2>1 DEF IndexInv, SlotPartition
    <3> QED
      BY <3>1, SlotsOfLayer, PlacesAre
  <2> QED
    BY <1>8, <2>1, <2>2, <2>3
<1>10. BufferTruthful'
  <2> SUFFICES ASSUME NEW i \in Experts, ~BufferFree(i)', NEW u, u = buffer_slots'[i]
               PROVE  WillHold(<<"buffer", i>>, u)'
    BY DEF BufferTruthful, WillHold, Pending
  <2>1. CASE i = b
    BY <2>1, <1>5, <1>8
  <2>2. CASE i # b
    <3>1. buffer_slots'[i] = buffer_slots[i] /\ ~BufferFree(i)
      BY <2>2, <1>5 DEF BufferFree
    <3>2. WillHold(<<"buffer", i>>, buffer_slots[i])
      BY <3>1 DEF TruthInv, BufferTruthful
    <3>3. <<"buffer", i>> \in Places \ {p}
      BY <2>2, PlacesAre
    <3> QED
      BY <1>8, <3>1, <3>2, <3>3
  <2> QED
    BY <2>1, <2>2
<1>11. Placed'
  <2>1. p[1] # "slot"
    OBVIOUS
  <2> QED
    BY <1>6, <2>1, PlacedKept DEF TruthInv
<1> QED
  BY <1>4, <1>5, <1>9, <1>10, <1>11 DEF TruthInv

-----------------------------------------------------------------------------
(* Events *)

LEMMA TickedAt ==
  ASSUME NEW a \in Waits, NEW s \in Streams
  PROVE  /\ \A t \in Streams : a[t] \in Nat /\ Ticked(a, s)[t] \in Nat
         /\ \A t \in Streams \ {s} : Ticked(a, s)[t] = a[t]
         /\ \A j \in Nat : j + 1 <= a[s] => j <= Ticked(a, s)[s]
         /\ Complete(a) => \A t \in Streams : a[t] = 0
BY DEF Waits, Ticked, Complete

LEMMA CopiesAre ==
  ASSUME IInv
  PROVE  /\ CopiesType
         /\ \A s \in Streams :
              /\ Len(copies[s]) \in Nat /\ DOMAIN copies[s] = 1 .. Len(copies[s])
              /\ copies[s] = <<>> <=> Len(copies[s]) = 0
              /\ \A j \in DOMAIN copies[s] : copies[s][j] \in Copies
         /\ "copy" \in Streams /\ "prefetch" \in Streams
         /\ \A s \in Streams : s = "copy" \/ s = "prefetch"
<1>1. copies \in [Streams -> Seq(Copies)]
  BY DEF IInv, QueueType, Copies
<1>2. CopiesType
  BY <1>1 DEF CopiesType, Copies
<1>3. ASSUME NEW q \in Seq(Copies)
      PROVE  /\ Len(q) \in Nat /\ DOMAIN q = 1 .. Len(q)
             /\ q = <<>> <=> Len(q) = 0
             /\ \A j \in DOMAIN q : q[j] \in Copies
  OBVIOUS
<1> QED
  BY <1>1, <1>2, <1>3 DEF Streams

(* When forward has read its input, the compute stream is behind every     *)
(* copy but those of a refill.                                             *)
LEMMA DrainedCopies ==
  ASSUME WInv, pc = "idle", Drained, copies["copy"] # <<>>
  PROVE  Refilled /\ \E i \in Experts : prefetch_lock[i]["copy"] >= Len(copies["copy"])
<1>1. Len(copies["copy"]) \in Nat \ {0} /\ "copy" \in Streams
  BY CopiesAre DEF WInv
<1>2. barrier["copy"] = 0
  BY <1>1, TickedAt DEF Drained, WInv, IInv, QueueType
<1>3. compute = <<>> /\ views = <<>>
  BY DEF Drained, WInv, WaitInv, ViewInv
<1>4. DOMAIN compute = {} /\ DOMAIN views = {}
  BY <1>3
<1> QED
  BY <1>1, <1>2, <1>4 DEF WInv, WaitInv, CopyAwaited

-----------------------------------------------------------------------------
(* Steps that enqueue and execute no copy *)

LEMMA SameTruth ==
  ASSUME TruthInv, UNCHANGED <<loaded, copies, memory>>,
         \A i \in Experts : BufferFree(i)' \/ buffer_slots'[i] = buffer_slots[i]
  PROVE  TruthInv'
<1>1. IndexTruthful'
  <2> SUFFICES ASSUME NEW l \in Layers, NEW e \in Loaded(l)'
               PROVE  WillHold(<<"slot", loaded[l][e]>>, <<l, e>>)'
    BY DEF IndexTruthful
  <2>1. e \in Loaded(l)
    BY DEF Loaded
  <2>2. WillHold(<<"slot", loaded[l][e]>>, <<l, e>>)
    BY <2>1 DEF TruthInv, IndexTruthful
  <2> QED
    BY <2>2 DEF WillHold, Pending
<1>2. BufferTruthful'
  <2> SUFFICES ASSUME NEW i \in Experts, ~BufferFree(i)'
               PROVE  WillHold(<<"buffer", i>>, buffer_slots[i])'
    BY DEF BufferTruthful
  <2>1. buffer_slots'[i] = buffer_slots[i] /\ ~BufferFree(i)
    BY DEF BufferFree
  <2>2. WillHold(<<"buffer", i>>, buffer_slots[i])
    BY <2>1 DEF TruthInv, BufferTruthful
  <2> QED
    BY <2>1, <2>2 DEF WillHold, Pending
<1>3. Placed'
  BY DEF TruthInv, Placed
<1> QED
  BY <1>1, <1>2, <1>3 DEF TruthInv

LEMMA NextLayerToLoadWaits == ASSUME WInv, NextLayerToLoad PROVE TruthInv' /\ WaitInv'
<1>1. /\ pc = "loading" /\ pc' = "loading" /\ UNCHANGED kind
      /\ UNCHANGED <<index, copies, gpu, prefetch_lock, loading_lock, barrier, views>>
  BY DEF NextLayerToLoad
<1>2. TruthInv'
  BY <1>1, SameTruth DEF WInv, index, gpu
<1>3. views = <<>> /\ compute = <<>> /\ DOMAIN views = {} /\ DOMAIN compute = {}
  BY <1>1 DEF WInv, WaitInv, ViewInv, KernelInv
<1>4. WaitInv'
  BY <1>1, <1>3 DEF WInv, WaitInv, KindInv, PrefetchAwaited, CopyAwaited, ForwardInv,
     ViewInv, KernelInv, KernelWaits, gpu
<1> QED
  BY <1>2, <1>4

LEMMA AllLoadedWaits == ASSUME WInv, AllLoaded PROVE TruthInv' /\ WaitInv'
<1>1. /\ pc = "loading" /\ pc' = "idle" /\ UNCHANGED kind
      /\ UNCHANGED <<index, copies, gpu, prefetch_lock, loading_lock, barrier, views>>
      /\ \A s \in Streams : copies[s] = <<>>
  BY DEF AllLoaded
<1>2. TruthInv'
  BY <1>1, SameTruth DEF WInv, index, gpu
<1>3. views = <<>> /\ compute = <<>> /\ DOMAIN views = {} /\ DOMAIN compute = {}
  BY <1>1 DEF WInv, WaitInv, ViewInv, KernelInv
<1>4. copies["copy"] = <<>> /\ copies["prefetch"] = <<>>
  BY <1>1 DEF Streams
<1>5. WaitInv'
  BY <1>1, <1>3, <1>4 DEF WaitInv, KindInv, PrefetchAwaited, CopyAwaited, ForwardInv,
     ViewInv, KernelInv, KernelWaits, gpu
<1> QED
  BY <1>2, <1>5

(* Between two passes nothing is enqueued. *)
LEMMA BeginPassWaits == ASSUME WInv, BeginPass PROVE TruthInv' /\ WaitInv'
<1>1. /\ pc = "idle" /\ pc' = "idle" /\ layer = L /\ Drained
      /\ kind = "decode" => \A s \in Streams : copies[s] = <<>>
      /\ UNCHANGED <<index, copies, gpu, prefetch_lock, loading_lock, barrier, views>>
  BY DEF BeginPass
<1>2. TruthInv'
  BY <1>1, SameTruth DEF WInv, index, gpu
<1>3. views = <<>> /\ compute = <<>> /\ DOMAIN views = {} /\ DOMAIN compute = {}
  BY <1>1 DEF WInv, WaitInv, ViewInv, Drained
<1>4. copies["copy"] = <<>> /\ copies["prefetch"] = <<>>
  <2>1. CASE kind = "decode"
    BY <1>1, <2>1 DEF Streams
  <2>2. CASE kind = "prefill"
    <3>1. copies["prefetch"] = <<>>
      BY <2>2 DEF WInv, WaitInv, KindInv
    <3>2. ~Refilled
      BY <1>1, ExpertCacheAssumption DEF Refilled
    <3> QED
      BY <1>1, <3>1, <3>2, DrainedCopies
  <2> QED
    BY <2>1, <2>2 DEF WInv, IInv, HostType
<1>5. WaitInv'
  BY <1>1, <1>3, <1>4 DEF WaitInv, KindInv, PrefetchAwaited, CopyAwaited, ForwardInv,
     ViewInv, KernelInv, KernelWaits, gpu
<1> QED
  BY <1>2, <1>5

LEMMA ForwardWaits == ASSUME WInv, Forward PROVE TruthInv' /\ WaitInv'
<1>1. /\ pc = "idle" /\ pc' = "lookup" /\ Drained /\ UNCHANGED kind
      /\ barrier' = AfterPrefetch
      /\ UNCHANGED <<index, copies, gpu, prefetch_lock, loading_lock, layer, views>>
  BY DEF Forward
<1>2. TruthInv'
  BY <1>1, SameTruth DEF WInv, index, gpu
<1>3. views = <<>> /\ compute = <<>> /\ DOMAIN views = {} /\ DOMAIN compute = {}
  BY <1>1 DEF WInv, WaitInv, ViewInv, Drained
<1>4. \A s \in Streams : copies[s] # <<>> =>
        \E i \in Experts : prefetch_lock[i][s] >= Len(copies[s])
  BY <1>1, DrainedCopies, CopiesAre DEF WInv, WaitInv, PrefetchAwaited
<1>5. \A s \in Streams : barrier'[s] >= Len(copies[s])
  <2> TAKE s \in Streams
  <2>1. /\ \A i \in Experts : prefetch_lock[i][s] <= AfterPrefetch[s]
        /\ \A i \in Experts : prefetch_lock[i][s] \in Nat
        /\ AfterPrefetch[s] \in Nat
    BY AfterPrefetchType DEF WInv, IInv, QueueType, Waits
  <2>2. Len(copies[s]) \in Nat /\ (copies[s] = <<>> => Len(copies[s]) = 0)
    BY CopiesAre DEF WInv
  <2>3. CASE copies[s] = <<>>
    BY <1>1, <2>1, <2>2, <2>3
  <2>4. CASE copies[s] # <<>>
    BY <1>1, <1>4, <2>1, <2>2, <2>4
  <2> QED
    BY <2>3, <2>4
<1>6. ForwardInv'
  <2> SUFFICES ASSUME NEW s \in Streams, NEW j \in DOMAIN copies'[s] PROVE Awaited(s, j)'
    BY DEF ForwardInv
  <2>1. j \in 1 .. Len(copies[s]) /\ Len(copies[s]) \in Nat
    BY <1>1, CopiesAre DEF WInv
  <2>2. barrier'[s] \in Nat
    BY <1>1, AfterPrefetchType DEF WInv, IInv, Waits
  <2> QED
    BY <1>5, <2>1, <2>2 DEF Awaited
<1>7. CopyAwaited'
  BY <1>1, <1>5 DEF CopyAwaited, Streams
<1>8. KindInv' /\ PrefetchAwaited' /\ ViewInv' /\ KernelInv'
  BY <1>1, <1>3 DEF WInv, WaitInv, KindInv, PrefetchAwaited, ViewInv, KernelInv, KernelWaits, gpu
<1> QED
  BY <1>2, <1>6, <1>7, <1>8 DEF WaitInv

LEMMA EndLookupsWaits == ASSUME WInv, EndLookups PROVE TruthInv' /\ WaitInv'
<1>1. /\ pc = "lookup" /\ pc' \in {"prefetch", "use"}
      /\ pc' = "prefetch" => kind = "decode" /\ Cardinality(todo'[1]) = PrefetchSize
      /\ UNCHANGED <<index, copies, gpu, prefetch_lock, loading_lock, barrier, layer, kind, views>>
  BY DEF EndLookups
<1>2. TruthInv'
  BY <1>1, SameTruth DEF WInv, index, gpu
<1>3. compute = <<>> /\ DOMAIN compute = {}
  BY <1>1 DEF WInv, WaitInv, KernelInv
<1>4. KindInv'
  BY <1>1, ExpertCacheAssumption DEF WInv, WaitInv, KindInv
<1>5. CopyAwaited' /\ ForwardInv'
  BY <1>1 DEF WInv, WaitInv, CopyAwaited, Refilled, ForwardInv, Awaited, gpu
<1>6. PrefetchAwaited' /\ ViewInv' /\ KernelInv'
  BY <1>1, <1>3 DEF WInv, WaitInv, PrefetchAwaited, ViewInv, KernelInv, KernelWaits, gpu
<1> QED
  BY <1>2, <1>4, <1>5, <1>6 DEF WaitInv

LEMMA EndPrefetchWaits == ASSUME WInv, EndPrefetch PROVE TruthInv' /\ WaitInv'
<1>1. /\ pc = "prefetch" /\ pc' = "use"
      /\ UNCHANGED <<index, copies, gpu, prefetch_lock, loading_lock, barrier, layer, kind, views>>
  BY DEF EndPrefetch
<1>2. TruthInv'
  BY <1>1, SameTruth DEF WInv, index, gpu
<1>3. compute = <<>> /\ DOMAIN compute = {}
  BY <1>1 DEF WInv, WaitInv, KernelInv
<1>4. KindInv'
  BY <1>1 DEF WInv, WaitInv, KindInv
<1>5. CopyAwaited' /\ ForwardInv'
  BY <1>1 DEF WInv, WaitInv, CopyAwaited, Refilled, ForwardInv, Awaited, gpu
<1>6. PrefetchAwaited' /\ ViewInv' /\ KernelInv'
  BY <1>1, <1>3 DEF WInv, WaitInv, PrefetchAwaited, ViewInv, KernelInv, KernelWaits, gpu
<1> QED
  BY <1>2, <1>4, <1>5, <1>6 DEF WaitInv

LEMMA EndResetWaits == ASSUME WInv, EndReset PROVE TruthInv' /\ WaitInv'
<1>1. /\ pc = "reset" /\ pc' = "idle" /\ layer' = layer + 1
      /\ UNCHANGED <<index, copies, gpu, prefetch_lock, loading_lock, barrier, kind, views>>
  BY DEF EndReset
<1>2. TruthInv'
  BY <1>1, SameTruth DEF WInv, index, gpu
<1>3. views = <<>> /\ DOMAIN views = {} /\ layer \in Nat /\ L \in Nat
  BY <1>1, ExpertCacheAssumption DEF WInv, WaitInv, ViewInv, IInv, HostType
<1>4. Refilled => Refilled'
  BY <1>1, <1>3 DEF Refilled
<1>5. CopyAwaited'
  BY <1>1, <1>3, <1>4 DEF WInv, WaitInv, CopyAwaited, gpu
<1>6. KernelInv'
  BY <1>1 DEF WInv, WaitInv, KernelInv, KernelWaits, Current, Pending, gpu, index
<1>7. KindInv' /\ PrefetchAwaited' /\ ForwardInv' /\ ViewInv'
  BY <1>1, <1>3 DEF WInv, WaitInv, KindInv, PrefetchAwaited, ForwardInv, ViewInv
<1> QED
  BY <1>2, <1>5, <1>6, <1>7 DEF WaitInv

(* What a view or a kernel is for will be at its place. *)
LEMMA CurrentHolds ==
  ASSUME IndexType, TruthInv, NEW p \in Places, NEW u \in Uids, Current(p, u)
  PROVE  WillHold(p, u)
<1>1. u[1] \in Layers /\ u[2] \in Experts /\ u = <<u[1], u[2]>>
  BY DEF Uids
<1>2. CASE p[1] = "slot"
  <2>1. p = <<"slot", p[2]>> /\ p[2] \in Nat
    BY <1>2 DEF Places
  <2>2. loaded[u[1]][u[2]] = p[2]
    BY <1>2 DEF Current
  <2>3. u[2] \in Loaded(u[1])
    BY <1>1, <2>1, <2>2 DEF Loaded, None
  <2> QED
    BY <1>1, <2>1, <2>2, <2>3 DEF TruthInv, IndexTruthful
<1>3. CASE p[1] # "slot"
  <2>1. p[2] \in Experts /\ p = <<"buffer", p[2]>>
    BY <1>3 DEF Places
  <2>2. buffer_slots[p[2]] = u
    BY <1>3 DEF Current
  <2>3. ~BufferFree(p[2])
    BY <1>1, <2>2 DEF BufferFree, NoUid
  <2> QED
    BY <2>1, <2>2, <2>3 DEF TruthInv, BufferTruthful
<1> QED
  BY <1>2, <1>3

(* So the place of a view is one the index gives to its expert.            *)
LEMMA PlaceHolds ==
  ASSUME IndexType', NEW l \in Layers, NEW e \in Experts, Found(l, e)'
  PROVE  Current(PlaceOf(l, e), <<l, e>>)'
<1>1. CASE loaded'[l][e] # None
  <2>1. PlaceOf(l, e)' = <<"slot", loaded'[l][e]>>
    BY <1>1 DEF PlaceOf
  <2> QED
    BY <2>1 DEF Current
<1>2. CASE loaded'[l][e] = None
  <2> DEFINE S == {i \in Experts : buffer_slots'[i] = <<l, e>>}
             chosen == CHOOSE i \in Experts :
                         /\ buffer_slots'[i] = <<l, e>>
                         /\ \A j \in 0 .. i - 1 : buffer_slots'[j] # <<l, e>>
  <2>1. PlaceOf(l, e)' = <<"buffer", chosen>>
    BY <1>2 DEF PlaceOf
  <2>2. S \in SUBSET Nat /\ S # {}
    BY <1>2, ExpertCacheAssumption DEF Found, InBuffer, Experts
  <2>3. PICK m \in S : \A k \in S : m <= k
    BY <2>2, Least
  <2>4. \A j \in 0 .. m - 1 : buffer_slots'[j] # <<l, e>>
    <3>1. ASSUME NEW j \in 0 .. m - 1, buffer_slots'[j] = <<l, e>> PROVE FALSE
      <4>1. m \in Experts /\ j \in Experts /\ j < m /\ m \in Int /\ j \in Int
        BY <3>1, ExpertCacheAssumption DEF Experts
      <4> QED
        BY <2>3, <3>1, <4>1
    <3> QED
      BY <3>1
  <2>5. m \in Experts /\ buffer_slots'[m] = <<l, e>>
    OBVIOUS
  <2>6. buffer_slots'[chosen] = <<l, e>>
    BY <2>4, <2>5
  <2> HIDE DEF chosen
  <2> QED
    BY <2>1, <2>6 DEF Current
<1> QED
  BY <1>1, <1>2

(* The last of the copies to a place that will hold u is of u. *)
LEMMA LastPending ==
  ASSUME IInv, NEW p \in Places, NEW u, WillHold(p, u), NEW s \in Streams, NEW j \in Pending(s, p)
  PROVE  \E k \in Pending(s, p) : j <= k /\ copies[s][k].uid = u
<1>1. DOMAIN copies[s] = 1 .. Len(copies[s]) /\ Len(copies[s]) \in Nat
  BY CopiesAre
<1> DEFINE N == Len(copies[s])
           S == Pending(s, p)
<1>2. N \in Nat /\ S \in SUBSET Nat /\ S # {} /\ S \subseteq 1 .. N
  BY <1>1 DEF Pending
<1> HIDE DEF N, S
<1>3. IsFiniteSet(S)
  <2>1. IsFiniteSet(1 .. N)
    BY <1>2, FS_Interval
  <2> QED
    BY <1>2, <2>1, FS_Subset
<1>4. PICK k \in S : \A i \in S : i <= k
  BY <1>2, <1>3, Greatest
<1>5. copies[s][k].uid = u
  BY <1>4 DEF WillHold, S
<1> QED
  BY <1>4, <1>5 DEF S

(* In a forward, a place of this layer waits only for events that the      *)
(* layer's kernels wait for.                                               *)
LEMMA UseCovers ==
  ASSUME WInv, pc = "use", NEW p \in Places, NEW u \in Uids, u[1] = layer, Current(p, u),
         NEW s \in Streams, NEW j \in Pending(s, p)
  PROVE  j <= barrier[s] \/ j <= loading_lock[layer][u[2]][s]
<1>1. WillHold(p, u)
  BY CurrentHolds DEF WInv, IInv
<1>2. PICK k \in Pending(s, p) : j <= k /\ copies[s][k].uid = u
  BY <1>1, LastPending DEF WInv
<1>3. k \in DOMAIN copies[s] /\ k \in Nat /\ j \in Nat
  <2>1. DOMAIN copies[s] = 1 .. Len(copies[s]) /\ Len(copies[s]) \in Nat
    BY CopiesAre DEF WInv
  <2> QED
    BY <2>1 DEF Pending
<1>4. Awaited(s, k)
  BY <1>3 DEF WInv, WaitInv, ForwardInv
<1>5. layer \in Nat /\ layer \in Layers /\ u[2] \in Experts
  BY ExpertCacheAssumption DEF WInv, IInv, HostType, Uids, Layers
<1>6. barrier[s] \in Nat /\ loading_lock[layer][u[2]][s] \in Nat
  BY <1>5 DEF WInv, IInv, QueueType, Waits
<1> QED
  BY <1>2, <1>3, <1>4, <1>5, <1>6 DEF Awaited

LEMMA UseWaits == ASSUME WInv, Use PROVE TruthInv' /\ WaitInv'
<1> DEFINE view == Head(views)
           kernel == [at |-> view.at, uid |-> view.uid,
                      after |-> Later(barrier, LoadingWait(view.uid[2]))]
<1>1. /\ pc = "use" /\ pc' = pc /\ views # <<>>
      /\ compute' = Append(compute, kernel) /\ views' = Tail(views)
      /\ UNCHANGED <<index, copies, memory, prefetch_lock, loading_lock, barrier, layer, kind, todo>>
  BY DEF Use, host
<1>2. TruthInv'
  BY <1>1, SameTruth DEF WInv, index
<1>3. /\ views \in Seq(Copies) /\ compute \in Seq([at : Places, uid : Uids, after : Waits])
  BY DEF WInv, IInv, QueueType, Copies
<1> HIDE DEF kernel
<1>4. /\ view = views[1] /\ view \in Copies /\ 1 \in DOMAIN views
      /\ \A k \in DOMAIN views' : k + 1 \in DOMAIN views /\ views'[k] = views[k + 1]
      /\ \A k \in DOMAIN views : k = 1 \/ (k - 1 \in DOMAIN views' /\ views'[k - 1] = views[k])
  BY <1>1, <1>3
<1>5. /\ \A k \in DOMAIN compute : k \in DOMAIN compute' /\ compute'[k] = compute[k]
      /\ \A k \in DOMAIN compute' : k \in DOMAIN compute \/ compute'[k] = kernel
      /\ \E k \in DOMAIN compute' : compute'[k] = kernel
  <2> DEFINE K == [at : Places, uid : Uids, after : Waits]
             last == Len(compute) + 1
  <2> HIDE DEF K
  <2>1. compute \in Seq(K) /\ Len(compute) \in Nat /\ DOMAIN compute = 1 .. Len(compute)
    BY <1>3 DEF K
  <2>2. compute'[last] = kernel /\ DOMAIN compute' = 1 .. last
        /\ \A k \in DOMAIN compute : compute'[k] = compute[k]
    BY <1>1, <2>1
  <2>3. last \in DOMAIN compute' /\ \A k \in DOMAIN compute' : k \in DOMAIN compute \/ k = last
    BY <2>1, <2>2
  <2> QED
    BY <2>1, <2>2, <2>3
<1>6. view.uid[1] = layer /\ view.at \in Places /\ view.uid \in Uids
  BY <1>4 DEF Copies, WInv, WaitInv, ViewInv
<1>7. layer \in Layers /\ view.uid[2] \in Experts
  BY <1>1, <1>6, ExpertCacheAssumption DEF WInv, IInv, HostType, ControlInv, Uids, Layers
<1>8. \A s \in Streams : /\ kernel.after[s] \in Nat /\ barrier[s] \in Nat
                         /\ loading_lock[layer][view.uid[2]][s] \in Nat
                         /\ kernel.after[s] >= barrier[s]
                         /\ kernel.after[s] >= loading_lock[layer][view.uid[2]][s]
  BY <1>7 DEF kernel, Later, LoadingWait, WInv, IInv, QueueType, Waits
<1>9. kernel.at = view.at /\ kernel.uid = view.uid
  BY DEF kernel
<1> HIDE DEF view
<1>10. CopyAwaited'
  <2> SUFFICES ASSUME copies["copy"] # <<>>
               PROVE  \/ barrier["copy"] >= Len(copies["copy"])
                      \/ \E k \in DOMAIN views' :
                           loading_lock[layer][views'[k].uid[2]]["copy"] >= Len(copies["copy"])
                      \/ \E k \in DOMAIN compute' : compute'[k].after["copy"] >= Len(copies["copy"])
    BY <1>1 DEF CopyAwaited
  <2>1. "copy" \in Streams /\ Len(copies["copy"]) \in Nat /\ ~Refilled
    BY <1>1, CopiesAre DEF WInv, Refilled
  <2>2. CASE barrier["copy"] >= Len(copies["copy"])
    BY <2>2
  <2>3. CASE \E k \in DOMAIN views :
               loading_lock[layer][views[k].uid[2]]["copy"] >= Len(copies["copy"])
    <3> PICK k \in DOMAIN views :
               loading_lock[layer][views[k].uid[2]]["copy"] >= Len(copies["copy"])
      BY <2>3
    <3>1. CASE k = 1
      BY <3>1, <1>4, <1>5, <1>8, <2>1
    <3>2. CASE k # 1
      BY <3>2, <1>4
    <3> QED
      BY <3>1, <3>2
  <2>4. CASE \E k \in DOMAIN compute : compute[k].after["copy"] >= Len(copies["copy"])
    BY <2>4, <1>5
  <2> QED
    BY <1>1, <2>1, <2>2, <2>3, <2>4 DEF WInv, WaitInv, CopyAwaited
<1>11. KernelWaits'
  <2> SUFFICES ASSUME NEW k \in DOMAIN compute', Current(compute[k].at, compute[k].uid)',
                      NEW s \in Streams, NEW j \in Pending(s, compute[k].at)'
               PROVE  j <= compute'[k].after[s]
    BY DEF KernelWaits
  <2>1. CASE k \in DOMAIN compute
    <3>1. compute'[k] = compute[k]
      BY <2>1, <1>5
    <3>2. Current(compute[k].at, compute[k].uid) /\ j \in Pending(s, compute[k].at)
      BY <1>1, <3>1 DEF Current, Pending, index
    <3> QED
      BY <2>1, <3>1, <3>2 DEF WInv, WaitInv, KernelInv, KernelWaits
  <2>2. CASE compute'[k] = kernel
    <3>1. Current(view.at, view.uid) /\ j \in Pending(s, view.at)
      BY <1>1, <1>9, <2>2 DEF Current, Pending, index
    <3>2. j <= barrier[s] \/ j <= loading_lock[layer][view.uid[2]][s]
      BY <1>1, <1>6, <3>1, UseCovers
    <3>3. j \in Nat
      BY <3>1, CopiesAre DEF Pending, WInv
    <3> QED
      BY <1>8, <2>2, <3>2, <3>3
  <2> QED
    BY <1>5, <2>1, <2>2
<1>12. KernelInv'
  BY <1>1, <1>5, <1>6, <1>9, <1>11 DEF WInv, WaitInv, KernelInv
<1>13. ViewInv'
  BY <1>1, <1>4 DEF WInv, WaitInv, ViewInv
<1>14. KindInv' /\ PrefetchAwaited' /\ ForwardInv'
  BY <1>1 DEF WInv, WaitInv, KindInv, PrefetchAwaited, ForwardInv, Awaited
<1> QED
  BY <1>2, <1>10, <1>12, <1>13, <1>14 DEF WaitInv

LEMMA EndForwardWaits == ASSUME WInv, EndForward PROVE TruthInv' /\ WaitInv'
<1>1. /\ pc = "use" /\ views = <<>> /\ DOMAIN views = {}
      /\ UNCHANGED <<loaded, copies, gpu, prefetch_lock, loading_lock, barrier, kind, views>>
      /\ \/ /\ kind = "prefill" /\ pc' = "reset" /\ layer' = layer
            /\ buffer_slots' = [i \in Experts |-> NoUid]
         \/ pc' = "idle" /\ UNCHANGED buffer_slots
  BY DEF EndForward
<1>2. TruthInv'
  <2>1. \A i \in Experts : BufferFree(i)' \/ buffer_slots'[i] = buffer_slots[i]
    BY <1>1 DEF BufferFree
  <2> QED
    BY <1>1, <2>1, SameTruth DEF WInv, gpu
<1>3. CopyAwaited'
  BY <1>1 DEF WInv, WaitInv, CopyAwaited, Refilled, gpu
<1>4. KernelWaits'
  <2> SUFFICES ASSUME NEW k \in DOMAIN compute, Current(compute[k].at, compute[k].uid)'
               PROVE  Current(compute[k].at, compute[k].uid)
    BY <1>1 DEF WInv, WaitInv, KernelInv, KernelWaits, Pending, gpu
  <2>1. compute'[k] = compute[k] /\ compute[k].uid \in Uids /\ compute[k].at \in Places
    <3>1. compute \in Seq([at : Places, uid : Uids, after : Waits])
      BY DEF WInv, IInv, QueueType
    <3>2. compute[k] \in [at : Places, uid : Uids, after : Waits]
      BY <3>1, SequenceParts
    <3> QED
      BY <1>1, <3>2 DEF gpu
  <2>2. compute[k].uid # NoUid
    <3>1. compute[k].uid = <<compute[k].uid[1], compute[k].uid[2]>>
      BY <2>1 DEF Uids
    <3> QED
      BY <3>1 DEF NoUid
  <2>3. compute[k].at[1] # "slot" => compute[k].at[2] \in Experts
    BY <2>1 DEF Places
  <2> QED
    BY <1>1, <2>1, <2>2, <2>3 DEF Current
<1>5. KernelInv'
  BY <1>1, <1>4 DEF WInv, WaitInv, KernelInv, gpu
<1>6. KindInv' /\ PrefetchAwaited' /\ ForwardInv' /\ ViewInv'
  BY <1>1 DEF WInv, WaitInv, KindInv, PrefetchAwaited, ForwardInv, ViewInv
<1> QED
  BY <1>2, <1>3, <1>5, <1>6 DEF WaitInv

LEMMA ExecuteKernelWaits == ASSUME WInv, ExecuteKernel PROVE TruthInv' /\ WaitInv'
<1>1. /\ compute # <<>> /\ Complete(Head(compute).after) /\ compute' = Tail(compute)
      /\ UNCHANGED <<index, copies, memory, prefetch_lock, loading_lock, barrier, host, todo, views>>
  BY DEF ExecuteKernel, Runnable
<1>2. TruthInv'
  BY <1>1, SameTruth DEF WInv, index
<1> DEFINE K == [at : Places, uid : Uids, after : Waits]
<1>3. compute \in Seq(K)
  BY DEF WInv, IInv, QueueType
<1>4. ASSUME NEW T, compute \in Seq(T)
      PROVE  /\ Head(compute) = compute[1] /\ compute[1] \in T
             /\ \A k \in DOMAIN compute' : k + 1 \in DOMAIN compute /\ compute'[k] = compute[k + 1]
             /\ \A k \in DOMAIN compute :
                  k = 1 \/ (k - 1 \in DOMAIN compute' /\ compute'[k - 1] = compute[k])
  BY <1>1, <1>4
<1>5. /\ Complete(compute[1].after) /\ compute[1].after \in Waits
      /\ \A k \in DOMAIN compute' : k + 1 \in DOMAIN compute /\ compute'[k] = compute[k + 1]
      /\ \A k \in DOMAIN compute :
           k = 1 \/ (k - 1 \in DOMAIN compute' /\ compute'[k - 1] = compute[k])
  <2> HIDE DEF K
  <2>1. /\ Head(compute) = compute[1] /\ compute[1] \in K
        /\ \A k \in DOMAIN compute' : k + 1 \in DOMAIN compute /\ compute'[k] = compute[k + 1]
        /\ \A k \in DOMAIN compute :
             k = 1 \/ (k - 1 \in DOMAIN compute' /\ compute'[k - 1] = compute[k])
    BY <1>3, <1>4
  <2>2. compute[1].after \in Waits
    BY <2>1 DEF K
  <2> QED
    BY <1>1, <2>1, <2>2
<1>6. CopyAwaited'
  <2> SUFFICES ASSUME copies["copy"] # <<>>, NEW k \in DOMAIN compute,
                      compute[k].after["copy"] >= Len(copies["copy"])
               PROVE  \E i \in DOMAIN compute' : compute'[i].after["copy"] >= Len(copies["copy"])
    BY <1>1 DEF WInv, WaitInv, CopyAwaited, Refilled, host
  <2>1. Len(copies["copy"]) \in Nat \ {0} /\ "copy" \in Streams
    BY CopiesAre DEF WInv
  <2>2. k # 1
    BY <1>5, <2>1, TickedAt
  <2> QED
    BY <1>5, <2>2
<1>7. KernelWaits'
  <2> SUFFICES ASSUME NEW k \in DOMAIN compute', Current(compute[k].at, compute[k].uid)',
                      NEW s \in Streams, NEW j \in Pending(s, compute[k].at)'
               PROVE  j <= compute'[k].after[s]
    BY DEF KernelWaits
  <2>1. k + 1 \in DOMAIN compute /\ compute'[k] = compute[k + 1]
    BY <1>5
  <2>2. Current(compute[k + 1].at, compute[k + 1].uid) /\ j \in Pending(s, compute[k + 1].at)
    BY <1>1, <2>1 DEF Current, Pending, index
  <2> QED
    BY <2>1, <2>2 DEF WInv, WaitInv, KernelInv, KernelWaits
<1>8. KernelInv'
  <2>1. pc \in {"loading", "lookup", "prefetch"} => compute = <<>>
    BY DEF WInv, WaitInv, KernelInv
  <2> QED
    BY <1>1, <1>5, <1>7, <2>1 DEF WInv, WaitInv, KernelInv, host
<1>9. KindInv' /\ PrefetchAwaited' /\ ForwardInv' /\ ViewInv'
  BY <1>1 DEF WInv, WaitInv, KindInv, PrefetchAwaited, ForwardInv, Awaited, ViewInv, host
<1> QED
  BY <1>2, <1>6, <1>8, <1>9 DEF WaitInv

-----------------------------------------------------------------------------
(* A copy is executed: every event comes closer with it. *)

LEMMA ExecuteCopyWaits == ASSUME WInv, NEW s \in Streams, ExecuteCopy(s) PROVE TruthInv' /\ WaitInv'
<1>1. /\ UNCHANGED <<index, host, todo, views>>
      /\ prefetch_lock' = [i \in Experts |-> Ticked(prefetch_lock[i], s)]
      /\ loading_lock' = [l \in Layers |-> [e \in Experts |-> Ticked(loading_lock[l][e], s)]]
      /\ barrier' = Ticked(barrier, s)
      /\ compute' = [k \in DOMAIN compute |->
                       [compute[k] EXCEPT !.after = Ticked(compute[k].after, s)]]
      /\ copies[s] # <<>>
  BY DEF ExecuteCopy
<1>2. /\ \A t \in Streams \ {s} : copies'[t] = copies[t]
      /\ Len(copies[s]) \in Nat \ {0} /\ Len(copies'[s]) = Len(copies[s]) - 1
      /\ DOMAIN copies[s] = 1 .. Len(copies[s])
      /\ DOMAIN copies'[s] = 1 .. Len(copies[s]) - 1
      /\ \A j \in DOMAIN copies'[s] : copies'[s][j] = copies[s][j + 1]
      /\ \A t \in Streams : /\ DOMAIN copies[t] = 1 .. Len(copies[t]) /\ Len(copies[t]) \in Nat
                            /\ copies[t] = <<>> <=> Len(copies[t]) = 0
      /\ \A t \in Streams : \A j \in DOMAIN copies[t] : copies[t][j] \in Copies
      /\ "copy" \in Streams /\ "prefetch" \in Streams
      /\ \A t \in Streams : t = "copy" \/ t = "prefetch"
  BY Executed, CopiesAre DEF WInv
<1>3. \A k \in DOMAIN compute : /\ compute[k] \in [at : Places, uid : Uids, after : Waits]
                                /\ compute'[k].at = compute[k].at /\ compute'[k].uid = compute[k].uid
                                /\ compute'[k].after = Ticked(compute[k].after, s)
  <2> TAKE k \in DOMAIN compute
  <2>1. compute \in Seq([at : Places, uid : Uids, after : Waits])
    BY DEF WInv, IInv, QueueType
  <2>2. compute[k] \in [at : Places, uid : Uids, after : Waits]
    BY <2>1, SequenceParts
  <2> QED
    BY <1>1, <2>2
<1>4. DOMAIN compute' = DOMAIN compute
  BY <1>1
<1>5. /\ \A i \in Experts : prefetch_lock[i] \in Waits /\ prefetch_lock'[i] = Ticked(prefetch_lock[i], s)
      /\ \A l \in Layers, e \in Experts : /\ loading_lock[l][e] \in Waits
                                        /\ loading_lock'[l][e] = Ticked(loading_lock[l][e], s)
      /\ barrier \in Waits
  BY <1>1 DEF WInv, IInv, QueueType
(* An event that is not before a copy is not before it afterwards. *)
<1>6. ASSUME NEW a \in Waits, NEW t \in Streams, a[t] >= Len(copies[t])
      PROVE  Ticked(a, s)[t] >= Len(copies'[t])
  <2>1. CASE t # s
    BY <2>1, <1>2, <1>6, TickedAt
  <2>2. CASE t = s
    <3>1. Len(copies'[s]) + 1 <= a[s] /\ Len(copies'[s]) \in Nat
      BY <2>2, <1>2, <1>6, TickedAt
    <3> QED
      BY <2>2, <3>1, TickedAt
  <2> QED
    BY <2>1, <2>2
<1>7. TruthInv'
  <2>1. \A p \in Places : \A u : WillHold(p, u) => WillHold(p, u)'
    BY ExecuteHolds, CopiesAre DEF WInv, IInv, QueueType
  <2>2. IndexTruthful'
    <3> SUFFICES ASSUME NEW l \in Layers, NEW e \in Loaded(l)'
                 PROVE  WillHold(<<"slot", loaded[l][e]>>, <<l, e>>)'
      BY DEF IndexTruthful
    <3> PICK m : m = loaded[l][e]
      OBVIOUS
    <3>1. loaded' = loaded /\ e \in Loaded(l) /\ e \in Experts /\ m # None
      BY <1>1 DEF Loaded, index
    <3>2. WillHold(<<"slot", m>>, <<l, e>>)
      BY <3>1 DEF WInv, TruthInv, IndexTruthful
    <3>3. <<"slot", m>> \in Places
      BY <3>1, PlacesAre DEF WInv, IInv, IndexType
    <3>4. WillHold(<<"slot", m>>, <<l, e>>)'
      BY <2>1, <3>2, <3>3
    <3> QED
      BY <3>1, <3>4 DEF WillHold, Pending
  <2>3. BufferTruthful'
    <3> SUFFICES ASSUME NEW i \in Experts, ~BufferFree(i)'
                 PROVE  WillHold(<<"buffer", i>>, buffer_slots[i])'
      BY DEF BufferTruthful
    <3> PICK u : u = buffer_slots[i]
      OBVIOUS
    <3>1. buffer_slots' = buffer_slots /\ ~BufferFree(i)
      BY <1>1 DEF BufferFree, index
    <3>2. WillHold(<<"buffer", i>>, u)
      BY <3>1 DEF WInv, TruthInv, BufferTruthful
    <3>3. WillHold(<<"buffer", i>>, u)'
      BY <2>1, <3>2, PlacesAre
    <3> QED
      BY <3>1, <3>3 DEF WillHold, Pending
  <2>4. Placed'
    <3> SUFFICES ASSUME NEW t \in Streams, NEW j \in DOMAIN copies'[t],
                        copies'[t][j].at[1] = "slot"
                 PROVE  copies'[t][j].at[2] \in Slots(copies'[t][j].uid[1])
      BY DEF Placed
    <3>1. CASE t # s
      BY <3>1, <1>2 DEF WInv, TruthInv, Placed
    <3>2. CASE t = s
      <4>1. j + 1 \in DOMAIN copies[s] /\ copies'[s][j] = copies[s][j + 1]
        BY <3>2, <1>2
      <4> QED
        BY <3>2, <4>1 DEF WInv, TruthInv, Placed
    <3> QED
      BY <3>1, <3>2
  <2> QED
    BY <2>2, <2>3, <2>4 DEF TruthInv
<1>8. KindInv'
  BY <1>1, <1>2 DEF WInv, WaitInv, KindInv, host
<1>9. PrefetchAwaited'
  <2> SUFFICES ASSUME copies'["prefetch"] # <<>>
               PROVE  \E i \in Experts : prefetch_lock'[i]["prefetch"] >= Len(copies'["prefetch"])
    BY DEF PrefetchAwaited
  <2>1. copies["prefetch"] # <<>>
    BY <1>1, <1>2
  <2>2. PICK i \in Experts : prefetch_lock[i]["prefetch"] >= Len(copies["prefetch"])
    BY <2>1 DEF WInv, WaitInv, PrefetchAwaited
  <2> QED
    BY <2>2, <1>2, <1>5, <1>6
<1>10. CopyAwaited'
  <2> SUFFICES ASSUME pc # "loading", copies'["copy"] # <<>>
               PROVE  \/ barrier'["copy"] >= Len(copies'["copy"])
                      \/ \E k \in DOMAIN views :
                           loading_lock'[layer][views[k].uid[2]]["copy"] >= Len(copies'["copy"])
                      \/ \E k \in DOMAIN compute' :
                           compute'[k].after["copy"] >= Len(copies'["copy"])
                      \/ /\ Refilled
                         /\ \E i \in Experts : prefetch_lock'[i]["copy"] >= Len(copies'["copy"])
    BY <1>1 DEF CopyAwaited, Refilled, host
  <2>1. copies["copy"] # <<>>
    BY <1>1, <1>2
  <2>2. CASE barrier["copy"] >= Len(copies["copy"])
    BY <2>2, <1>1, <1>2, <1>5, <1>6
  <2>3. CASE \E k \in DOMAIN views :
               loading_lock[layer][views[k].uid[2]]["copy"] >= Len(copies["copy"])
    <3> PICK k \in DOMAIN views :
               loading_lock[layer][views[k].uid[2]]["copy"] >= Len(copies["copy"])
      BY <2>3
    <3>1. views \in Seq(Copies) /\ views # <<>>
      BY DEF WInv, IInv, QueueType, Copies
    <3>2. views[k] \in Copies
      BY <3>1
    <3>3. views[k].uid[2] \in Experts
      BY <3>2 DEF Copies, Uids
    <3>4. pc \in {"lookup", "prefetch", "use"}
      BY <3>1 DEF WInv, WaitInv, ViewInv, IInv, HostType
    <3>5. layer \in Layers
      BY <3>4, ExpertCacheAssumption DEF WInv, IInv, ControlInv, HostType, Layers
    <3> QED
      BY <3>3, <3>5, <1>2, <1>5, <1>6
  <2>4. CASE \E k \in DOMAIN compute : compute[k].after["copy"] >= Len(copies["copy"])
    BY <2>4, <1>2, <1>3, <1>4, <1>6
  <2>5. CASE Refilled /\ \E i \in Experts : prefetch_lock[i]["copy"] >= Len(copies["copy"])
    BY <2>5, <1>2, <1>5, <1>6
  <2> QED
    BY <2>1, <2>2, <2>3, <2>4, <2>5 DEF WInv, WaitInv, CopyAwaited
<1>11. ForwardInv'
  <2> SUFFICES ASSUME pc \in {"lookup", "prefetch", "use"},
                      NEW t \in Streams, NEW j \in DOMAIN copies'[t]
               PROVE  \/ j <= barrier'[t]
                      \/ /\ t = "copy" /\ copies'[t][j].uid[1] = layer
                         /\ j <= loading_lock'[layer][copies'[t][j].uid[2]][t]
                      \/ t = "prefetch" /\ pc # "lookup" /\ copies'[t][j].uid[1] = layer + 1
    BY <1>1 DEF ForwardInv, Awaited, host
  <2>1. layer \in Layers
    BY ExpertCacheAssumption DEF WInv, IInv, ControlInv, HostType, Layers
  <2>2. CASE t # s
    <3>1. j \in DOMAIN copies[t] /\ copies'[t][j] = copies[t][j]
      BY <2>2, <1>2
    <3>2. copies[t][j].uid[2] \in Experts
      BY <3>1, <1>2 DEF Copies, Uids
    <3>3. Awaited(t, j)
      BY <3>1 DEF WInv, WaitInv, ForwardInv
    <3>4. barrier'[t] = barrier[t]
          /\ loading_lock'[layer][copies[t][j].uid[2]][t] = loading_lock[layer][copies[t][j].uid[2]][t]
      BY <2>1, <2>2, <3>2, <1>1, <1>5, TickedAt
    <3> QED
      BY <3>1, <3>3, <3>4 DEF Awaited
  <2>3. CASE t = s
    <3>1. j \in Nat /\ j + 1 \in DOMAIN copies[s] /\ copies'[s][j] = copies[s][j + 1]
      BY <2>3, <1>2
    <3>2. copies[s][j + 1].uid[2] \in Experts
      BY <3>1, <1>2 DEF Copies, Uids
    <3>3. Awaited(s, j + 1)
      BY <3>1 DEF WInv, WaitInv, ForwardInv
    <3>4. /\ j + 1 <= barrier[s] => j <= barrier'[s]
          /\ j + 1 <= loading_lock[layer][copies[s][j + 1].uid[2]][s] =>
               j <= loading_lock'[layer][copies[s][j + 1].uid[2]][s]
      BY <2>1, <3>1, <3>2, <1>1, <1>5, TickedAt
    <3> QED
      BY <2>3, <3>1, <3>3, <3>4 DEF Awaited
  <2> QED
    BY <2>2, <2>3
<1>12. ViewInv'
  BY <1>1 DEF WInv, WaitInv, ViewInv, host
<1>13. KernelInv'
  <2>1. KernelWaits'
    <3> SUFFICES ASSUME NEW k \in DOMAIN compute', Current(compute[k].at, compute[k].uid)',
                        NEW t \in Streams, NEW j \in Pending(t, compute[k].at)'
                 PROVE  j <= compute'[k].after[t]
      BY DEF KernelWaits
    <3>1. Current(compute[k].at, compute[k].uid) /\ j \in DOMAIN copies'[t]
          /\ copies'[t][j].at = compute[k].at
      BY <1>1, <1>3, <1>4 DEF Current, Pending, index
    <3>2. compute[k].after \in Waits /\ compute'[k].after = Ticked(compute[k].after, s)
      BY <1>3, <1>4
    <3>3. CASE t # s
      <4>1. j \in Pending(t, compute[k].at)
        BY <3>1, <3>3, <1>2 DEF Pending
      <4>2. j <= compute[k].after[t]
        BY <3>1, <4>1, <1>4 DEF WInv, WaitInv, KernelInv, KernelWaits
      <4> QED
        BY <3>2, <3>3, <4>2, TickedAt
    <3>4. CASE t = s
      <4>1. j \in Nat /\ j + 1 \in Pending(s, compute[k].at)
        BY <3>1, <3>4, <1>2 DEF Pending
      <4>2. j + 1 <= compute[k].after[s]
        BY <3>1, <4>1, <1>4 DEF WInv, WaitInv, KernelInv, KernelWaits
      <4> QED
        BY <3>2, <3>4, <4>1, <4>2, TickedAt
    <3> QED
      BY <3>3, <3>4
  <2>2. compute = <<>> => compute' = <<>>
    <3>1. ASSUME compute = <<>> PROVE compute' = <<>>
      <4>1. DOMAIN compute = {} /\ DOMAIN compute' = {}
        BY <3>1, <1>4
      <4>2. compute' \in Seq([at : Places, uid : Uids, after : Waits])
        BY ExecuteCopyStep DEF WInv, IInv, QueueType
      <4> QED
        BY <4>1, <4>2
    <3> QED
      BY <3>1
  <2> QED
    BY <1>1, <1>3, <1>4, <2>1, <2>2 DEF WInv, WaitInv, KernelInv, host
<1> QED
  BY <1>7, <1>8, <1>9, <1>10, <1>11, <1>12, <1>13 DEF WaitInv

-----------------------------------------------------------------------------
(* Steps that enqueue a copy *)

(* Loading the model: one stream, no kernels. *)
LEMMA StoreWaits == ASSUME WInv, Store PROVE TruthInv' /\ WaitInv'
<1>1. /\ pc = "loading" /\ pc' = pc /\ todo[1] # {}
      /\ UNCHANGED <<gpu, prefetch_lock, loading_lock, barrier, layer, kind, views>>
  BY DEF Store, host
<1>2. layer \in Layers /\ Len(todo) = 1
  BY <1>1, ExpertCacheAssumption DEF WInv, IInv, ControlInv, HostType, Layers
<1>3. todo[1] \in SUBSET Experts
  BY <1>2, TodoTypes DEF WInv, IInv
<1> PICK l \in Layers : l = layer
  BY <1>2
<1> PICK e \in Experts : e = Smallest(todo[1])
  BY <1>1, <1>3, SmallestElement
<1>4. copies["prefetch"] = <<>> /\ views = <<>> /\ compute = <<>>
  BY <1>1 DEF WInv, WaitInv, KindInv, ViewInv, KernelInv
<1>5. TruthInv' /\ copies'["prefetch"] = <<>>
  <2>1. CASE LoadIntoSlot(l, e, "copy")
    <3>1. IndexInv /\ CopiesType /\ "copy" \in Streams /\ UNCHANGED memory
      BY <1>1, CopiesAre DEF WInv, IInv, IndexInv, gpu
    <3>2. IndexInv'
      BY StoreStep DEF WInv, IInv, IndexInv
    <3>3. PICK slot \in Slots(l) : PutIntoSlot(l, e, "copy", slot)
      BY <2>1, <3>1, FreeSlotPut
    <3>4. \A t \in Streams \ {"copy"} : Pending(t, <<"slot", slot>>) = {}
      BY <1>4 DEF Streams, Pending
    <3>5. TruthInv'
      BY <3>1, <3>2, <3>3, <3>4, SlotTruth DEF WInv
    <3>6. copies'["prefetch"] = <<>>
      <4>1. <<"slot", slot>> \in Places /\ <<l, e>> \in Uids /\ "prefetch" \in Streams \ {"copy"}
        BY SlotsOfLayer, PlacesAre DEF Uids, Streams
      <4> QED
        BY <1>4, <3>1, <3>3, <4>1, Issued DEF PutIntoSlot
    <3> QED
      BY <3>5, <3>6
  <2>2. CASE UNCHANGED <<index, copies>>
    BY <1>1, <1>4, <2>2, SameTruth DEF WInv, index, gpu
  <2> QED
    BY <2>1, <2>2 DEF Store
<1>6. WaitInv'
  <2>1. DOMAIN views' = {} /\ DOMAIN compute' = {} /\ views' = <<>> /\ compute' = <<>>
    BY <1>1, <1>4 DEF gpu
  <2> QED
    BY <1>1, <1>5, <2>1 DEF WInv, WaitInv, KindInv, PrefetchAwaited, CopyAwaited, ForwardInv,
       ViewInv, KernelInv, KernelWaits
<1> QED
  BY <1>5, <1>6

(* When a look-up has waited for the compute stream, the prefetch stream   *)
(* has nothing left: forward began with wait_prefetch.                     *)
LEMMA NoPrefetchesLeft ==
  ASSUME WInv, pc = "lookup", Drained
  PROVE  copies["prefetch"] = <<>>
<1> SUFFICES ASSUME copies["prefetch"] # <<>> PROVE FALSE
  OBVIOUS
<1>1. /\ "prefetch" \in Streams /\ Len(copies["prefetch"]) \in Nat \ {0}
      /\ DOMAIN copies["prefetch"] = 1 .. Len(copies["prefetch"])
  BY CopiesAre DEF WInv
<1>2. 1 \in DOMAIN copies["prefetch"]
  BY <1>1
<1>3. Awaited("prefetch", 1)
  BY <1>1, <1>2 DEF WInv, WaitInv, ForwardInv
<1>4. barrier["prefetch"] = 0
  BY <1>1, TickedAt DEF Drained, WInv, IInv, QueueType
<1> QED
  BY <1>3, <1>4 DEF Awaited

(* A miss: the copy goes to the end of the copy stream, and the index is   *)
(* as true as it was.                                                      *)
LEMMA MissIssues ==
  ASSUME WInv, pc = "lookup", NEW l \in Layers, NEW e \in Experts, ~Found(l, e),
         IF kind = "prefill" THEN LoadForPrefill(l, e) ELSE LoadForDecode(l, e, "copy"),
         UNCHANGED memory, IInv'
  PROVE  TruthInv' /\ \E p \in Places : Issue("copy", p, <<l, e>>)
<1>1. IndexInv /\ IndexInv' /\ CopiesType /\ "copy" \in Streams
  BY CopiesAre DEF WInv, IInv, IndexInv
<1>2. free[l] = {} /\ loaded[l][e] = None
  BY DEF WInv, IInv, FullInv, Found
<1>3. CASE LoadIntoBuffer(l, e) /\ kind = "prefill"
  <2>1. copies["prefetch"] = <<>>
    BY <1>3 DEF WInv, WaitInv, KindInv
  <2>2. /\ TruthInv' /\ FirstBuffer \in Experts
        /\ Issue("copy", <<"buffer", FirstBuffer>>, <<l, e>>)
    BY <1>1, <1>3, <2>1, BufferTruth DEF WInv
  <2> QED
    BY <2>2, PlacesAre
<1>4. CASE LoadEvicting(l, e, "copy")
  <2>1. copies["prefetch"] = <<>>
    BY <1>4, NoPrefetchesLeft DEF LoadEvicting
  <2>2. PICK slot \in Slots(l) : PutIntoSlot(l, e, "copy", slot)
    BY <1>1, <1>2, <1>4, VictimSlotPut
  <2>3. \A t \in Streams \ {"copy"} : Pending(t, <<"slot", slot>>) = {}
    BY <2>1 DEF Streams, Pending
  <2>4. TruthInv'
    BY <1>1, <2>2, <2>3, SlotTruth DEF WInv
  <2> QED
    BY <2>2, <2>4, SlotsOfLayer, PlacesAre DEF PutIntoSlot
<1> QED
  BY <1>2, <1>3, <1>4 DEF LoadForPrefill, LoadForDecode, LoadIntoSlot

LEMMA LookupWaits == ASSUME WInv, NEW e \in Experts, Lookup(e) PROVE TruthInv' /\ WaitInv'
<1> DEFINE view == Item(PlaceOf(layer, e)', <<layer, e>>)
<1>1. /\ pc = "lookup" /\ pc' = pc
      /\ UNCHANGED <<gpu, prefetch_lock, barrier, host, layer, kind>>
      /\ views' = Append(views, view)
  BY DEF Lookup, host
<1>2. layer \in Layers
  BY <1>1, ExpertCacheAssumption DEF WInv, IInv, ControlInv, HostType, Layers
<1> PICK l \in Layers : l = layer
  BY <1>2
<1>3. compute = <<>> /\ compute' = <<>> /\ DOMAIN compute = {}
  BY <1>1 DEF WInv, WaitInv, KernelInv, gpu
<1>4. view.uid = <<l, e>>
  BY DEF Item
<1> HIDE DEF view
<1>5. /\ \A k \in DOMAIN views : k \in DOMAIN views' /\ views'[k] = views[k]
      /\ \A k \in DOMAIN views' : k \in DOMAIN views \/ views'[k] = view
      /\ \E k \in DOMAIN views' : views'[k] = view
  <2> DEFINE last == Len(views) + 1
  <2>1. views \in Seq(Copies)
    BY DEF WInv, IInv, QueueType, Copies
  <2>2. Len(views) \in Nat /\ DOMAIN views = 1 .. Len(views)
    BY <2>1
  <2>3. views'[last] = view /\ DOMAIN views' = 1 .. last
        /\ \A k \in DOMAIN views : views'[k] = views[k]
    BY <1>1, <2>1
  <2>4. last \in DOMAIN views' /\ \A k \in DOMAIN views' : k \in DOMAIN views \/ k = last
    BY <2>2, <2>3
  <2> QED
    BY <2>2, <2>3, <2>4
<1>6. ViewInv'
  BY <1>1, <1>4, <1>5 DEF WInv, WaitInv, ViewInv
<1>7. KernelInv'
  BY <1>1, <1>3 DEF KernelInv, KernelWaits
<1>8. CASE UNCHANGED <<index, copies, loading_lock>>
  <2>1. TruthInv'
    BY <1>1, <1>8, SameTruth DEF WInv, index, gpu
  <2>2. CopyAwaited'
    BY <1>1, <1>3, <1>5, <1>8 DEF WInv, WaitInv, CopyAwaited, Refilled
  <2>3. KindInv' /\ PrefetchAwaited' /\ ForwardInv'
    BY <1>1, <1>8 DEF WInv, WaitInv, KindInv, PrefetchAwaited, ForwardInv, Awaited
  <2> QED
    BY <1>6, <1>7, <2>1, <2>2, <2>3 DEF WaitInv
<1>9. CASE /\ ~Found(l, e)
           /\ IF kind = "prefill" THEN LoadForPrefill(l, e) ELSE LoadForDecode(l, e, "copy")
           /\ loading_lock' = [loading_lock EXCEPT ![l][e] = Recorded("copy")]
  <2>1. TruthInv' /\ \E p \in Places : Issue("copy", p, <<l, e>>)
    BY <1>1, <1>9, LookupStep, MissIssues DEF WInv, gpu
  <2>2. PICK p \in Places : Issue("copy", p, <<l, e>>)
    BY <2>1
  <2> DEFINE N == Len(copies["copy"])
  <2>3. /\ N \in Nat /\ Len(copies'["copy"]) = N + 1
        /\ copies'["prefetch"] = copies["prefetch"]
        /\ DOMAIN copies'["copy"] = DOMAIN copies["copy"] \cup {N + 1}
        /\ DOMAIN copies["copy"] = 1 .. N
        /\ copies'["copy"][N + 1].uid = <<l, e>>
        /\ \A j \in DOMAIN copies["copy"] : copies'["copy"][j] = copies["copy"][j]
    <3>1. CopiesType /\ "copy" \in Streams /\ "prefetch" \in Streams \ {"copy"} /\ <<l, e>> \in Uids
      BY CopiesAre DEF WInv, Uids
    <3>2. copies'["copy"][N + 1] = Item(p, <<l, e>>)
      BY <2>2, <3>1, Issued
    <3>3. copies'["copy"][N + 1].uid = <<l, e>>
      BY <3>2 DEF Item
    <3> QED
      BY <2>2, <3>1, <3>3, Issued
  <2>4. /\ loading_lock'[l][e]["copy"] = N + 1
        /\ \A f \in Experts \ {e} : loading_lock'[l][f] = loading_lock[l][f]
    BY <1>9 DEF Recorded, Streams, WInv, IInv, QueueType
  <2> HIDE DEF N
  <2>5. CopyAwaited'
    <3>1. PICK k \in DOMAIN views' : views'[k].uid = <<l, e>>
      BY <1>4, <1>5
    <3>2. loading_lock'[l][views'[k].uid[2]]["copy"] >= Len(copies'["copy"])
      BY <2>3, <2>4, <3>1
    <3> QED
      BY <1>1, <3>2 DEF CopyAwaited
  <2>6. ForwardInv'
    <3> SUFFICES ASSUME NEW t \in Streams, NEW j \in DOMAIN copies'[t] PROVE Awaited(t, j)'
      BY DEF ForwardInv
    <3>1. CASE t = "prefetch"
      <4>1. Awaited(t, j)
        BY <1>1, <2>3, <3>1 DEF WInv, WaitInv, ForwardInv
      <4> QED
        BY <1>1, <2>3, <3>1, <4>1 DEF Awaited
    <3>2. CASE t = "copy" /\ j = N + 1
      BY <1>1, <2>3, <2>4, <3>2 DEF Awaited
    <3>3. CASE t = "copy" /\ j \in DOMAIN copies["copy"]
      <4>1. Awaited(t, j)
        BY <1>1, <3>3 DEF WInv, WaitInv, ForwardInv
      <4>2. copies["copy"][j].uid[2] \in Experts /\ j \in Nat /\ j <= N
        <5>1. copies["copy"][j] \in Copies
          BY <3>3, CopiesAre DEF WInv
        <5> QED
          BY <2>3, <3>3, <5>1 DEF Copies, Uids
      <4>3. copies'["copy"][j] = copies["copy"][j]
        BY <2>3, <3>3
      <4>4. CASE j <= barrier[t]
        BY <4>4, <1>1 DEF Awaited
      <4>5. CASE copies["copy"][j].uid[1] = l /\ j <= loading_lock[l][copies["copy"][j].uid[2]]["copy"]
        <5>1. j <= loading_lock'[l][copies["copy"][j].uid[2]]["copy"]
          <6>1. CASE copies["copy"][j].uid[2] = e
            BY <6>1, <2>3, <2>4, <4>2
          <6>2. CASE copies["copy"][j].uid[2] # e
            BY <6>2, <2>4, <4>2, <4>5
          <6> QED
            BY <6>1, <6>2
        <5> QED
          BY <1>1, <3>3, <4>3, <4>5, <5>1 DEF Awaited
      <4> QED
        BY <3>3, <4>1, <4>4, <4>5 DEF Awaited
    <3> QED
      BY <2>3, <3>1, <3>2, <3>3 DEF Streams
  <2>7. KindInv' /\ PrefetchAwaited'
    BY <1>1, <2>3 DEF WInv, WaitInv, KindInv, PrefetchAwaited
  <2> QED
    BY <1>6, <1>7, <2>1, <2>5, <2>6, <2>7 DEF WaitInv
<1> QED
  BY <1>8, <1>9 DEF Lookup

(* A prefetch evicts into a slot that no miss of this layer has a copy to: *)
(* the slot belongs to the next layer.                                     *)
LEMMA PrefetchWaits == ASSUME WInv, NEW e \in Experts, Prefetch(e) PROVE TruthInv' /\ WaitInv'
<1>1. /\ pc = "prefetch" /\ pc' = pc /\ Drained
      /\ UNCHANGED <<gpu, loading_lock, barrier, host, layer, kind, views>>
      /\ e \in todo[1] /\ todo' = <<todo[1] \ {e}>>
  BY DEF Prefetch, host
<1>2. layer \in Layers /\ layer + 1 \in Layers /\ Len(todo) = 1
  BY <1>1, ExpertCacheAssumption DEF WInv, IInv, ControlInv, HostType, Layers
<1> PICK l \in Layers : l = layer + 1
  BY <1>2
<1>3. kind = "decode" /\ Cardinality(todo[1]) <= PrefetchSize /\ compute = <<>> /\ DOMAIN compute = {}
  BY <1>1 DEF WInv, WaitInv, KindInv, Drained
<1>4. /\ Cardinality(todo[1]) \in Nat \ {0}
      /\ Cardinality(todo[1] \ {e}) = Cardinality(todo[1]) - 1
  <2>1. todo[1] \in SUBSET Experts
    BY <1>2, TodoTypes DEF WInv, IInv
  <2>2. IsFiniteSet(Experts)
    BY ExpertCacheAssumption, FS_Interval DEF Experts
  <2>3. IsFiniteSet(todo[1])
    BY <2>1, <2>2, FS_Subset
  <2>4. Cardinality(todo[1]) # 0 /\ Cardinality(todo[1]) \in Nat
    BY <1>1, <2>3, FS_EmptySet, FS_CardinalityType
  <2>5. Cardinality(todo[1] \ {e}) = Cardinality(todo[1]) - 1
    BY <1>1, <2>3, FS_RemoveElement
  <2> QED
    BY <2>4, <2>5
<1> DEFINE idx == PrefetchSize - Cardinality(todo[1])
<1>5. idx \in Experts /\ PrefetchSize \in Nat
  BY <1>3, <1>4, ExpertCacheAssumption DEF Experts
<1>6. Cardinality(todo'[1]) <= PrefetchSize
  BY <1>1, <1>3, <1>4, <1>5
<1> HIDE DEF idx
<1>7. KernelInv' /\ ViewInv'
  BY <1>1, <1>3 DEF WInv, WaitInv, KernelInv, KernelWaits, ViewInv, gpu
<1>8. CASE UNCHANGED <<index, copies, prefetch_lock>>
  <2>1. TruthInv'
    BY <1>1, <1>8, SameTruth DEF WInv, index, gpu
  <2>2. KindInv' /\ PrefetchAwaited' /\ CopyAwaited' /\ ForwardInv'
    BY <1>1, <1>6, <1>8 DEF WInv, WaitInv, KindInv, PrefetchAwaited, CopyAwaited, Refilled,
       ForwardInv, Awaited, gpu
  <2> QED
    BY <1>7, <2>1, <2>2 DEF WaitInv
<1>9. CASE /\ loaded[l][e] = None
           /\ LoadForDecode(l, e, "prefetch")
           /\ prefetch_lock' = [prefetch_lock EXCEPT ![idx] = Recorded("prefetch")]
  <2>1. IndexInv /\ IndexInv' /\ CopiesType /\ "copy" \in Streams \ {"prefetch"}
        /\ "prefetch" \in Streams /\ UNCHANGED memory
    BY <1>1, PrefetchStep, CopiesAre DEF WInv, IInv, IndexInv, gpu
  <2>2. PICK slot \in Slots(l) : PutIntoSlot(l, e, "prefetch", slot)
    BY <1>9, <2>1, DecodeLoadPut
  <2> DEFINE p == <<"slot", slot>>
             N == Len(copies["prefetch"])
  <2>3. p \in Places /\ <<l, e>> \in Uids /\ Issue("prefetch", p, <<l, e>>)
    BY <2>2, SlotsOfLayer, PlacesAre DEF PutIntoSlot, Uids
  <2>4. Pending("copy", p) = {}
    <3> SUFFICES ASSUME NEW j \in Pending("copy", p) PROVE FALSE
      OBVIOUS
    <3>1. j \in DOMAIN copies["copy"] /\ copies["copy"][j].at = p /\ j \in Nat \ {0}
      BY CopiesAre DEF Pending, WInv
    <3>2. copies["copy"][j].uid[1] \in Layers
      <4>1. copies["copy"][j] \in Copies
        BY <3>1, CopiesAre DEF WInv
      <4> QED
        BY <4>1 DEF Copies, Uids
    <3>3. slot \in Slots(copies["copy"][j].uid[1])
      BY <3>1, <2>1 DEF WInv, TruthInv, Placed
    <3>4. copies["copy"][j].uid[1] = l
      BY <3>2, <3>3, SlotsApart
    <3>5. Awaited("copy", j)
      BY <1>1, <2>1, <3>1 DEF WInv, WaitInv, ForwardInv
    <3>6. barrier["copy"] = 0
      BY <1>1, <2>1, TickedAt DEF Drained, WInv, IInv, QueueType
    <3>7. l # layer
      BY <1>2 DEF Layers
    <3> QED
      BY <3>1, <3>4, <3>5, <3>6, <3>7 DEF Awaited
  <2>5. TruthInv'
    <3>1. \A t \in Streams \ {"prefetch"} : Pending(t, p) = {}
      BY <2>4 DEF Streams
    <3> QED
      BY <2>1, <2>2, <3>1, SlotTruth DEF WInv
  <2>6. /\ N \in Nat /\ Len(copies'["prefetch"]) = N + 1
        /\ copies'["copy"] = copies["copy"]
        /\ DOMAIN copies'["prefetch"] = DOMAIN copies["prefetch"] \cup {N + 1}
        /\ copies'["prefetch"][N + 1].uid = <<l, e>>
        /\ \A j \in DOMAIN copies["prefetch"] : copies'["prefetch"][j] = copies["prefetch"][j]
    <3>1. copies'["prefetch"][N + 1] = Item(p, <<l, e>>)
      BY <2>1, <2>3, Issued
    <3>2. copies'["prefetch"][N + 1].uid = <<l, e>>
      BY <3>1 DEF Item
    <3> QED
      BY <2>1, <2>3, <3>2, Issued
  <2>7. prefetch_lock'[idx]["prefetch"] = N + 1
    BY <1>5, <1>9 DEF Recorded, Streams, WInv, IInv, QueueType
  <2> HIDE DEF N
  <2>8. PrefetchAwaited'
    BY <1>5, <2>6, <2>7 DEF PrefetchAwaited
  <2>9. CopyAwaited'
    BY <1>1, <1>3, <2>6 DEF WInv, WaitInv, CopyAwaited, Refilled, gpu
  <2>10. ForwardInv'
    <3> SUFFICES ASSUME NEW t \in Streams, NEW j \in DOMAIN copies'[t] PROVE Awaited(t, j)'
      BY DEF ForwardInv
    <3>1. CASE t = "prefetch" /\ j = N + 1
      BY <1>1, <2>6, <3>1 DEF Awaited
    <3>2. CASE j \in DOMAIN copies[t] /\ copies'[t][j] = copies[t][j]
      BY <1>1, <3>2 DEF Awaited, WInv, WaitInv, ForwardInv
    <3> QED
      BY <2>6, <3>1, <3>2 DEF Streams
  <2>11. KindInv'
    BY <1>1, <1>3, <1>6 DEF KindInv
  <2> QED
    BY <1>7, <2>5, <2>8, <2>9, <2>10, <2>11 DEF WaitInv
<1> QED
  BY <1>8, <1>9 DEF Prefetch, idx

(* A refill takes a buffer that is free, for a layer no kernel is for yet. *)
LEMMA ReloadWaits == ASSUME WInv, Reload PROVE TruthInv' /\ WaitInv'
<1>1. /\ pc = "reset" /\ pc' = pc /\ todo[1] # {}
      /\ UNCHANGED <<gpu, loading_lock, barrier, host, layer, kind, views>>
  BY DEF Reload, host
<1>2. Len(todo) = 1 /\ layer \in Nat /\ \A i \in todo[1] : layer < L - 2 /\ BufferFree(i)
  BY <1>1 DEF WInv, IInv, ControlInv, HostType
<1>3. todo[1] \in SUBSET Experts
  BY <1>2, TodoTypes DEF WInv, IInv
<1> PICK e \in Experts : e = Smallest(todo[1]) /\ e \in todo[1]
  BY <1>1, <1>3, SmallestElement
<1>4. layer < L - 2 /\ layer + 2 \in Layers
  BY <1>2, ExpertCacheAssumption DEF Layers
<1> PICK l \in Layers : l = layer + 2
  BY <1>4
<1>5. LoadForPrefill(l, e) /\ prefetch_lock' = [prefetch_lock EXCEPT ![e] = Recorded("copy")]
  BY DEF Reload
<1>6. free[l] = {} /\ RoomInBuffer
  BY <1>1, <1>2 DEF WInv, IInv, FullInv, RoomInBuffer
<1>7. LoadIntoBuffer(l, e)
  BY <1>5, <1>6 DEF LoadForPrefill, LoadIntoSlot
<1>8. kind = "prefill" /\ copies["prefetch"] = <<>>
  BY <1>1 DEF WInv, WaitInv, KindInv
<1>9. CopiesType /\ "copy" \in Streams /\ "prefetch" \in Streams \ {"copy"} /\ UNCHANGED memory
      /\ \A t \in Streams : t = "copy" \/ t = "prefetch"
  BY <1>1, CopiesAre DEF WInv, gpu
<1> PICK b \in Experts : b = FirstBuffer
  BY <1>7, <1>8, <1>9, BufferTruth DEF WInv, IInv, IndexInv
<1> DEFINE p == <<"buffer", b>>
<1>10. /\ TruthInv' /\ Issue("copy", p, <<l, e>>)
       /\ loaded' = loaded /\ buffer_slots'[b] = <<l, e>>
       /\ \A i \in Experts \ {b} : buffer_slots'[i] = buffer_slots[i]
  BY <1>7, <1>8, <1>9, BufferTruth DEF WInv, IInv, IndexInv
<1>11. p \in Places /\ <<l, e>> \in Uids
  BY PlacesAre DEF Uids
<1> DEFINE N == Len(copies["copy"])
<1>12. /\ N \in Nat /\ Len(copies'["copy"]) = N + 1
       /\ copies'["prefetch"] = copies["prefetch"]
       /\ DOMAIN copies'["copy"] = DOMAIN copies["copy"] \cup {N + 1}
       /\ copies'["copy"][N + 1].at = p
       /\ \A j \in DOMAIN copies["copy"] : copies'["copy"][j] = copies["copy"][j]
  <2>1. copies'["copy"][N + 1] = Item(p, <<l, e>>)
    BY <1>9, <1>10, <1>11, Issued
  <2>2. copies'["copy"][N + 1].at = p
    BY <2>1 DEF Item
  <2> QED
    BY <1>9, <1>10, <1>11, <2>2, Issued
<1>13. prefetch_lock'[e]["copy"] = N + 1
  BY <1>5 DEF Recorded, Streams, WInv, IInv, QueueType
<1> HIDE DEF N
<1>14. KindInv' /\ PrefetchAwaited' /\ ForwardInv' /\ ViewInv'
  BY <1>1, <1>8, <1>12 DEF WInv, WaitInv, KindInv, PrefetchAwaited, ForwardInv, ViewInv
<1>15. CopyAwaited'
  BY <1>1, <1>4, <1>8, <1>12, <1>13 DEF CopyAwaited, Refilled
<1>16. KernelWaits'
  <2> SUFFICES ASSUME NEW k \in DOMAIN compute, Current(compute[k].at, compute[k].uid)',
                      NEW s \in Streams, NEW j \in Pending(s, compute[k].at)'
               PROVE  j <= compute[k].after[s]
    BY <1>1 DEF KernelWaits, gpu
  <2>1. compute' = compute /\ compute[k].at \in Places /\ compute[k].uid[1] = layer
    <3>1. compute \in Seq([at : Places, uid : Uids, after : Waits])
      BY DEF WInv, IInv, QueueType
    <3>2. compute[k] \in [at : Places, uid : Uids, after : Waits]
      BY <3>1, SequenceParts
    <3> QED
      BY <1>1, <3>2 DEF gpu, WInv, WaitInv, KernelInv
  <2>2. compute[k].at # p
    <3> SUFFICES ASSUME compute[k].at = p PROVE FALSE
      OBVIOUS
    <3>1. compute[k].uid = <<l, e>>
      BY <1>10, <2>1 DEF Current
    <3> QED
      BY <2>1, <3>1, <1>2
  <2>3. Current(compute[k].at, compute[k].uid)
    <3>1. compute[k].at[1] # "slot" => compute[k].at[2] \in Experts /\ compute[k].at[2] # b
      BY <2>1, <2>2 DEF Places
    <3> QED
      BY <1>10, <2>1, <3>1 DEF Current
  <2>4. j \in Pending(s, compute[k].at)
    BY <1>9, <1>12, <2>1, <2>2 DEF Pending
  <2> QED
    BY <2>3, <2>4 DEF WInv, WaitInv, KernelInv, KernelWaits
<1>17. KernelInv'
  BY <1>1, <1>16 DEF WInv, WaitInv, KernelInv, gpu
<1> QED
  BY <1>10, <1>14, <1>15, <1>17 DEF WaitInv

-----------------------------------------------------------------------------
LEMMA InitWInv == Init => WInv
<1> SUFFICES ASSUME Init PROVE WInv
  OBVIOUS
<1>1. IInv
  BY InitIInv
<1>2. DOMAIN copies["copy"] = {} /\ DOMAIN copies["prefetch"] = {} /\ copies["prefetch"] = <<>>
      /\ \A s \in Streams : DOMAIN copies[s] = {}
      /\ views = <<>> /\ DOMAIN views = {} /\ compute = <<>> /\ DOMAIN compute = {}
  BY DEF Init, Streams
<1>3. \A l \in Layers : Loaded(l) = {}
  BY DEF Init, Loaded
<1>4. TruthInv
  BY <1>2, <1>3 DEF Init, TruthInv, IndexTruthful, BufferTruthful, BufferFree, Placed
<1>5. WaitInv
  BY <1>2 DEF Init, WaitInv, KindInv, PrefetchAwaited, CopyAwaited, ForwardInv, ViewInv,
     KernelInv, KernelWaits
<1> QED
  BY <1>1, <1>4, <1>5 DEF WInv

(* Every step preserves the invariant. *)
LEMMA WaitsInductive == WInv /\ [Next]_vars => WInv'
<1> SUFFICES ASSUME WInv, [Next]_vars PROVE TruthInv' /\ WaitInv'
  BY Inductive DEF WInv
<1>1. CASE BeginPass
  BY <1>1, BeginPassWaits
<1>2. CASE Work
  BY <1>2, StoreWaits, NextLayerToLoadWaits, AllLoadedWaits, ForwardWaits, EndLookupsWaits,
     EndPrefetchWaits, UseWaits, EndForwardWaits, ReloadWaits, EndResetWaits, LookupWaits,
     PrefetchWaits DEF Work
<1>3. CASE ExecuteKernel
  BY <1>3, ExecuteKernelWaits
<1>4. CASE \E s \in Streams : ExecuteCopy(s)
  BY <1>4, ExecuteCopyWaits
<1>5. CASE UNCHANGED vars
  <2>1. TruthInv'
    BY <1>5, SameTruth DEF WInv, vars, index, gpu
  <2>2. WaitInv'
    BY <1>5 DEF WInv, WaitInv, KindInv, PrefetchAwaited, CopyAwaited, Refilled, ForwardInv, Awaited,
       ViewInv, KernelInv, KernelWaits, Current, Pending, vars, index, gpu, host
  <2> QED
    BY <2>1, <2>2
<1> QED
  BY <1>1, <1>2, <1>3, <1>4, <1>5 DEF Next

LEMMA WaitsHold == Spec => []WInv
BY InitWInv, WaitsInductive, PTL DEF Spec

(* What the index says of a slot is what the copies make of it, in any     *)
(* order in which the two streams run them.                                *)
THEOREM IndexTellsTruth == Spec => []IndexTruthful
<1>1. WInv => IndexTruthful
  BY DEF WInv, TruthInv
<1> QED
  BY <1>1, WaitsHold, PTL

-----------------------------------------------------------------------------
(* Who displaces whom in a decode pass.  A miss that is loaded takes the   *)
(* slot of one expert, and is looked up after all whose views there are: a *)
(* view or a kernel that lost its place lost it to a view behind it.       *)

Taken(at, k) == \E j \in DOMAIN views : j > k /\ views[j].at = at

DecodeInv ==
  kind = "decode" =>
    /\ \A k \in DOMAIN views : Current(views[k].at, views[k].uid) \/ Taken(views[k].at, k)
    /\ DOMAIN compute \subseteq {1}
    /\ \A k \in DOMAIN compute :
         Current(compute[k].at, compute[k].uid) \/ Taken(compute[k].at, 0)

(* A layer that was full stays full: what an expert loses, the one loaded  *)
(* for it gets.                                                            *)
LEMMA OneDisplaced ==
  ASSUME IInv, IInv', pc # "loading", pc' # "loading",
         NEW l \in Layers, NEW e \in Experts, NEW s \in Streams,
         loaded[l][e] = None, LoadForDecode(l, e, s), NEW f \in Loaded(l)
  PROVE  loaded'[l][f] = loaded[l][f] \/ loaded'[l][e] = loaded[l][f]
<1>1. IndexInv /\ IndexInv' /\ free[l] = {} /\ free'[l] = {}
  BY DEF IInv, IndexInv, FullInv
<1>2. PICK slot \in Slots(l) : PutIntoSlot(l, e, s, slot)
  BY <1>1, DecodeLoadPut
<1>3. loaded[l][f] \in {loaded'[l][g] : g \in Loaded(l)'}
  BY <1>1 DEF IndexInv, SlotPartition
<1>4. PICK g \in Loaded(l)' : loaded'[l][g] = loaded[l][f]
  BY <1>3
<1>5. CASE g = e
  BY <1>4, <1>5
<1>6. CASE g # e
  <2>1. g \in Loaded(l) /\ loaded'[l][g] = loaded[l][g]
    BY <1>2, <1>6 DEF PutIntoSlot
  <2>2. g = f
    BY <1>1, <1>4, <2>1 DEF IndexInv, SlotPartition
  <2> QED
    BY <1>4, <2>2
<1> QED
  BY <1>5, <1>6

(* So a load for l displaces no view of another layer, and those of l only *)
(* from the slot of the expert that is loaded.                             *)
LEMMA DisplacedByLoad ==
  ASSUME IInv, IInv', pc # "loading", pc' # "loading",
         NEW l \in Layers, NEW e \in Experts, NEW s \in Streams,
         loaded[l][e] = None, LoadForDecode(l, e, s),
         NEW p \in Places, NEW u \in Uids, Current(p, u)
  PROVE  Current(p, u)' \/ (u[1] = l /\ p = <<"slot", loaded'[l][e]>>)
<1>1. u[1] \in Layers /\ u[2] \in Experts
  BY DEF Uids
<1>2. IndexInv /\ UNCHANGED buffer_slots
  BY DEF IInv, IndexInv, LoadForDecode, LoadIntoSlot, LoadEvicting
<1>3. PICK slot \in Slots(l) : PutIntoSlot(l, e, s, slot)
  BY <1>2, DecodeLoadPut
<1>4. CASE p[1] # "slot"
  BY <1>2, <1>4 DEF Current
<1>5. CASE p[1] = "slot" /\ u[1] # l
  BY <1>1, <1>3, <1>5 DEF Current, PutIntoSlot
<1>6. CASE p[1] = "slot" /\ u[1] = l
  <2>1. p = <<"slot", p[2]>> /\ p[2] \in Nat /\ loaded[l][u[2]] = p[2]
    BY <1>6 DEF Places, Current
  <2>2. u[2] \in Loaded(l)
    BY <1>1, <2>1 DEF Loaded, None
  <2>3. loaded'[l][u[2]] = loaded[l][u[2]] \/ loaded'[l][e] = loaded[l][u[2]]
    BY <2>2, OneDisplaced
  <2> QED
    BY <1>6, <2>1, <2>3 DEF Current
<1> QED
  BY <1>4, <1>5, <1>6

LEMMA ViewsAre ==
  ASSUME IInv
  PROVE  /\ \A k \in DOMAIN views : k \in Nat \ {0} /\ views[k].at \in Places /\ views[k].uid \in Uids
         /\ \A k \in DOMAIN compute : compute[k].at \in Places /\ compute[k].uid \in Uids
<1>1. views \in Seq(Copies)
  BY DEF IInv, QueueType, Copies
<1> DEFINE K == [at : Places, uid : Uids, after : Waits]
<1>2. compute \in Seq(K)
  BY DEF IInv, QueueType
<1> HIDE DEF K
<1>3. /\ \A k \in DOMAIN views : k \in Nat \ {0} /\ views[k] \in Copies
      /\ \A k \in DOMAIN compute : compute[k] \in K
  BY <1>1, <1>2
<1> QED
  BY <1>3 DEF Copies, K

LEMMA SameDecode ==
  ASSUME DecodeInv, UNCHANGED <<loaded, buffer_slots, views, kind>>,
         DOMAIN compute' = DOMAIN compute,
         \A k \in DOMAIN compute : compute'[k].at = compute[k].at /\ compute'[k].uid = compute[k].uid
  PROVE  DecodeInv'
BY DEF DecodeInv, Taken, Current

(* An expert is looked up last of all so far, wherever its place is.       *)
LEMMA LookupDecode ==
  ASSUME WInv, WInv', DecodeInv, NEW e \in Experts, Lookup(e), kind' = "decode"
  PROVE  DecodeInv'
<1> DEFINE view == Item(PlaceOf(layer, e)', <<layer, e>>)
           last == Len(views) + 1
<1>1. /\ pc = "lookup" /\ pc' = pc /\ kind = "decode" /\ layer' = layer
      /\ UNCHANGED <<gpu, compute>> /\ views' = Append(views, view)
  BY DEF Lookup, host, gpu
<1>2. layer \in Layers
  BY <1>1, ExpertCacheAssumption DEF WInv, IInv, ControlInv, HostType, Layers
<1> PICK l \in Layers : l = layer
  BY <1>2
<1>3. compute = <<>> /\ DOMAIN compute' = {}
  BY <1>1 DEF WInv, WaitInv, KernelInv
<1>4. view.uid = <<l, e>> /\ view.at = PlaceOf(l, e)'
  BY <1>1 DEF Item, PlaceOf
<1> HIDE DEF view
<1>5. /\ last \in Nat /\ last \in DOMAIN views' /\ views'[last] = view
      /\ \A k \in DOMAIN views : k \in DOMAIN views' /\ views'[k] = views[k] /\ k < last
      /\ \A k \in DOMAIN views' : k \in DOMAIN views \/ k = last
  <2>1. views \in Seq(Copies)
    BY DEF WInv, IInv, QueueType, Copies
  <2>2. Len(views) \in Nat /\ DOMAIN views = 1 .. Len(views)
    BY <2>1
  <2>3. views'[last] = view /\ DOMAIN views' = 1 .. last
        /\ \A k \in DOMAIN views : views'[k] = views[k]
    BY <1>1, <2>1
  <2>4. last \in DOMAIN views' /\ \A k \in DOMAIN views' : k \in DOMAIN views \/ k = last
    BY <2>2, <2>3
  <2> QED
    BY <2>2, <2>3, <2>4
<1> HIDE DEF last
<1>6. \/ Found(l, e) /\ UNCHANGED <<loaded, buffer_slots>>
      \/ ~Found(l, e) /\ loaded[l][e] = None /\ LoadForDecode(l, e, "copy")
  BY <1>1 DEF Lookup, Found, index
<1>7. Found(l, e)'
  <2>1. CASE Found(l, e) /\ UNCHANGED <<loaded, buffer_slots>>
    BY <2>1 DEF Found, InBuffer
  <2>2. CASE loaded[l][e] = None /\ LoadForDecode(l, e, "copy")
    BY <2>2, CopiesAre, DecodeLoad DEF WInv, IInv, IndexInv
  <2> QED
    BY <1>6, <2>1, <2>2
<1>8. Current(PlaceOf(l, e), <<l, e>>)'
  BY <1>7, PlaceHolds DEF WInv, IInv
<1>9. \A k \in DOMAIN views, p \in Places, u \in Uids :
        views[k].at = p /\ views[k].uid = u /\ Current(p, u)
          => Current(p, u)' \/ p = view.at
  <2> SUFFICES ASSUME NEW p \in Places, NEW u \in Uids, Current(p, u)
               PROVE  Current(p, u)' \/ p = view.at
    OBVIOUS
  <2>1. CASE UNCHANGED <<loaded, buffer_slots>>
    BY <2>1 DEF Current
  <2>2. CASE loaded[l][e] = None /\ LoadForDecode(l, e, "copy")
    <3>1. Current(p, u)' \/ p = <<"slot", loaded'[l][e]>>
      BY <1>1, <2>2, CopiesAre, DisplacedByLoad DEF WInv
    <3>2. loaded'[l][e] # None
      <4>1. PICK slot \in Slots(l) : PutIntoSlot(l, e, "copy", slot)
        BY <2>2, CopiesAre, DecodeLoadPut DEF WInv, IInv, IndexInv
      <4> QED
        BY <4>1, SlotsOfLayer DEF PutIntoSlot, None
    <3>3. PlaceOf(l, e)' = <<"slot", loaded'[l][e]>>
      BY <3>2 DEF PlaceOf
    <3> QED
      BY <1>4, <3>1, <3>3
  <2> QED
    BY <1>6, <2>1, <2>2
<1>10. \A k \in DOMAIN views' : Current(views[k].at, views[k].uid)' \/ Taken(views[k].at, k)'
  <2> SUFFICES ASSUME NEW k \in DOMAIN views'
               PROVE  Current(views[k].at, views[k].uid)' \/ Taken(views[k].at, k)'
    OBVIOUS
  <2>1. CASE k = last
    <3>1. views'[k].at = PlaceOf(l, e)' /\ views'[k].uid = <<l, e>>
      BY <1>4, <1>5, <2>1
    <3> QED
      BY <1>8, <3>1 DEF Current
  <2>2. CASE k \in DOMAIN views
    <3> PICK p \in Places, u \in Uids : p = views[k].at /\ u = views[k].uid
      BY <2>2, ViewsAre DEF WInv
    <3>1. views'[k].at = p /\ views'[k].uid = u
      BY <1>5, <2>2
    <3>2. Current(p, u) \/ Taken(p, k)
      BY <1>1, <2>2 DEF DecodeInv
    <3>3. Taken(p, k) => Taken(p, k)'
      BY <1>5 DEF Taken
    <3>4. p = view.at => Taken(p, k)'
      BY <1>5, <2>2 DEF Taken
    <3>5. Current(p, u) => Current(p, u)' \/ p = view.at
      BY <1>9, <2>2
    <3>6. Current(p, u)' <=> Current(views[k].at, views[k].uid)'
      BY <3>1 DEF Current
    <3>7. Taken(p, k)' <=> Taken(views[k].at, k)'
      BY <3>1 DEF Taken
    <3> QED
      BY <3>2, <3>3, <3>4, <3>5, <3>6, <3>7
  <2> QED
    BY <1>5, <2>1, <2>2
<1> QED
  BY <1>3, <1>10 DEF DecodeInv

(* A prefetch evicts experts of the next layer.                            *)
LEMMA PrefetchDecode ==
  ASSUME WInv, WInv', DecodeInv, NEW e \in Experts, Prefetch(e)
  PROVE  DecodeInv'
<1>1. /\ pc = "prefetch" /\ pc' = pc /\ kind' = kind
      /\ UNCHANGED <<gpu, compute, views>>
  BY DEF Prefetch, host, gpu
<1>2. layer \in Nat /\ layer + 1 \in Layers /\ compute = <<>>
  BY <1>1, ExpertCacheAssumption DEF WInv, IInv, ControlInv, HostType, Layers, WaitInv, KernelInv
<1>3. CASE UNCHANGED <<loaded, buffer_slots>>
  BY <1>1, <1>3, SameDecode
<1>4. CASE loaded[layer + 1][e] = None /\ LoadForDecode(layer + 1, e, "prefetch")
  <2>1. \A k \in DOMAIN views : Current(views[k].at, views[k].uid) => Current(views[k].at, views[k].uid)'
    <3> SUFFICES ASSUME NEW k \in DOMAIN views, Current(views[k].at, views[k].uid)
                 PROVE  Current(views[k].at, views[k].uid)'
      OBVIOUS
    <3> PICK p \in Places, u \in Uids : p = views[k].at /\ u = views[k].uid
      BY ViewsAre DEF WInv
    <3>1. u[1] = layer
      BY DEF WInv, WaitInv, ViewInv
    <3>2. Current(p, u)' \/ u[1] = layer + 1
      BY <1>1, <1>2, <1>4, CopiesAre, DisplacedByLoad DEF WInv
    <3> QED
      BY <1>1, <1>2, <3>1, <3>2 DEF Current
  <2> QED
    BY <1>1, <1>2, <2>1 DEF DecodeInv, Taken
<1> QED
  BY <1>3, <1>4 DEF Prefetch, index

(* The first of the views becomes the only kernel, the others stay behind  *)
(* it.                                                                     *)
LEMMA UseDecode ==
  ASSUME WInv, DecodeInv, Use, kind' = "decode"
  PROVE  DecodeInv'
<1> DEFINE kernel == [at |-> Head(views).at, uid |-> Head(views).uid,
                      after |-> Later(barrier, LoadingWait(Head(views).uid[2]))]
<1>1. /\ views # <<>> /\ kind = "decode" /\ compute = <<>>
      /\ compute' = Append(compute, kernel) /\ views' = Tail(views)
      /\ UNCHANGED <<loaded, buffer_slots>>
  BY DEF Use, host, index, Drained
<1>2. kernel.at = Head(views).at /\ kernel.uid = Head(views).uid
  OBVIOUS
<1> HIDE DEF kernel
<1>3. DOMAIN compute' = {1} /\ compute'[1] = kernel
  BY <1>1
<1>4. views \in Seq(Copies)
  BY DEF WInv, IInv, QueueType, Copies
<1>5. /\ Head(views) = views[1] /\ 1 \in DOMAIN views
      /\ \A k \in DOMAIN views' : k \in Nat \ {0} /\ k + 1 \in DOMAIN views /\ views'[k] = views[k + 1]
      /\ \A k \in DOMAIN views : k \in Nat \ {0} /\ (k = 1 \/ (k - 1 \in DOMAIN views' /\ views'[k - 1] = views[k]))
  BY <1>1, <1>4
<1>6. \A at, k : k \in Nat /\ Taken(at, k + 1) => Taken(at, k)'
  <2> SUFFICES ASSUME NEW at, NEW k \in Nat, Taken(at, k + 1) PROVE Taken(at, k)'
    OBVIOUS
  <2> PICK j \in DOMAIN views : j > k + 1 /\ views[j].at = at
    BY DEF Taken
  <2>1. j - 1 \in DOMAIN views' /\ views'[j - 1] = views[j] /\ j - 1 > k
    BY <1>5
  <2> QED
    BY <2>1 DEF Taken
<1>7. \A at, u : Current(at, u)' <=> Current(at, u)
  BY <1>1 DEF Current
<1>8. \A k \in DOMAIN views' : Current(views[k].at, views[k].uid)' \/ Taken(views[k].at, k)'
  <2> SUFFICES ASSUME NEW k \in DOMAIN views'
               PROVE  Current(views[k].at, views[k].uid)' \/ Taken(views[k].at, k)'
    OBVIOUS
  <2>1. k \in Nat /\ k + 1 \in DOMAIN views /\ views'[k] = views[k + 1]
    BY <1>5
  <2>2. Current(views[k + 1].at, views[k + 1].uid) \/ Taken(views[k + 1].at, k + 1)
    BY <1>1, <2>1 DEF DecodeInv
  <2>3. CASE Current(views[k + 1].at, views[k + 1].uid)
    BY <1>1, <2>1, <2>3 DEF Current
  <2>4. CASE Taken(views[k + 1].at, k + 1)
    <3>1. \E j \in DOMAIN views' : j > k /\ views'[j].at = views[k + 1].at
      BY <1>6, <2>1, <2>4 DEF Taken
    <3> QED
      BY <2>1, <3>1 DEF Taken
  <2> QED
    BY <2>2, <2>3, <2>4
<1>9. Current(compute[1].at, compute[1].uid)' \/ Taken(compute[1].at, 0)'
  <2>1. Current(views[1].at, views[1].uid) \/ Taken(views[1].at, 1)
    BY <1>1, <1>5 DEF DecodeInv
  <2>2. compute'[1].at = views[1].at /\ compute'[1].uid = views[1].uid
    BY <1>2, <1>3, <1>5
  <2>3. CASE Current(views[1].at, views[1].uid)
    BY <1>1, <2>2, <2>3 DEF Current
  <2>4. CASE Taken(views[1].at, 1)
    <3>1. PICK j \in DOMAIN views : j > 1 /\ views[j].at = views[1].at
      BY <2>4 DEF Taken
    <3>2. j - 1 \in DOMAIN views' /\ views'[j - 1].at = views[1].at /\ j - 1 > 0
      BY <1>5, <3>1
    <3> QED
      BY <2>2, <3>2 DEF Taken
  <2> QED
    BY <2>1, <2>3, <2>4
<1> QED
  BY <1>3, <1>8, <1>9 DEF DecodeInv

LEMMA DecodeInductive == WInv /\ WInv' /\ DecodeInv /\ [Next]_vars => DecodeInv'
<1> SUFFICES ASSUME WInv, WInv', DecodeInv, [Next]_vars, kind' = "decode" PROVE DecodeInv'
  BY DEF DecodeInv
<1>1. CASE BeginPass \/ Forward
  <2>1. views' = <<>> /\ compute' = <<>>
    BY <1>1 DEF BeginPass, Forward, Drained, gpu, WInv, WaitInv, ViewInv
  <2> QED
    BY <2>1 DEF DecodeInv
<1>2. CASE Store \/ NextLayerToLoad \/ AllLoaded \/ Reload \/ EndReset
  <2>1. kind = "prefill" /\ kind' = kind
    BY <1>2 DEF Store, NextLayerToLoad, AllLoaded, Reload, EndReset, host, WInv, WaitInv, KindInv
  <2> QED
    BY <2>1
<1>3. CASE EndLookups \/ EndPrefetch \/ EndForward \/ UNCHANGED vars
  <2>1. UNCHANGED <<loaded, buffer_slots, views, kind, compute>>
    BY <1>3 DEF EndLookups, EndPrefetch, EndForward, vars, index, gpu, host
  <2> QED
    BY <2>1, SameDecode
<1>4. CASE Use
  BY <1>4, UseDecode
<1>5. CASE \E e \in Experts : Lookup(e) \/ Prefetch(e)
  BY <1>5, LookupDecode, PrefetchDecode
<1>6. CASE ExecuteKernel
  <2>1. UNCHANGED <<loaded, buffer_slots, views, kind>> /\ compute # <<>> /\ compute' = Tail(compute)
    BY <1>6 DEF ExecuteKernel, Runnable, index, host
  <2> DEFINE K == [at : Places, uid : Uids, after : Waits]
  <2>2. compute \in Seq(K)
    BY DEF WInv, IInv, QueueType
  <2> HIDE DEF K
  <2>3. \A k \in DOMAIN compute' : k \in Nat \ {0} /\ k + 1 \in DOMAIN compute
    BY <2>1, <2>2
  <2>4. DOMAIN compute \subseteq {1}
    BY <2>1 DEF DecodeInv
  <2>5. DOMAIN compute' = {}
    <3> SUFFICES ASSUME NEW k \in DOMAIN compute' PROVE FALSE
      OBVIOUS
    <3>1. k \in Nat \ {0} /\ k + 1 = 1
      BY <2>3, <2>4
    <3> QED
      BY <3>1
  <2> QED
    BY <2>1, <2>5 DEF DecodeInv, Taken, Current
<1>7. CASE \E s \in Streams : ExecuteCopy(s)
  <2>1. UNCHANGED <<loaded, buffer_slots, views, kind>>
    BY <1>7 DEF ExecuteCopy, index, host
  <2>2. PICK s \in Streams : compute' = [k \in DOMAIN compute |->
                   [compute[k] EXCEPT !.after = Ticked(compute[k].after, s)]]
    BY <1>7 DEF ExecuteCopy
  <2> DEFINE K == [at : Places, uid : Uids, after : Waits]
  <2>3. \A k \in DOMAIN compute : compute[k] \in K
    BY SequenceParts DEF WInv, IInv, QueueType
  <2>4. \A k \in DOMAIN compute : compute'[k].at = compute[k].at /\ compute'[k].uid = compute[k].uid
    BY <2>2, <2>3
  <2>5. DOMAIN compute' = DOMAIN compute
    BY <2>2
  <2> QED
    BY <2>1, <2>4, <2>5, SameDecode
<1> QED
  BY <1>1, <1>2, <1>3, <1>4, <1>5, <1>6, <1>7 DEF Next, Work

LEMMA DecodeHolds == Spec => []DecodeInv
<1>1. Init => DecodeInv
  BY DEF Init, DecodeInv
<1> QED
  BY <1>1, WaitsHold, DecodeInductive, PTL DEF Spec

(* A kernel that may run finds the weights of its expert at its place; in  *)
(* decode it misses them only if an expert looked up later in the same     *)
(* forward, whose kernels are still to come, was given the place.          *)
THEOREM KernelsFindWeights == Spec => []CurrentWeights
<1>1. WInv /\ DecodeInv => CurrentWeights
  <2> SUFFICES ASSUME WInv, DecodeInv, Runnable
               PROVE  \/ memory[Head(compute).at] = Head(compute).uid
                      \/ Displaced(Head(compute))
    BY DEF CurrentWeights
  <2> DEFINE K == [at : Places, uid : Uids, after : Waits]
  <2>1. compute \in Seq(K) /\ compute # <<>> /\ Complete(Head(compute).after)
    BY DEF Runnable, WInv, IInv, QueueType
  <2>2. Head(compute) \in K /\ Head(compute) = compute[1] /\ 1 \in DOMAIN compute
    <3> HIDE DEF K
    <3> QED
      BY <2>1
  <2> PICK p \in Places, u \in Uids, a \in Waits :
         p = Head(compute).at /\ u = Head(compute).uid /\ a = Head(compute).after
    BY <2>2
  <2>3. CASE ~Current(p, u)
    <3>1. kind = "decode" => Taken(p, 0)
      BY <2>2, <2>3 DEF DecodeInv
    <3> QED
      BY <2>3, <3>1 DEF Displaced, Taken
  <2>4. CASE Current(p, u)
    <3>1. WillHold(p, u)
      BY <2>4, CurrentHolds DEF WInv, IInv
    <3>2. \A s \in Streams : Pending(s, p) = {}
      <4> SUFFICES ASSUME NEW s \in Streams, NEW j \in Pending(s, p) PROVE FALSE
        OBVIOUS
      <4>1. j \in Nat \ {0}
        BY CopiesAre DEF Pending, WInv
      <4>2. j <= a[s]
        BY <2>2, <2>4 DEF WInv, WaitInv, KernelInv, KernelWaits
      <4>3. a[s] = 0
        BY <2>1, TickedAt
      <4> QED
        BY <4>1, <4>2, <4>3
    <3> QED
      BY <3>1, <3>2 DEF WillHold
  <2> QED
    BY <2>3, <2>4
<1> QED
  BY <1>1, WaitsHold, DecodeHolds, PTL

-----------------------------------------------------------------------------
(***************************************************************************)
(* HybridSchedule.  The invariant says what the queues are: the GPU has    *)
(* the first of the hits and misses, the CPU the last ones, nearest to the *)
(* end first; and what the times are, in terms of how many there are.      *)
(***************************************************************************)
(* The lists of get_expert_place *)

(* The state of the loop after size experts. *)
Kept(s, S, f) ==
  /\ f \in [0 .. Len(s) -> Seq(LayerExperts)]
  /\ f[0] = <<>>
  /\ \A size \in 1 .. Len(s) : f[size] = IF s[size] \in S THEN Append(f[size - 1], s[size]) ELSE f[size - 1]

LEMMA ThoseLoop ==
  ASSUME NEW s \in Seq(LayerExperts), NEW S
  PROVE  \E f : Kept(s, S, f) /\ Those(s, S) = f[Len(s)]
<1> PICK size, Q : size = Len(s) /\ Q = Seq(LayerExperts)
  OBVIOUS
<1>0. size \in Nat /\ \A m \in 1 .. size : s[m] \in LayerExperts
  OBVIOUS
<1> PICK step : step = [m \in 1 .. size |-> [q \in Q |-> IF s[m] \in S THEN Append(q, s[m]) ELSE q]]
  OBVIOUS
<1>1. step \in [1 .. size -> [Q -> Q]]
  <2> SUFFICES ASSUME NEW m \in 1 .. size, NEW q \in Q
               PROVE  (IF s[m] \in S THEN Append(q, s[m]) ELSE q) \in Q
    OBVIOUS
  <2> QED BY <1>0
<1>2. <<>> \in Q
  OBVIOUS
<1>3. PICK g \in [0 .. size -> Q] : Recurs(g, size, <<>>, step)
  BY <1>0, <1>1, <1>2, StepsExist
<1> DEFINE F(f) == [m \in 0 .. Len(s) |-> IF m = 0 THEN <<>>
                      ELSE IF s[m] \in S THEN Append(f[m - 1], s[m]) ELSE f[m - 1]]
<1>4. g = F(g)
  <2>1. ASSUME NEW m \in 0 .. size, m # 0
        PROVE g[m] = IF s[m] \in S THEN Append(g[m - 1], s[m]) ELSE g[m - 1]
    <3>0. m \in 1 .. size /\ m - 1 \in 0 .. size
      BY <1>0, <2>1
    <3>1. m \in 1 .. size /\ g[m - 1] \in Q
      BY <1>3, <3>0
    <3>2. g[m] = step[m][g[m - 1]]
      BY <1>3, <3>1 DEF Recurs
    <3> QED BY <3>1, <3>2
  <2>2. g[0] = <<>>
    BY <1>3 DEF Recurs
  <2>3. g = [m \in 0 .. size |-> g[m]]
    OBVIOUS
  <2> QED BY <2>1, <2>2, <2>3
<1>5. PICK f : f = CHOOSE h : h = F(h)
  OBVIOUS
<1>6. f = F(f)
  BY <1>4, <1>5
<1>7. Those(s, S) = f[size]
  BY <1>5 DEF Those
<1>8. /\ f[0] = <<>>
      /\ \A m \in 1 .. size : f[m] = IF s[m] \in S THEN Append(f[m - 1], s[m]) ELSE f[m - 1]
  <2>1. \A m \in 0 .. size : f[m] = IF m = 0 THEN <<>>
                      ELSE IF s[m] \in S THEN Append(f[m - 1], s[m]) ELSE f[m - 1]
    BY <1>6
  <2>2. 0 \in 0 .. size /\ \A m \in 1 .. size : m \in 0 .. size /\ m # 0
    BY <1>0
  <2> HIDE DEF F
  <2> QED BY <2>1, <2>2, Zenon
<1>9. DOMAIN f = 0 .. size
  BY <1>6
<1> HIDE DEF F
<1> DEFINE Bad == {m \in 0 .. size : f[m] \notin Q}
<1>10. Bad = {}
  <2> SUFFICES ASSUME Bad # {} PROVE FALSE
    OBVIOUS
  <2>1. PICK m \in Bad : \A k \in Bad : m <= k
    <3>1. Bad \in SUBSET Nat
      OBVIOUS
    <3> HIDE DEF Bad
    <3> QED BY <3>1, Least
  <2>2. m \in 0 .. size /\ m # 0
    BY <1>2, <1>8, <2>1
  <2>3. m \in 1 .. size /\ m - 1 \in 0 .. size /\ f[m - 1] \in Q
    BY <1>0, <2>1, <2>2
  <2>4. f[m] \in Q
    <3> PICK q, e : q = f[m - 1] /\ e = s[m]
      OBVIOUS
    <3>1. q \in Seq(LayerExperts) /\ e \in LayerExperts
      BY <1>0, <2>3
    <3>2. Append(q, e) \in Q
      BY <3>1
    <3>3. f[m] = Append(q, e) \/ f[m] = q
      BY <1>8, <2>3, Zenon
    <3> QED BY <2>3, <3>2, <3>3
  <2> QED BY <2>1, <2>4
<1>11. f \in [0 .. size -> Q]
  <2>1. f = [m \in 0 .. size |-> f[m]]
    BY <1>6 DEF F
  <2>2. \A m \in 0 .. size : f[m] \in Q
    BY <1>10
  <2> QED BY <2>1, <2>2
<1> QED BY <1>7, <1>8, <1>11 DEF Kept

LEMMA AppendSeq ==
  ASSUME NEW S, NEW q \in Seq(S), NEW e \in S
  PROVE  /\ Append(q, e) \in Seq(S) /\ Len(Append(q, e)) = Len(q) + 1
         /\ \A i \in 1 .. Len(q) : Append(q, e)[i] = q[i]
         /\ Append(q, e)[Len(q) + 1] = e
OBVIOUS

LEMMA AppendToSet ==
  ASSUME NEW S, NEW q \in Seq(S), NEW e \in S
  PROVE  ToSet(Append(q, e)) = ToSet(q) \cup {e}
<1> PICK size, u : size = Len(q) /\ u = Append(q, e)
  OBVIOUS
<1>1. size \in Nat /\ DOMAIN q = 1 .. size /\ DOMAIN u = 1 .. size + 1
  OBVIOUS
<1>2. (\A i \in 1 .. size : u[i] = q[i]) /\ u[size + 1] = e
  BY AppendSeq
<1>3. 1 .. size + 1 = (1 .. size) \cup {size + 1}
  BY <1>1
<1>4. ToSet(q) = {q[i] : i \in 1 .. size} /\ ToSet(u) = {u[i] : i \in 1 .. size + 1}
  BY <1>1 DEF ToSet
<1> QED BY <1>2, <1>3, <1>4

LEMMA ThoseList ==
  ASSUME NEW s \in Seq(LayerExperts), NEW S
  PROVE  Those(s, S) \in Seq(LayerExperts) /\ ToSet(Those(s, S)) = ToSet(s) \cap S
<1> PICK size : size = Len(s)
  OBVIOUS
<1>1. PICK f : Kept(s, S, f) /\ Those(s, S) = f[size]
  BY ThoseLoop
<1>2. /\ size \in Nat /\ f[0] = <<>> /\ \A m \in 0 .. size : f[m] \in Seq(LayerExperts)
      /\ \A m \in 1 .. size : f[m] = IF s[m] \in S THEN Append(f[m - 1], s[m]) ELSE f[m - 1]
  BY <1>1 DEF Kept
<1> DEFINE Good(m) == ToSet(f[m]) = {s[i] : i \in 1 .. m} \cap S
           Bad == {m \in 0 .. size : ~Good(m)}
<1>3. Bad = {}
  <2> SUFFICES ASSUME Bad # {} PROVE FALSE
    OBVIOUS
  <2>1. PICK m \in Bad : \A k \in Bad : m <= k
    <3>1. Bad \in SUBSET Nat
      OBVIOUS
    <3> HIDE DEF Bad
    <3> QED BY <3>1, Least
  <2>2. m # 0
    <3>1. Good(0)
      BY <1>2 DEF ToSet
    <3> QED BY <2>1, <3>1
  <2>3. m \in 1 .. size /\ m - 1 \in 0 .. size /\ ~(m <= m - 1) /\ m \in Nat
    <3>1. m \in 0 .. size
      BY <2>1
    <3> QED BY <1>2, <2>2, <3>1
  <2>4. Good(m - 1)
    <3> HIDE DEF Good
    <3> QED BY <2>1, <2>3
  <2> PICK q, e, A, B : q = f[m - 1] /\ e = s[m] /\ A = {s[i] : i \in 1 .. m - 1} /\ B = {s[i] : i \in 1 .. m}
    OBVIOUS
  <2>5. B = A \cup {e} /\ e \in LayerExperts /\ q \in Seq(LayerExperts)
    <3>1. 1 .. m = (1 .. m - 1) \cup {m}
      BY <2>3
    <3> QED BY <1>2, <2>3, <3>1
  <2>6. ToSet(f[m]) = B \cap S
    <3>1. CASE e \in S
      <4>1. f[m] = Append(q, e)
        BY <1>2, <2>3, <3>1
      <4>2. ToSet(f[m]) = ToSet(q) \cup {e}
        BY <2>5, <4>1, AppendToSet
      <4> QED BY <2>4, <2>5, <3>1, <4>2
    <3>2. CASE e \notin S
      <4>1. f[m] = q
        BY <1>2, <2>3, <3>2
      <4> QED BY <2>4, <2>5, <3>2, <4>1
    <3> QED BY <3>1, <3>2
  <2> QED BY <2>1, <2>6
<1>4. Good(size) /\ f[size] \in Seq(LayerExperts)
  <2>1. size \in 0 .. size
    BY <1>2
  <2> HIDE DEF Good
  <2> QED BY <1>2, <1>3, <2>1
<1>5. ToSet(s) = {s[i] : i \in 1 .. size}
  BY DEF ToSet
<1> QED BY <1>1, <1>4, <1>5

LEMMA ThoseCount ==
  ASSUME NEW s \in Seq(LayerExperts), NEW S
  PROVE  Len(Those(s, S)) + Len(Those(s, LayerExperts \ S)) = Len(s)
<1> PICK size : size = Len(s)
  OBVIOUS
<1>1. PICK f : Kept(s, S, f) /\ Those(s, S) = f[size]
  BY ThoseLoop
<1>2. PICK g : Kept(s, LayerExperts \ S, g) /\ Those(s, LayerExperts \ S) = g[size]
  BY ThoseLoop
<1>3. /\ size \in Nat /\ f[0] = <<>> /\ g[0] = <<>>
      /\ \A m \in 0 .. size : f[m] \in Seq(LayerExperts) /\ g[m] \in Seq(LayerExperts)
      /\ \A m \in 1 .. size : s[m] \in LayerExperts
      /\ \A m \in 1 .. size : f[m] = IF s[m] \in S THEN Append(f[m - 1], s[m]) ELSE f[m - 1]
      /\ \A m \in 1 .. size : g[m] = IF s[m] \in LayerExperts \ S THEN Append(g[m - 1], s[m]) ELSE g[m - 1]
  <2>1. size \in Nat /\ \A m \in 1 .. size : s[m] \in LayerExperts
    OBVIOUS
  <2>2. f \in [0 .. size -> Seq(LayerExperts)] /\ g \in [0 .. size -> Seq(LayerExperts)]
    BY <1>1, <1>2 DEF Kept
  <2> QED BY <1>1, <1>2, <2>1, <2>2, Zenon DEF Kept
<1> DEFINE Good(m) == Len(f[m]) + Len(g[m]) = m
           Bad == {m \in 0 .. size : ~Good(m)}
<1>4. Bad = {}
  <2> SUFFICES ASSUME Bad # {} PROVE FALSE
    OBVIOUS
  <2>1. PICK m \in Bad : \A k \in Bad : m <= k
    <3> HIDE DEF Good
    <3>1. Bad \in SUBSET Nat
      OBVIOUS
    <3> HIDE DEF Bad
    <3> QED BY <3>1, Least
  <2>2. m # 0
    <3>1. Good(0)
      BY <1>3
    <3> QED BY <2>1, <3>1
  <2>3. m \in 1 .. size /\ m - 1 \in 0 .. size /\ ~(m <= m - 1) /\ m \in Nat
    <3>1. m \in 0 .. size
      BY <2>1
    <3> QED BY <1>3, <2>2, <3>1
  <2>4. Good(m - 1)
    <3> HIDE DEF Good
    <3> QED BY <2>1, <2>3
  <2> PICK q, r, e : q = f[m - 1] /\ r = g[m - 1] /\ e = s[m]
    OBVIOUS
  <2>5. e \in LayerExperts /\ q \in Seq(LayerExperts) /\ r \in Seq(LayerExperts)
    BY <1>3, <2>3
  <2>6. \/ f[m] = Append(q, e) /\ g[m] = r
        \/ f[m] = q /\ g[m] = Append(r, e)
    BY <1>3, <2>3, <2>5
  <2>7. Len(f[m]) + Len(g[m]) = m
    <3>1. Len(q) \in Nat /\ Len(r) \in Nat /\ Len(Append(q, e)) = Len(q) + 1 /\ Len(Append(r, e)) = Len(r) + 1
      BY <2>5
    <3>2. Len(q) + Len(r) = m - 1
      BY <2>4
    <3>3. PICK a, b, x, y : a = Len(q) /\ b = Len(r) /\ x = Len(f[m]) /\ y = Len(g[m])
      OBVIOUS
    <3>4. (x = a + 1 /\ y = b) \/ (x = a /\ y = b + 1)
      BY <2>6, <3>1, <3>3, Zenon
    <3>5. a \in Nat /\ b \in Nat /\ a + b = m - 1 /\ m \in Nat
      BY <2>3, <3>1, <3>2, <3>3
    <3>6. x + y = m
      BY <3>4, <3>5
    <3> QED BY <3>3, <3>6, Zenon
  <2> QED BY <2>1, <2>7
<1>5. Good(size)
  <2>1. size \in 0 .. size
    BY <1>3
  <2> HIDE DEF Good
  <2> QED BY <1>4, <2>1
<1> QED BY <1>1, <1>2, <1>5

-----------------------------------------------------------------------------
(* The invariant *)

(* What get_expert_place returns: each expert selected is in one list. *)
PlacedOnce ==
  /\ expert_ids \in Seq(LayerExperts) /\ load_experts \in Seq(LayerExperts) /\ unload_experts \in Seq(LayerExperts)
  /\ Len(load_experts) + Len(unload_experts) = Len(expert_ids)
  /\ ToSet(load_experts) \cup ToSet(unload_experts) = ToSet(expert_ids)
  /\ ToSet(load_experts) \cap ToSet(unload_experts) = {}

(* The GPU has the first of all experts, the CPU the last ones, in turn.   *)
Divided(all) ==
  /\ cpu_queue \in Seq(LayerExperts) /\ gpu_queue \in Seq(LayerExperts) /\ sorted_experts \in Seq(LayerExperts)
  /\ Len(gpu_queue) + Len(sorted_experts) + Len(cpu_queue) = Len(all)
  /\ \A k \in 1 .. Len(gpu_queue) : gpu_queue[k] = all[k]
  /\ \A k \in 1 .. Len(sorted_experts) : sorted_experts[k] = all[Len(gpu_queue) + k]
  /\ \A k \in 1 .. Len(cpu_queue) : cpu_queue[k] = all[Len(all) + 1 - k]

(* What the first a experts take on the GPU, h of them hits: the k-th miss *)
(* had to wait for its weights, and those after it did not.                *)
TakesOnGpu(h, a, t) ==
  IF a <= h THEN t = a * GpuCost
  ELSE \E k \in 1 .. a - h :
         t = MaxOf(h * GpuCost, k * MoveCost) + (a - h - k + 1) * GpuCost

(* The times are those of the queues; what the GPU was given was not later *)
(* there than on the CPU, and the other way round.                         *)
Timed(h, a, c) ==
  /\ TakesOnGpu(h, a, gpu_total_time)
  /\ move_total_time = IF a <= h THEN 0 ELSE (a - h) * MoveCost
  /\ cpu_total_time = IF c = 0 THEN 0 ELSE CpuIntercept + c * CpuCost
  /\ a > 0 => gpu_total_time <= CpuIntercept + (c + 1) * CpuCost
  /\ c > 0 => cpu_total_time <= AllGpu

HssInv ==
  /\ PlacedOnce
  /\ Divided(AllExperts)
  /\ Timed(Len(load_experts), Len(gpu_queue), Len(cpu_queue))

LEMMA Concatenated ==
  ASSUME NEW S, NEW s \in Seq(S), NEW t \in Seq(S)
  PROVE  /\ s \o t \in Seq(S) /\ Len(s \o t) = Len(s) + Len(t)
         /\ \A k \in 1 .. Len(s) : (s \o t)[k] = s[k]
         /\ \A k \in 1 .. Len(t) : (s \o t)[Len(s) + k] = t[k]
         /\ ToSet(s \o t) = ToSet(s) \cup ToSet(t)
<1> PICK m, size, u : m = Len(s) /\ size = Len(t) /\ u = s \o t
  OBVIOUS
<1>1. /\ u \in Seq(S) /\ Len(u) = m + size /\ m \in Nat /\ size \in Nat
      /\ \A k \in 1 .. m : u[k] = s[k]
      /\ \A k \in 1 .. size : u[m + k] = t[k]
  OBVIOUS
<1>2. \A k \in 1 .. m + size : k \in 1 .. m \/ (k - m \in 1 .. size /\ k = m + (k - m))
  BY <1>1
<1>3. (\A k \in 1 .. m : k \in 1 .. m + size) /\ (\A k \in 1 .. size : m + k \in 1 .. m + size)
  BY <1>1
<1>4. /\ ToSet(s) = {s[k] : k \in 1 .. m} /\ ToSet(t) = {t[k] : k \in 1 .. size}
      /\ ToSet(u) = {u[k] : k \in 1 .. m + size}
  <2>1. DOMAIN s = 1 .. m /\ DOMAIN t = 1 .. size
    OBVIOUS
  <2>2. DOMAIN u = 1 .. m + size
    BY <1>1
  <2> QED BY <2>1, <2>2, Zenon DEF ToSet
<1>5. ToSet(u) \subseteq ToSet(s) \cup ToSet(t)
  <2> SUFFICES ASSUME NEW k \in 1 .. m + size PROVE u[k] \in ToSet(s) \cup ToSet(t)
    BY <1>4
  <2>1. CASE k \in 1 .. m
    BY <1>1, <1>4, <2>1
  <2>2. CASE k - m \in 1 .. size /\ k = m + (k - m)
    <3> PICK j : j = k - m
      OBVIOUS
    <3>1. j \in 1 .. size /\ u[k] = t[j]
      BY <1>1, <2>2
    <3> QED BY <1>4, <3>1
  <2> QED BY <1>2, <2>1, <2>2
<1>6. ToSet(s) \subseteq ToSet(u) /\ ToSet(t) \subseteq ToSet(u)
  <2>1. ASSUME NEW k \in 1 .. m PROVE s[k] \in ToSet(u)
    BY <1>1, <1>3, <1>4
  <2>2. ASSUME NEW k \in 1 .. size PROVE t[k] \in ToSet(u)
    BY <1>1, <1>3, <1>4
  <2> QED BY <1>4, <2>1, <2>2
<1> QED BY <1>1, <1>5, <1>6

LEMMA AllInOrder ==
  ASSUME PlacedOnce
  PROVE  /\ AllExperts \in Seq(LayerExperts) /\ Len(AllExperts) = Len(expert_ids)
         /\ \A k \in 1 .. Len(load_experts) : AllExperts[k] = load_experts[k]
         /\ \A k \in 1 .. Len(unload_experts) :
              AllExperts[Len(load_experts) + k] = unload_experts[k]
         /\ ToSet(AllExperts) = ToSet(expert_ids)
<1> PICK s, t : s = load_experts /\ t = unload_experts
  OBVIOUS
<1>1. /\ s \in Seq(LayerExperts) /\ t \in Seq(LayerExperts) /\ Len(s) + Len(t) = Len(expert_ids)
      /\ ToSet(s) \cup ToSet(t) = ToSet(expert_ids)
  BY DEF PlacedOnce
<1>2. /\ s \o t \in Seq(LayerExperts) /\ Len(s \o t) = Len(s) + Len(t)
      /\ \A k \in 1 .. Len(s) : (s \o t)[k] = s[k]
      /\ \A k \in 1 .. Len(t) : (s \o t)[Len(s) + k] = t[k]
      /\ ToSet(s \o t) = ToSet(s) \cup ToSet(t)
  BY <1>1, Concatenated
<1> QED BY <1>1, <1>2, Zenon DEF AllExperts

LEMMA InitPlaced == HssInit => HssInv
<1> SUFFICES ASSUME HssInit PROVE HssInv
  OBVIOUS
<1>1. PICK k \in 1 .. MaxTopK : expert_ids \in Selections(k)
  BY DEF HssInit
<1>2. expert_ids \in [1 .. k -> LayerExperts] /\ k \in Nat
  BY <1>1, HybridScheduleAssumption DEF Selections, Injection
<1>3. expert_ids \in Seq(LayerExperts)
  BY <1>2
<1>4. PICK S \in SUBSET LayerExperts :
        load_experts = Those(expert_ids, S) /\ unload_experts = Those(expert_ids, LayerExperts \ S)
  BY DEF HssInit
<1>5. /\ load_experts \in Seq(LayerExperts) /\ unload_experts \in Seq(LayerExperts)
      /\ ToSet(load_experts) = ToSet(expert_ids) \cap S
      /\ ToSet(unload_experts) = ToSet(expert_ids) \cap (LayerExperts \ S)
  BY <1>3, <1>4, ThoseList
<1>6. Len(load_experts) + Len(unload_experts) = Len(expert_ids)
  BY <1>3, <1>4, ThoseCount
<1>7. ToSet(expert_ids) \subseteq LayerExperts
  BY <1>3 DEF ToSet
<1>8. PlacedOnce
  BY <1>3, <1>5, <1>6, <1>7 DEF PlacedOnce
<1>9. AllExperts \in Seq(LayerExperts)
  BY <1>8, AllInOrder
<1>10. Divided(AllExperts)
  <2>1. sorted_experts = AllExperts /\ cpu_queue = <<>> /\ gpu_queue = <<>>
    BY DEF HssInit
  <2> PICK all : all = AllExperts
    OBVIOUS
  <2>2. sorted_experts = all /\ all \in Seq(LayerExperts) /\ Len(cpu_queue) = 0 /\ Len(gpu_queue) = 0
    BY <1>9, <2>1
  <2>3. 0 + Len(all) + 0 = Len(all) /\ \A size \in 1 .. Len(all) : 0 + size = size
    BY <2>2
  <2>4. cpu_queue \in Seq(LayerExperts) /\ gpu_queue \in Seq(LayerExperts) /\ 1 .. 0 = {}
    BY <2>1
  <2>5. Divided(all)
    BY <2>2, <2>3, <2>4 DEF Divided
  <2> QED BY <2>5
<1>11. Timed(Len(load_experts), Len(gpu_queue), Len(cpu_queue))
  <2>1. PICK h \in Nat : h = Len(load_experts)
    BY <1>5
  <2>2. Len(gpu_queue) = 0 /\ Len(cpu_queue) = 0 /\ gpu_total_time = 0 /\ move_total_time = 0 /\ cpu_total_time = 0
    BY DEF HssInit
  <2>3. TakesOnGpu(h, 0, 0)
    BY DEF TakesOnGpu, GpuCost
  <2>4. Timed(h, 0, 0)
    BY <2>2, <2>3 DEF Timed
  <2> QED BY <2>1, <2>2, <2>4
<1> QED BY <1>8, <1>10, <1>11 DEF HssInv

-----------------------------------------------------------------------------
(* The times *)

LEMMA OneMoreOnGpu ==
  ASSUME NEW h \in Nat, NEW a \in Nat, NEW t \in Nat, TakesOnGpu(h, a, t),
         NEW v, v = IF a <= h THEN 0 ELSE (a - h) * MoveCost
  PROVE  TakesOnGpu(h, a + 1, t + GpuCost + IF a >= h THEN MaxOf(0, v + MoveCost - t) ELSE 0)
<1>1. CASE a < h
  BY <1>1 DEF TakesOnGpu, GpuCost
<1>2. CASE a = h
  <2>1. t = h * GpuCost /\ v = 0
    BY <1>2 DEF TakesOnGpu
  <2>2. 1 \in 1 .. (a + 1) - h
    BY <1>2
  <2>3. t + GpuCost + MaxOf(0, v + MoveCost - t) = MaxOf(h * GpuCost, 1 * MoveCost) + ((a + 1) - h - 1 + 1) * GpuCost
    BY <1>2, <2>1 DEF MaxOf, GpuCost, MoveCost
  <2>4. ~(a + 1 <= h) /\ a >= h
    BY <1>2
  <2> QED BY <2>2, <2>3, <2>4 DEF TakesOnGpu
<1>3. CASE a > h
  <2>1. PICK k \in 1 .. a - h : t = MaxOf(h * GpuCost, k * MoveCost) + (a - h - k + 1) * GpuCost
    BY <1>3 DEF TakesOnGpu
  <2>2. v = (a - h) * MoveCost /\ v + MoveCost = ((a + 1) - h) * MoveCost
    BY <1>3 DEF MoveCost
  <2>3. ~(a + 1 <= h) /\ a >= h /\ k \in 1 .. (a + 1) - h /\ (a + 1) - h \in 1 .. (a + 1) - h
    BY <1>3
  <2>4. CASE v + MoveCost <= t
    <3>1. MaxOf(0, v + MoveCost - t) = 0
      BY <2>2, <2>4, <1>3 DEF MaxOf, MoveCost
    <3>2. t + GpuCost + 0 = MaxOf(h * GpuCost, k * MoveCost) + ((a + 1) - h - k + 1) * GpuCost
      BY <1>3, <2>1 DEF MaxOf, GpuCost, MoveCost
    <3> QED BY <2>3, <3>1, <3>2 DEF TakesOnGpu
  <2>5. CASE ~(v + MoveCost <= t)
    <3>1. t >= h * GpuCost
      BY <1>3, <2>1 DEF MaxOf, GpuCost, MoveCost
    <3>2. MaxOf(0, v + MoveCost - t) = v + MoveCost - t
      BY <2>2, <2>5, <1>3 DEF MaxOf, MoveCost
    <3>3. t + GpuCost + (v + MoveCost - t) = ((a + 1) - h) * MoveCost + GpuCost
      BY <1>3, <2>2 DEF GpuCost, MoveCost
    <3>4. MaxOf(h * GpuCost, ((a + 1) - h) * MoveCost) = ((a + 1) - h) * MoveCost
      BY <1>3, <2>2, <2>5, <3>1 DEF MaxOf, GpuCost, MoveCost
    <3>5. ((a + 1) - h - ((a + 1) - h) + 1) * GpuCost = GpuCost
      BY <1>3 DEF GpuCost
    <3> QED BY <2>3, <3>2, <3>3, <3>4, <3>5 DEF TakesOnGpu
  <2> QED BY <2>4, <2>5
<1> QED BY <1>1, <1>2, <1>3

(* No way to fill the GPU is slower than leaving everything to it. *)
LEMMA NoLaterThanAll ==
  ASSUME PlacedOnce, NEW a \in 0 .. Len(expert_ids), NEW t, TakesOnGpu(Len(load_experts), a, t)
  PROVE  t \in Nat /\ AllGpu \in Nat /\ t <= AllGpu
<1>1. PICK h, m : h = Len(load_experts) /\ m = Len(unload_experts)
  OBVIOUS
<1>2. h \in Nat /\ m \in Nat /\ a \in Nat /\ a <= h + m
  BY <1>1 DEF PlacedOnce
<1>3. PICK ends : ends = {MaxOf(h * GpuCost, k * MoveCost) + (m - k + 1) * GpuCost : k \in 1 .. m}
  OBVIOUS
<1>4. AllGpu = IF m = 0 THEN h * GpuCost ELSE CHOOSE u \in ends : \A w \in ends : w <= u
  BY <1>1, <1>3 DEF AllGpu
<1>5. TakesOnGpu(h, a, t)
  BY <1>1
<1>6. CASE m = 0
  BY <1>2, <1>4, <1>5, <1>6 DEF TakesOnGpu, GpuCost
<1>7. CASE m # 0
  <2>1. \A k \in 1 .. m : MaxOf(h * GpuCost, k * MoveCost) + (m - k + 1) * GpuCost \in Nat
    BY <1>2 DEF MaxOf, GpuCost, MoveCost
  <2>2. ends \in SUBSET Nat
    BY <1>3, <2>1
  <2>3. ends # {}
    <3>1. 1 \in 1 .. m
      BY <1>2, <1>7
    <3> QED BY <1>3, <3>1
  <2>4. IsFiniteSet(ends)
    <3> DEFINE op(k) == MaxOf(h * GpuCost, k * MoveCost) + (m - k + 1) * GpuCost
    <3>1. IsFiniteSet(1 .. m)
      BY <1>2, FS_Interval
    <3>2. PICK f : f = [k \in 1 .. m |-> op(k)]
      OBVIOUS
    <3>3. f \in Surjection(1 .. m, ends)
      BY <1>3, <3>2 DEF Surjection
    <3> QED BY <3>1, <3>3, FS_Surjection
  <2>5. \E u \in ends : \A w \in ends : w <= u
    BY <2>2, <2>3, <2>4, Greatest
  <2>6. AllGpu \in ends /\ \A w \in ends : w <= AllGpu
    BY <1>4, <1>7, <2>5
  <2>7. CASE a <= h
    <3>1. t = a * GpuCost
      BY <1>5, <2>7 DEF TakesOnGpu
    <3>2. PICK w : w = MaxOf(h * GpuCost, 1 * MoveCost) + (m - 1 + 1) * GpuCost
      OBVIOUS
    <3>3. w \in ends
      <4>1. 1 \in 1 .. m
        BY <1>2, <1>7
      <4> QED BY <1>3, <3>2, <4>1
    <3>4. t <= w /\ t \in Nat
      BY <1>2, <2>7, <3>1, <3>2 DEF MaxOf, GpuCost, MoveCost
    <3> QED BY <2>2, <2>6, <3>3, <3>4
  <2>8. CASE a > h
    <3>1. PICK k \in 1 .. a - h : t = MaxOf(h * GpuCost, k * MoveCost) + (a - h - k + 1) * GpuCost
      BY <1>2, <1>5, <2>8 DEF TakesOnGpu
    <3>2. PICK w : w = MaxOf(h * GpuCost, k * MoveCost) + (m - k + 1) * GpuCost
      OBVIOUS
    <3>3. k \in 1 .. m
      BY <1>2, <2>8
    <3>4. w \in ends
      BY <1>3, <3>2, <3>3
    <3>5. t <= w /\ t \in Nat
      BY <1>2, <2>8, <3>1, <3>2 DEF MaxOf, GpuCost, MoveCost
    <3> QED BY <2>2, <2>6, <3>4, <3>5
  <2> QED BY <1>2, <2>7, <2>8
<1> QED BY <1>6, <1>7

-----------------------------------------------------------------------------
(* The steps *)

LEMMA MissesFollowHits ==
  ASSUME PlacedOnce, Divided(AllExperts), sorted_experts # <<>>
  PROVE  IsMove <=> Len(gpu_queue) >= Len(load_experts)
<1> PICK a, h, m, all : /\ a = Len(gpu_queue) /\ h = Len(load_experts) /\ m = Len(unload_experts)
                        /\ all = AllExperts
  OBVIOUS
<1>1. /\ a \in Nat /\ h \in Nat /\ m \in Nat /\ Len(all) = h + m
      /\ Len(sorted_experts) \in Nat /\ Len(sorted_experts) >= 1 /\ Len(cpu_queue) \in Nat
      /\ a + Len(sorted_experts) + Len(cpu_queue) = Len(all)
  BY AllInOrder DEF PlacedOnce, Divided
<1>2. first_idx = all[a + 1]
  <2>1. sorted_experts[1] = all[a + 1]
    BY <1>1 DEF Divided
  <2>2. first_idx = sorted_experts[1]
    BY DEF first_idx, Divided
  <2> QED BY <2>1, <2>2
<1>3. CASE a < h
  <2>1. a + 1 \in 1 .. h
    BY <1>1, <1>3
  <2>2. all[a + 1] = load_experts[a + 1]
    BY <2>1, AllInOrder
  <2>3. load_experts[a + 1] \in ToSet(load_experts)
    BY <2>1 DEF ToSet, PlacedOnce
  <2>4. ~IsMove
    BY <1>2, <2>2, <2>3 DEF IsMove, PlacedOnce
  <2> QED BY <1>1, <1>3, <2>4
<1>4. CASE a >= h
  <2>1. PICK k : k = a + 1 - h
    OBVIOUS
  <2>2. k \in 1 .. m /\ h + k = a + 1
    BY <1>1, <1>4, <2>1
  <2>3. all[h + k] = unload_experts[k]
    BY <2>2, AllInOrder
  <2>4. unload_experts[k] \in ToSet(unload_experts)
    BY <2>2 DEF ToSet, PlacedOnce
  <2>5. IsMove
    BY <1>2, <2>2, <2>3, <2>4 DEF IsMove
  <2> QED BY <1>1, <1>4, <2>5
<1> QED BY <1>1, <1>3, <1>4

(* What the next expert would make of the time of the GPU. *)
LEMMA NextOnGpu ==
  ASSUME HssInv, sorted_experts # <<>>
  PROVE  /\ TakesOnGpu(Len(load_experts), Len(gpu_queue) + 1, gpu_total_time + GpuTime)
         /\ gpu_total_time + GpuTime \in Nat /\ AllGpu \in Nat
         /\ gpu_total_time + GpuTime <= AllGpu
<1> PICK h, a, t, v : /\ h = Len(load_experts) /\ a = Len(gpu_queue)
                      /\ t = gpu_total_time /\ v = move_total_time
  OBVIOUS
<1>1. /\ h \in Nat /\ a \in Nat /\ a + 1 <= Len(expert_ids) /\ Len(expert_ids) \in Nat
  <2>1. Len(sorted_experts) \in Nat /\ Len(sorted_experts) >= 1 /\ Len(cpu_queue) \in Nat
    BY DEF HssInv, Divided
  <2>2. a + Len(sorted_experts) + Len(cpu_queue) = Len(expert_ids)
    BY AllInOrder DEF HssInv, Divided
  <2>3. h \in Nat /\ a \in Nat /\ Len(expert_ids) \in Nat
    BY DEF HssInv, Divided, PlacedOnce
  <2> QED BY <2>1, <2>2, <2>3
<1>2. TakesOnGpu(h, a, t) /\ v = IF a <= h THEN 0 ELSE (a - h) * MoveCost
  BY DEF HssInv, Timed
<1>3. t \in Nat
  <2>1. a \in 0 .. Len(expert_ids)
    BY <1>1
  <2> QED BY <1>2, <2>1, NoLaterThanAll DEF HssInv
<1>4. t + GpuTime = t + GpuCost + IF a >= h THEN MaxOf(0, v + MoveCost - t) ELSE 0
  <2>1. IsMove <=> a >= h
    BY MissesFollowHits DEF HssInv
  <2>2. (IF a >= h THEN MaxOf(0, v + MoveCost - t) ELSE 0) \in Int
    BY <1>1, <1>2, <1>3 DEF MaxOf, MoveCost
  <2>3. GpuTime = GpuCost + IF a >= h THEN MaxOf(0, v + MoveCost - t) ELSE 0
    BY <2>1, Zenon DEF GpuTime
  <2> QED BY <1>3, <2>2, <2>3 DEF GpuCost
<1>5. TakesOnGpu(h, a + 1, t + GpuTime)
  <2>1. TakesOnGpu(h, a + 1, t + GpuCost + IF a >= h THEN MaxOf(0, v + MoveCost - t) ELSE 0)
    BY <1>1, <1>2, <1>3, OneMoreOnGpu
  <2> QED BY <1>4, <2>1
<1>6. a + 1 \in 0 .. Len(expert_ids)
  BY <1>1
<1>7. t + GpuTime \in Nat /\ AllGpu \in Nat /\ t + GpuTime <= AllGpu
  BY <1>5, <1>6, NoLaterThanAll DEF HssInv
<1> QED BY <1>5, <1>7

LEMMA SameInputs ==
  ASSUME UNCHANGED inputs, PlacedOnce
  PROVE  PlacedOnce' /\ AllExperts' = AllExperts /\ AllGpu' = AllGpu /\ Len(load_experts)' = Len(load_experts)
<1>1. expert_ids' = expert_ids /\ load_experts' = load_experts /\ unload_experts' = unload_experts
  BY DEF inputs
<1>2. PlacedOnce'
  BY <1>1 DEF PlacedOnce
<1>3. AllExperts' = AllExperts /\ Len(load_experts)' = Len(load_experts)
  BY <1>1 DEF AllExperts
<1>4. AllGpu' = AllGpu
  BY <1>1 DEF AllGpu, MaxOf, GpuCost, MoveCost
<1> QED BY <1>2, <1>3, <1>4

LEMMA TailSeq ==
  ASSUME NEW S, NEW s \in Seq(S), s # <<>>
  PROVE  /\ Tail(s) \in Seq(S) /\ Len(s) \in Nat \ {0} /\ Len(Tail(s)) = Len(s) - 1
         /\ \A i \in 1 .. Len(s) - 1 : Tail(s)[i] = s[i + 1]
         /\ Head(s) = s[1]
OBVIOUS

LEMMA FrontSeq ==
  ASSUME NEW S, NEW s \in Seq(S), s # <<>>
  PROVE  /\ Front(s) \in Seq(S) /\ Len(Front(s)) = Len(s) - 1
         /\ \A i \in 1 .. Len(s) - 1 : Front(s)[i] = s[i]
         /\ Last(s) = s[Len(s)] /\ Last(s) \in S
<1> PICK size : size = Len(s)
  OBVIOUS
<1>1. size \in Nat /\ size - 1 \in Nat /\ size \in 1 .. size
  OBVIOUS
<1>2. Front(s) = [i \in 1 .. size - 1 |-> s[i]]
  BY DEF Front
<1> QED BY <1>1, <1>2 DEF Last

LEMMA GpuTakesFirst ==
  ASSUME HssInv, ToGpu
  PROVE  HssInv'
<1> PICK q, s, c, all : q = gpu_queue /\ s = sorted_experts /\ c = cpu_queue /\ all = AllExperts
  OBVIOUS
<1>0. PICK a, size, b, N : a = Len(q) /\ size = Len(s) /\ b = Len(c) /\ N = Len(all)
  OBVIOUS
<1>1. /\ q \in Seq(LayerExperts) /\ s \in Seq(LayerExperts) /\ c \in Seq(LayerExperts) /\ s # <<>>
      /\ Len(q) + Len(s) + Len(c) = Len(all)
      /\ \A k \in 1 .. Len(q) : q[k] = all[k]
      /\ \A k \in 1 .. Len(s) : s[k] = all[Len(q) + k]
      /\ \A k \in 1 .. Len(c) : c[k] = all[Len(all) + 1 - k]
  BY DEF HssInv, Divided, ToGpu
<1>2. /\ gpu_queue' = Append(q, s[1]) /\ sorted_experts' = Tail(s) /\ cpu_queue' = c
      /\ UNCHANGED inputs /\ cpu_total_time' = cpu_total_time
      /\ gpu_total_time' = gpu_total_time + GpuTime
      /\ move_total_time' = move_total_time + IF IsMove THEN MoveCost ELSE 0
  BY <1>1, TailSeq DEF ToGpu, first_idx
<1>3. PlacedOnce' /\ AllExperts' = all /\ AllGpu' = AllGpu /\ Len(load_experts)' = Len(load_experts)
  BY <1>2, SameInputs DEF HssInv
<1>4. /\ Len(q) \in Nat /\ Len(s) \in Nat \ {0} /\ Len(c) \in Nat /\ s[1] \in LayerExperts
      /\ Len(gpu_queue)' = Len(q) + 1 /\ Len(sorted_experts)' = Len(s) - 1
  BY <1>1, <1>2
<1>5. Divided(all)'
  <2>1. gpu_queue' \in Seq(LayerExperts) /\ sorted_experts' \in Seq(LayerExperts) /\ cpu_queue' \in Seq(LayerExperts)
    BY <1>1, <1>2, <1>4
  <2>2. (Len(q) + 1) + (Len(s) - 1) + Len(c) = Len(all)
    <3>1. a \in Nat /\ size \in Nat /\ b \in Nat /\ a + size + b = N
      BY <1>0, <1>1, <1>4
    <3>2. (a + 1) + (size - 1) + b = N
      BY <3>1
    <3> QED BY <1>0, <3>2, Zenon
  <2>3. ASSUME NEW k \in 1 .. Len(q) + 1 PROVE Append(q, s[1])[k] = all[k]
    <3>1. CASE k \in 1 .. Len(q)
      BY <1>1, <1>4, <3>1
    <3>2. CASE k = Len(q) + 1
      <4>1. Append(q, s[1])[Len(q) + 1] = s[1]
        BY <1>1, <1>4
      <4>2. 1 \in 1 .. Len(s)
        BY <1>4
      <4> QED BY <1>1, <3>2, <4>1, <4>2
    <3> QED BY <1>4, <3>1, <3>2
  <2>4. ASSUME NEW k \in 1 .. Len(s) - 1 PROVE Tail(s)[k] = all[(Len(q) + 1) + k]
    <3>1. Tail(s)[k] = s[k + 1]
      BY <1>1
    <3>2. k + 1 \in 1 .. Len(s) /\ Len(q) + (k + 1) = (Len(q) + 1) + k
      BY <1>4
    <3> QED BY <1>1, <3>1, <3>2
  <2> QED BY <1>1, <1>2, <1>4, <2>1, <2>2, <2>3, <2>4 DEF Divided
<1>6. Timed(Len(load_experts), Len(gpu_queue), Len(cpu_queue))'
  <2>1. PICK h, t, v : h = Len(load_experts) /\ t = gpu_total_time /\ v = move_total_time
    OBVIOUS
  <2>2. /\ TakesOnGpu(h, a + 1, t + GpuTime)
        /\ t + GpuTime \in Nat
    BY <1>0, <1>1, <2>1, NextOnGpu
  <2>3. /\ h \in Nat /\ a \in Nat /\ b \in Nat
        /\ v = IF a <= h THEN 0 ELSE (a - h) * MoveCost
        /\ cpu_total_time = IF b = 0 THEN 0 ELSE CpuIntercept + b * CpuCost
        /\ b > 0 => cpu_total_time <= AllGpu
    BY <1>0, <1>1, <2>1 DEF HssInv, Timed, PlacedOnce
  <2>4. IsMove <=> a >= h
    BY <1>0, <1>1, <2>1, MissesFollowHits DEF HssInv
  <2>5. v + (IF IsMove THEN MoveCost ELSE 0) = IF a + 1 <= h THEN 0 ELSE ((a + 1) - h) * MoveCost
    <3>1. CASE a < h
      <4>1. ~IsMove /\ v = 0 /\ a + 1 <= h
        BY <2>3, <2>4, <3>1
      <4> QED BY <4>1
    <3>2. CASE a >= h
      <4>1. IsMove /\ v = (a - h) * MoveCost /\ ~(a + 1 <= h)
        BY <2>3, <2>4, <3>2 DEF MoveCost
      <4>2. v + MoveCost = ((a + 1) - h) * MoveCost
        BY <2>3, <4>1 DEF MoveCost
      <4> QED BY <4>1, <4>2
    <3> QED BY <2>3, <3>1, <3>2
  <2>6. t + GpuTime <= CpuIntercept + (b + 1) * CpuCost
    <3>1. t + GpuTime <= cpu_total_time + CpuTime
      BY <2>1 DEF ToGpu, GpuIsEarlier
    <3>2. CpuTime = CpuCost + IF b = 0 THEN CpuIntercept ELSE 0
      BY <1>0, <1>1 DEF CpuTime
    <3>3. cpu_total_time + CpuTime = CpuIntercept + (b + 1) * CpuCost
      BY <2>3, <3>2 DEF CpuCost, CpuIntercept
    <3> QED BY <3>1, <3>3
  <2>7. /\ Len(load_experts)' = h /\ Len(gpu_queue)' = a + 1 /\ Len(cpu_queue)' = b
        /\ gpu_total_time' = t + GpuTime /\ AllGpu' = AllGpu /\ cpu_total_time' = cpu_total_time
        /\ move_total_time' = v + IF IsMove THEN MoveCost ELSE 0
    BY <1>0, <1>2, <1>3, <1>4, <2>1
  <2> QED BY <2>2, <2>3, <2>5, <2>6, <2>7 DEF Timed, TakesOnGpu
<1> QED BY <1>3, <1>5, <1>6 DEF HssInv, Divided

LEMMA CpuTakesLast ==
  ASSUME HssInv, ToCpu
  PROVE  HssInv'
<1> PICK q, s, c, all : q = gpu_queue /\ s = sorted_experts /\ c = cpu_queue /\ all = AllExperts
  OBVIOUS
<1>0. PICK a, size, b, N : a = Len(q) /\ size = Len(s) /\ b = Len(c) /\ N = Len(all)
  OBVIOUS
<1>1. /\ q \in Seq(LayerExperts) /\ s \in Seq(LayerExperts) /\ c \in Seq(LayerExperts) /\ s # <<>>
      /\ Len(q) + Len(s) + Len(c) = Len(all)
      /\ \A k \in 1 .. Len(q) : q[k] = all[k]
      /\ \A k \in 1 .. Len(s) : s[k] = all[Len(q) + k]
      /\ \A k \in 1 .. Len(c) : c[k] = all[Len(all) + 1 - k]
  BY DEF HssInv, Divided, ToCpu
<1>2. PICK e : e = Last(s)
  OBVIOUS
<1>3. /\ gpu_queue' = q /\ sorted_experts' = Front(s) /\ cpu_queue' = Append(c, e)
      /\ UNCHANGED inputs /\ gpu_total_time' = gpu_total_time /\ move_total_time' = move_total_time
      /\ cpu_total_time' = cpu_total_time + CpuTime
  BY <1>2 DEF ToCpu, last_idx, PopLast
<1>4. PlacedOnce' /\ AllExperts' = all /\ AllGpu' = AllGpu /\ Len(load_experts)' = Len(load_experts)
  BY <1>3, SameInputs DEF HssInv
<1>5. /\ Front(s) \in Seq(LayerExperts) /\ Len(Front(s)) = Len(s) - 1
      /\ \A i \in 1 .. Len(s) - 1 : Front(s)[i] = s[i]
      /\ e = s[Len(s)] /\ e \in LayerExperts
  BY <1>1, <1>2, FrontSeq
<1>6. /\ Append(c, e) \in Seq(LayerExperts) /\ Len(Append(c, e)) = Len(c) + 1
      /\ \A i \in 1 .. Len(c) : Append(c, e)[i] = c[i]
      /\ Append(c, e)[Len(c) + 1] = e
  BY <1>1, <1>5, AppendSeq
<1>7. /\ a \in Nat /\ size \in Nat \ {0} /\ b \in Nat /\ a + size + b = N
  BY <1>0, <1>1
<1>8. Divided(all)'
  <2>1. a + (size - 1) + (b + 1) = N
    BY <1>7
  <2>2. ASSUME NEW k \in 1 .. size - 1 PROVE Front(s)[k] = all[a + k]
    <3>1. Front(s)[k] = s[k] /\ k \in 1 .. size
      BY <1>0, <1>5, <1>7
    <3> QED BY <1>0, <1>1, <3>1
  <2>3. ASSUME NEW k \in 1 .. b + 1 PROVE Append(c, e)[k] = all[N + 1 - k]
    <3>1. CASE k \in 1 .. b
      BY <1>0, <1>1, <1>6, <3>1
    <3>2. CASE k = b + 1
      <4>1. Append(c, e)[k] = s[size]
        BY <1>0, <1>5, <1>6, <3>2
      <4>2. size \in 1 .. size /\ a + size = N + 1 - k
        BY <1>7, <3>2
      <4>3. s[size] = all[a + size]
        BY <1>0, <1>1, <4>2
      <4> QED BY <4>1, <4>2, <4>3
    <3>3. k \in 1 .. b \/ k = b + 1
      BY <1>7
    <3> QED BY <3>1, <3>2, <3>3
  <2>4. \A k \in 1 .. a : q[k] = all[k]
    BY <1>0, <1>1
  <2>5. /\ Len(q) = a /\ Len(Front(s)) = size - 1 /\ Len(Append(c, e)) = b + 1 /\ Len(all) = N
    BY <1>0, <1>5, <1>6
  <2>6. /\ Append(c, e) \in Seq(LayerExperts) /\ q \in Seq(LayerExperts) /\ Front(s) \in Seq(LayerExperts)
        /\ Len(q) + Len(Front(s)) + Len(Append(c, e)) = Len(all)
        /\ \A k \in 1 .. Len(q) : q[k] = all[k]
        /\ \A k \in 1 .. Len(Front(s)) : Front(s)[k] = all[Len(q) + k]
        /\ \A k \in 1 .. Len(Append(c, e)) : Append(c, e)[k] = all[Len(all) + 1 - k]
    <3>1. Append(c, e) \in Seq(LayerExperts) /\ q \in Seq(LayerExperts) /\ Front(s) \in Seq(LayerExperts)
      BY <1>1, <1>5, <1>6
    <3>2. Len(q) + Len(Front(s)) + Len(Append(c, e)) = Len(all)
      BY <2>1, <2>5, Zenon
    <3>3. \A k \in 1 .. Len(q) : q[k] = all[k]
      BY <1>1
    <3>4. \A k \in 1 .. Len(Front(s)) : Front(s)[k] = all[Len(q) + k]
      BY <2>2, <2>5, Zenon
    <3>5. \A k \in 1 .. Len(Append(c, e)) : Append(c, e)[k] = all[Len(all) + 1 - k]
      BY <2>3, <2>5, Zenon
    <3> QED BY <3>1, <3>2, <3>3, <3>4, <3>5, Zenon
  <2> QED BY <1>3, <2>6, Zenon DEF Divided
<1>9. Timed(Len(load_experts), Len(gpu_queue), Len(cpu_queue))'
  <2>1. PICK h, t, v, x : /\ h = Len(load_experts) /\ t = gpu_total_time /\ v = move_total_time
                          /\ x = cpu_total_time
    OBVIOUS
  <2>2. t + GpuTime \in Nat /\ AllGpu \in Nat /\ t + GpuTime <= AllGpu
    BY <1>1, <2>1, NextOnGpu
  <2>3. /\ h \in Nat /\ TakesOnGpu(h, a, t)
        /\ v = IF a <= h THEN 0 ELSE (a - h) * MoveCost
        /\ x = IF b = 0 THEN 0 ELSE CpuIntercept + b * CpuCost
        /\ a > 0 => t <= CpuIntercept + (b + 1) * CpuCost
    BY <1>0, <2>1 DEF HssInv, Timed, PlacedOnce
  <2>4. x + CpuTime = CpuIntercept + (b + 1) * CpuCost
    <3>1. CpuTime = CpuCost + IF b = 0 THEN CpuIntercept ELSE 0
      BY <1>0, <1>1 DEF CpuTime
    <3> QED BY <1>7, <2>3, <3>1 DEF CpuCost, CpuIntercept
  <2>5. x + CpuTime <= AllGpu
    <3>1. ~(t + GpuTime <= x + CpuTime)
      BY <2>1 DEF ToCpu, GpuIsEarlier
    <3>2. x + CpuTime \in Nat
      BY <1>7, <2>4 DEF CpuCost, CpuIntercept
    <3> QED BY <2>2, <3>1, <3>2
  <2>6. t \in Nat
    <3>1. Len(expert_ids) = N
      BY <1>0, AllInOrder DEF HssInv
    <3>2. a \in 0 .. Len(expert_ids)
      BY <1>7, <3>1
    <3> QED BY <2>1, <2>3, <3>2, NoLaterThanAll DEF HssInv
  <2>7. a > 0 => t <= CpuIntercept + ((b + 1) + 1) * CpuCost
    BY <1>7, <2>3, <2>6 DEF CpuIntercept, CpuCost
  <2>8. x + CpuTime = IF b + 1 = 0 THEN 0 ELSE CpuIntercept + (b + 1) * CpuCost
    BY <1>7, <2>4
  <2>9. /\ Len(load_experts)' = h /\ Len(gpu_queue)' = a /\ Len(cpu_queue)' = b + 1
        /\ gpu_total_time' = t /\ AllGpu' = AllGpu /\ cpu_total_time' = x + CpuTime
        /\ move_total_time' = v
    BY <1>0, <1>3, <1>4, <1>6, <2>1
  <2> QED BY <2>3, <2>5, <2>7, <2>8, <2>9 DEF Timed, TakesOnGpu
<1> QED BY <1>4, <1>8, <1>9 DEF HssInv, Divided

LEMMA HssInductive == HssSpec => []HssInv
<1>1. HssInv /\ [HssNext]_hssVars => HssInv'
  <2> SUFFICES ASSUME HssInv, [HssNext]_hssVars PROVE HssInv'
    OBVIOUS
  <2>1. CASE ToGpu
    BY <2>1, GpuTakesFirst
  <2>2. CASE ToCpu
    BY <2>2, CpuTakesLast
  <2>3. CASE UNCHANGED hssVars
    <3>1. /\ UNCHANGED inputs /\ cpu_queue' = cpu_queue /\ gpu_queue' = gpu_queue
          /\ sorted_experts' = sorted_experts /\ cpu_total_time' = cpu_total_time
          /\ gpu_total_time' = gpu_total_time /\ move_total_time' = move_total_time
      BY <2>3 DEF hssVars, queues, times
    <3>2. PlacedOnce' /\ AllExperts' = AllExperts /\ AllGpu' = AllGpu /\ Len(load_experts)' = Len(load_experts)
      BY <3>1, SameInputs DEF HssInv
    <3>3. Divided(AllExperts)'
      BY <3>1, <3>2 DEF HssInv, Divided
    <3>4. Timed(Len(load_experts), Len(gpu_queue), Len(cpu_queue))'
      BY <3>1, <3>2 DEF HssInv, Timed, TakesOnGpu
    <3> QED BY <3>2, <3>3, <3>4 DEF HssInv
  <2> QED BY <2>1, <2>2, <2>3 DEF HssNext
<1> QED BY InitPlaced, <1>1, PTL DEF HssSpec

-----------------------------------------------------------------------------
(* What follows *)

(* However HSS divides the experts of a token, each of those the router    *)
(* selected is computed once: the two queues and what is left to schedule  *)
(* are the experts selected, and no more.                                  *)
THEOREM ScheduledOnce == HssSpec => []EachOnce
<1>1. HssInv => EachOnce
  <2> SUFFICES ASSUME HssInv PROVE EachOnce
    OBVIOUS
  <2> PICK q, s, c, all : q = gpu_queue /\ s = sorted_experts /\ c = cpu_queue /\ all = AllExperts
    OBVIOUS
  <2>0. PICK a, size, b, N : a = Len(q) /\ size = Len(s) /\ b = Len(c) /\ N = Len(all)
    OBVIOUS
  <2>1. /\ q \in Seq(LayerExperts) /\ s \in Seq(LayerExperts) /\ c \in Seq(LayerExperts)
        /\ a + size + b = N
        /\ \A k \in 1 .. a : q[k] = all[k]
        /\ \A k \in 1 .. size : s[k] = all[a + k]
        /\ \A k \in 1 .. b : c[k] = all[N + 1 - k]
    BY <2>0 DEF HssInv, Divided
  <2>2. all \in Seq(LayerExperts) /\ N = Len(expert_ids) /\ ToSet(all) = ToSet(expert_ids)
    BY <2>0, AllInOrder DEF HssInv
  <2>3. a \in Nat /\ size \in Nat /\ b \in Nat /\ N \in Nat
    BY <2>0, <2>1, <2>2
  <2>4. PICK u : u = c \o q
    OBVIOUS
  <2>5. u \in Seq(LayerExperts) /\ Len(u) = b + a /\ ToSet(u) = ToSet(c) \cup ToSet(q)
    BY <2>0, <2>1, <2>4, Concatenated
  <2>6. PICK w : w = u \o s
    OBVIOUS
  <2>7. Len(w) = Len(u) + size /\ ToSet(w) = ToSet(u) \cup ToSet(s)
    <3>1. s \in Seq(LayerExperts) /\ u \in Seq(LayerExperts)
      BY <2>1, <2>5
    <3>2. Len(u \o s) = Len(u) + Len(s) /\ ToSet(u \o s) = ToSet(u) \cup ToSet(s)
      BY <3>1, Concatenated
    <3> QED BY <2>0, <2>6, <3>2, Zenon
  <2>8. Len(w) = N
    BY <2>1, <2>3, <2>5, <2>7
  <2>9. /\ ToSet(q) = {q[k] : k \in 1 .. a} /\ ToSet(s) = {s[k] : k \in 1 .. size}
        /\ ToSet(c) = {c[k] : k \in 1 .. b} /\ ToSet(all) = {all[k] : k \in 1 .. N}
    <3>1. DOMAIN q = 1 .. a /\ DOMAIN s = 1 .. size /\ DOMAIN c = 1 .. b /\ DOMAIN all = 1 .. N
      <4>1. DOMAIN q = 1 .. Len(q) /\ DOMAIN s = 1 .. Len(s)
        BY <2>1
      <4>2. DOMAIN c = 1 .. Len(c) /\ DOMAIN all = 1 .. Len(all)
        BY <2>1, <2>2
      <4> QED BY <2>0, <4>1, <4>2, Zenon
    <3> QED BY <3>1, Zenon DEF ToSet
  <2>10. ToSet(w) \subseteq ToSet(all)
    <3>1. /\ \A k \in 1 .. a : k \in 1 .. N
          /\ \A k \in 1 .. size : a + k \in 1 .. N
          /\ \A k \in 1 .. b : N + 1 - k \in 1 .. N
      BY <2>1, <2>3
    <3>2. ToSet(q) \subseteq ToSet(all) /\ ToSet(s) \subseteq ToSet(all) /\ ToSet(c) \subseteq ToSet(all)
      BY <2>1, <2>9, <3>1
    <3> QED BY <2>5, <2>7, <3>2
  <2>11. ToSet(all) \subseteq ToSet(w)
    <3> SUFFICES ASSUME NEW k \in 1 .. N PROVE all[k] \in ToSet(w)
      BY <2>9
    <3>1. CASE k <= a
      <4>1. k \in 1 .. a
        BY <2>3, <3>1
      <4> QED BY <2>1, <2>5, <2>7, <2>9, <4>1
    <3>2. CASE a < k /\ k <= a + size
      <4>1. PICK j : j = k - a
        OBVIOUS
      <4>2. j \in 1 .. size /\ a + j = k
        BY <2>3, <3>2, <4>1
      <4>3. s[j] = all[k] /\ s[j] \in ToSet(s)
        BY <2>1, <2>9, <4>2
      <4> QED BY <2>7, <4>3
    <3>3. CASE a + size < k
      <4>1. PICK j : j = N + 1 - k
        OBVIOUS
      <4>2. j \in 1 .. b /\ N + 1 - j = k
        BY <2>1, <2>3, <3>3, <4>1
      <4>3. c[j] = all[k] /\ c[j] \in ToSet(c)
        BY <2>1, <2>9, <4>2
      <4> QED BY <2>5, <2>7, <4>3
    <3> QED BY <2>3, <3>1, <3>2, <3>3
  <2>12. w = (cpu_queue \o gpu_queue) \o sorted_experts
    BY <2>4, <2>6
  <2> QED BY <2>2, <2>8, <2>10, <2>11, <2>12 DEF EachOnce
<1> QED BY <1>1, HssInductive, PTL

(* The balance HSS is for: when all experts are placed, the later of the   *)
(* two devices is done no later than the CPU alone would be, and no later  *)
(* than the GPU alone.                                                     *)
THEOREM BalanceHelps == HssSpec => []NeverSlowerThanOne
<1>1. HssInv => NeverSlowerThanOne
  <2> SUFFICES ASSUME HssInv, sorted_experts = <<>>
               PROVE  MaxOf(cpu_total_time, gpu_total_time) <= AllCpu
                      /\ MaxOf(cpu_total_time, gpu_total_time) <= AllGpu
    BY DEF NeverSlowerThanOne
  <2>1. PICK h, a, b, t, x, N : /\ h = Len(load_experts) /\ a = Len(gpu_queue) /\ b = Len(cpu_queue)
                                /\ t = gpu_total_time /\ x = cpu_total_time /\ N = Len(expert_ids)
    OBVIOUS
  <2>2. h \in Nat /\ a \in Nat /\ b \in Nat /\ N \in Nat /\ a + b = N
    <3>1. h \in Nat /\ a \in Nat /\ b \in Nat /\ N \in Nat
      BY <2>1 DEF HssInv, PlacedOnce, Divided
    <3>2. Len(AllExperts) = N /\ Len(sorted_experts) = 0
      BY <2>1, AllInOrder DEF HssInv
    <3>3. a + 0 + b = N
      BY <2>1, <3>2 DEF HssInv, Divided
    <3> QED BY <3>1, <3>3
  <2>3. /\ TakesOnGpu(h, a, t)
        /\ x = IF b = 0 THEN 0 ELSE CpuIntercept + b * CpuCost
        /\ a > 0 => t <= CpuIntercept + (b + 1) * CpuCost
        /\ b > 0 => x <= AllGpu
    BY <2>1 DEF HssInv, Timed
  <2>4. t \in Nat /\ AllGpu \in Nat /\ t <= AllGpu
    <3>1. a \in 0 .. Len(expert_ids)
      BY <2>1, <2>2
    <3> QED BY <2>1, <2>3, <3>1, NoLaterThanAll DEF HssInv
  <2>5. AllCpu = CpuIntercept + CpuCost * N
    BY <2>1 DEF AllCpu
  <2>6. x \in Nat /\ x <= AllGpu
    BY <2>2, <2>3, <2>4 DEF CpuIntercept, CpuCost
  <2>7. x <= AllCpu
    BY <2>2, <2>3, <2>5 DEF CpuIntercept, CpuCost
  <2>8. t <= AllCpu
    <3>1. CASE a = 0
      <4>1. t = 0
        BY <2>2, <2>3, <3>1 DEF TakesOnGpu, GpuCost
      <4> QED BY <2>2, <2>5, <4>1 DEF CpuIntercept, CpuCost
    <3>2. CASE a > 0
      BY <2>2, <2>3, <2>4, <2>5, <3>2 DEF CpuIntercept, CpuCost
    <3> QED BY <2>2, <3>1, <3>2
  <2> QED BY <2>1, <2>4, <2>6, <2>7, <2>8 DEF MaxOf
<1> QED BY <1>1, HssInductive, PTL
=============================================================================
