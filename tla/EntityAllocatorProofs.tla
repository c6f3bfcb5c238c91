------------------------- MODULE EntityAllocatorProofs -------------------------
(***************************************************************************)
(* The allocator's properties, for any number of slots and generations.    *)
(*                                                                         *)
(* The slot as it is now determines the whole past of its index: which     *)
(* generations have been handed out and which freed.  That, and a free     *)
(* list that is exactly the free slots, is inductive.                      *)
(***************************************************************************)
EXTENDS EntityAllocator, TLAPS, FiniteSetTheorems, SequenceTheorems

StateOf(e) == slots[e.index].state
Past(e) == e.generation < slots[e.index].generation
Present(e) == e.generation = slots[e.index].generation

HandedOut(e) == Past(e) \/ (Present(e) /\ StateOf(e) \in {"live", "retired"})
WasFreed(e) == Past(e) \/ (Present(e) /\ StateOf(e) = "retired")

History ==
    \A e \in Entities : /\ issued[e] = IF HandedOut(e) THEN 1 ELSE 0
                        /\ e \in freed <=> WasFreed(e)

SlotShape ==
    \A i \in Indices :
        /\ slots[i].state = "absent" <=> i >= nextIndex
        /\ slots[i].state = "absent" =>
              slots[i].generation = 0 /\ slots[i].lastFreed = None
        /\ slots[i].state = "live" => slots[i].lastFreed = None
        /\ slots[i].state = "free" => slots[i].lastFreed = slots[i].generation - 1
        /\ slots[i].state = "retired" => /\ slots[i].lastFreed = GenerationMax
                                         /\ slots[i].generation = GenerationMax

ListShape ==
    /\ \A k \in DOMAIN freeList : slots[freeList[k]].state = "free"
    /\ \A k, l \in DOMAIN freeList : freeList[k] = freeList[l] => k = l
    /\ \A i \in Indices :
          slots[i].state = "free" => \E k \in DOMAIN freeList : freeList[k] = i

Inductive == AllocatorTypeOK /\ History /\ SlotShape /\ ListShape

-----------------------------------------------------------------------------
(* What the verdict on a handle says of its slot.                          *)
LEMMA VerdictMeans ==
    ASSUME Inductive, NEW e \in Entities
    PROVE  /\ Verdict(e) = "ok" <=> StateOf(e) = "live" /\ Present(e)
           /\ Verdict(e) = "freed" <=>
                 /\ StateOf(e) \in {"free", "retired"}
                 /\ slots[e.index].lastFreed = e.generation
           /\ Verdict(e) \in {"ok", "freed", "stale", "unknown"}
           /\ Verdict(e) = "unknown" =>
                 \/ StateOf(e) = "absent"
                 \/ StateOf(e) = "free" /\ Present(e)
<1> USE DEF Inductive, AllocatorTypeOK, Slot, Entities, Indices, Generations, None
<1>1. e.index \in Indices /\ slots[e.index] \in Slot
  OBVIOUS
<1>2. CASE e.index >= nextIndex
  <2>1. Verdict(e) = "unknown"
    BY <1>2 DEF Verdict
  <2>2. StateOf(e) = "absent"
    BY <1>1, <1>2 DEF SlotShape, StateOf
  <2> QED BY <2>1, <2>2
<1>3. CASE ~ (e.index >= nextIndex)
  <2>1. StateOf(e) \in {"live", "free", "retired"}
    BY <1>1, <1>3 DEF SlotShape, StateOf
  <2>2. CASE StateOf(e) = "live"
    BY <1>1, <1>3, <2>2 DEF Verdict, StateOf, Present
  <2>3. CASE StateOf(e) = "free"
    BY <1>1, <1>3, <2>3 DEF Verdict, StateOf, Present
  <2>4. CASE StateOf(e) = "retired"
    BY <1>1, <1>3, <2>4 DEF Verdict, StateOf, Present, SlotShape
  <2> QED BY <2>1, <2>2, <2>3, <2>4
<1> QED BY <1>2, <1>3

(* Before the first allocation there is no past.                           *)
LEMMA InductiveAtFirst == AllocatorInit => Inductive
<1> SUFFICES ASSUME AllocatorInit PROVE Inductive
  OBVIOUS
<1> USE AllocatorAssumption DEF AllocatorInit
<1>1. AllocatorTypeOK
  BY DEF AllocatorTypeOK, Slot, Generations, Indices, None
<1>2. History
  BY DEF History, HandedOut, WasFreed, Past, Present, StateOf, Entities,
         Indices, Generations
<1>3. SlotShape
  BY DEF SlotShape, Indices
<1>4. ListShape
  BY DEF ListShape, Indices
<1> QED BY <1>1, <1>2, <1>3, <1>4 DEF Inductive

(* All but the last element of a sequence.                                 *)
LEMMA AllButLast ==
    ASSUME NEW S, NEW s \in Seq(S), s # <<>>
    PROVE  LET front == SubSeq(s, 1, Len(s) - 1)
           IN  /\ front \in Seq(S)
               /\ Len(front) = Len(s) - 1
               /\ \A k \in 1..(Len(s) - 1) : front[k] = s[k]
<1> DEFINE n == Len(s) - 1
<1>1. n \in Nat
  BY EmptySeq
<1>2. \A k \in 1..n : s[k] \in S
  BY <1>1
<1> HIDE DEF n
<1>3. /\ SubSeq(s, 1, n) \in Seq(S)
      /\ Len(SubSeq(s, 1, n)) = IF 1 <= n THEN n - 1 + 1 ELSE 0
      /\ \A k \in 1..(n - 1 + 1) : SubSeq(s, 1, n)[k] = s[1 + k - 1]
  BY <1>1, <1>2, SubSeqProperties
<1>4. Len(SubSeq(s, 1, n)) = n
  BY <1>1, <1>3
<1>5. ASSUME NEW k \in 1..n
      PROVE  SubSeq(s, 1, n)[k] = s[k]
  <2>1. n - 1 + 1 = n /\ 1 + k - 1 = k
    BY <1>1
  <2> QED BY <1>3, <2>1
<1> QED BY <1>3, <1>4, <1>5 DEF n

(* A reused slot hands out the generation after the last one freed.        *)
LEMMA ReuseKeeps ==
    ASSUME Inductive, NEW e \in Entities, Reuse(e),
           issued' = [issued EXCEPT ![e] = @ + 1], UNCHANGED freed
    PROVE  Inductive'
<1> USE AllocatorAssumption DEF Reuse
<1> DEFINE n == Len(freeList)
           i == freeList[n]
<1>1. n \in DOMAIN freeList /\ n \in Nat /\ freeList \in Seq(Indices)
  BY DEF Inductive, AllocatorTypeOK
<1>2. i \in Indices /\ slots[i].state = "free" /\ slots[i] \in Slot
  BY <1>1 DEF Inductive, AllocatorTypeOK, ListShape
<1>3. e = [index |-> i, generation |-> slots[i].generation]
  OBVIOUS
<1>4. slots' = [slots EXCEPT ![i] = [@ EXCEPT !.state = "live",
                                               !.lastFreed = None]]
  BY <1>2 DEF Inductive, AllocatorTypeOK, Slot
<1>5. /\ Len(freeList') = n - 1
      /\ \A k \in 1..(n - 1) : freeList'[k] = freeList[k]
      /\ freeList' \in Seq(Indices)
  BY <1>1, AllButLast
<1>6. DOMAIN freeList' = 1..(n - 1) /\ DOMAIN freeList = 1..n
  BY <1>1, <1>5
<1> HIDE DEF i, n, Reuse
<1>7. nextIndex' = nextIndex
  BY DEF Reuse
<1>8. slots'[i] = [generation |-> slots[i].generation, state |-> "live",
                   lastFreed |-> None]
  BY <1>2, <1>4 DEF Inductive, AllocatorTypeOK, Slot
<1>9. \A j \in Indices : j # i => slots'[j] = slots[j]
  BY <1>4 DEF Inductive, AllocatorTypeOK
<1>10. AllocatorTypeOK'
  <2>1. slots' \in [Indices -> Slot]
    BY <1>2, <1>4 DEF Inductive, AllocatorTypeOK, Slot
  <2>2. issued' \in [Entities -> Nat]
    BY DEF Inductive, AllocatorTypeOK
  <2> QED BY <1>5, <1>7, <2>1, <2>2 DEF Inductive, AllocatorTypeOK
<1>11. History'
  <2> SUFFICES ASSUME NEW f \in Entities
               PROVE  /\ issued'[f] = IF HandedOut(f)' THEN 1 ELSE 0
                      /\ f \in freed' <=> WasFreed(f)'
    BY DEF History
  <2>1. issued[f] = (IF HandedOut(f) THEN 1 ELSE 0) /\ (f \in freed <=> WasFreed(f))
    BY DEF Inductive, History
  <2>2. f.index \in Indices /\ f.generation \in Generations
    BY DEF Entities
  <2>3. CASE f.index # i
    <3>1. f # e
      BY <1>3, <2>3
    <3>2. issued'[f] = issued[f]
      BY <3>1 DEF Inductive, AllocatorTypeOK
    <3>3. (HandedOut(f)' <=> HandedOut(f)) /\ (WasFreed(f)' <=> WasFreed(f))
      BY <1>9, <2>2, <2>3 DEF HandedOut, WasFreed, Past, Present, StateOf
    <3> QED BY <2>1, <3>2, <3>3
  <2>4. CASE f.index = i /\ f # e
    <3>1. f.generation # slots[i].generation
      BY <1>3, <2>4 DEF Entities
    <3>2. issued'[f] = issued[f]
      BY <2>4 DEF Inductive, AllocatorTypeOK
    <3>3. (HandedOut(f)' <=> HandedOut(f)) /\ (WasFreed(f)' <=> WasFreed(f))
      BY <1>8, <2>4, <3>1 DEF HandedOut, WasFreed, Past, Present, StateOf
    <3> QED BY <2>1, <3>2, <3>3
  <2>5. CASE f = e
    <3>1. f.index = i /\ f.generation = slots[i].generation
      BY <1>3, <2>5
    <3>2. ~ HandedOut(f) /\ ~ WasFreed(f)
      BY <1>2, <3>1 DEF HandedOut, WasFreed, Past, Present, StateOf, Slot,
                        Generations
    <3>3. issued'[f] = 1
      BY <2>1, <2>5, <3>2 DEF Inductive, AllocatorTypeOK
    <3>4. HandedOut(f)' /\ ~ WasFreed(f)'
      BY <1>2, <1>8, <3>1 DEF HandedOut, WasFreed, Past, Present, StateOf,
                              Slot, Generations
    <3> QED BY <2>1, <3>2, <3>3, <3>4
  <2> QED BY <2>3, <2>4, <2>5
<1>12. SlotShape'
  BY <1>2, <1>7, <1>8, <1>9 DEF Inductive, SlotShape
<1>13. ListShape'
  <2>1. \A k \in 1..(n - 1) : freeList[k] # i /\ freeList[k] \in Indices
    BY <1>1, <1>6 DEF Inductive, ListShape, i
  <2>2. ASSUME NEW k \in DOMAIN freeList'
        PROVE  slots'[freeList'[k]].state = "free"
    BY <1>1, <1>5, <1>6, <1>9, <2>1 DEF Inductive, ListShape
  <2>3. ASSUME NEW k \in DOMAIN freeList', NEW l \in DOMAIN freeList',
               freeList'[k] = freeList'[l]
        PROVE  k = l
    BY <1>1, <1>5, <1>6, <2>3 DEF Inductive, ListShape
  <2>4. ASSUME NEW j \in Indices, slots'[j].state = "free"
        PROVE  \E k \in DOMAIN freeList' : freeList'[k] = j
    <3>1. j # i /\ slots[j].state = "free"
      BY <1>8, <1>9, <2>4
    <3>2. PICK k \in DOMAIN freeList : freeList[k] = j
      BY <3>1 DEF Inductive, ListShape
    <3>3. k # n
      BY <3>1, <3>2 DEF i
    <3> QED BY <1>1, <1>5, <1>6, <3>2, <3>3
  <2> QED BY <2>2, <2>3, <2>4 DEF ListShape
<1> QED BY <1>10, <1>11, <1>12, <1>13 DEF Inductive

(* A new slot starts with its first generation.                            *)
LEMMA ExtendKeeps ==
    ASSUME Inductive, NEW e \in Entities, Extend(e),
           issued' = [issued EXCEPT ![e] = @ + 1], UNCHANGED freed
    PROVE  Inductive'
<1> USE AllocatorAssumption DEF Extend
<1> DEFINE i == nextIndex
<1>1. i \in Indices /\ slots[i] \in Slot /\ i \in Nat
  BY DEF Inductive, AllocatorTypeOK, Indices
<1>2. /\ slots[i].state = "absent" /\ slots[i].generation = 0
      /\ slots[i].lastFreed = None
  BY <1>1 DEF Inductive, SlotShape
<1>3. e = [index |-> i, generation |-> 0]
  OBVIOUS
<1>4. slots'[i] = [generation |-> 0, state |-> "live", lastFreed |-> None]
  BY <1>1, <1>2 DEF Inductive, AllocatorTypeOK, Slot
<1>5. \A j \in Indices : j # i => slots'[j] = slots[j]
  BY DEF Inductive, AllocatorTypeOK
<1>6. nextIndex' = i + 1 /\ freeList' = freeList /\ freeList = <<>>
  OBVIOUS
<1>7. AllocatorTypeOK'
  <2>1. slots' \in [Indices -> Slot]
    BY <1>1 DEF Inductive, AllocatorTypeOK, Slot
  <2>2. issued' \in [Entities -> Nat]
    BY DEF Inductive, AllocatorTypeOK
  <2> QED BY <1>1, <1>6, <2>1, <2>2 DEF Inductive, AllocatorTypeOK, Indices
<1> HIDE DEF i, Extend
<1>8. History'
  <2> SUFFICES ASSUME NEW f \in Entities
               PROVE  /\ issued'[f] = IF HandedOut(f)' THEN 1 ELSE 0
                      /\ f \in freed' <=> WasFreed(f)'
    BY DEF History
  <2>1. issued[f] = (IF HandedOut(f) THEN 1 ELSE 0) /\ (f \in freed <=> WasFreed(f))
    BY DEF Inductive, History
  <2>2. f.index \in Indices /\ f.generation \in Generations
    BY DEF Entities
  <2>3. CASE f.index # i
    <3>1. f # e
      BY <1>3, <2>3
    <3>2. issued'[f] = issued[f]
      BY <3>1 DEF Inductive, AllocatorTypeOK
    <3>3. (HandedOut(f)' <=> HandedOut(f)) /\ (WasFreed(f)' <=> WasFreed(f))
      BY <1>5, <2>2, <2>3 DEF HandedOut, WasFreed, Past, Present, StateOf
    <3> QED BY <2>1, <3>2, <3>3
  <2>4. CASE f.index = i /\ f # e
    <3>1. f.generation # 0
      BY <1>3, <2>4 DEF Entities
    <3>2. issued'[f] = issued[f]
      BY <2>4 DEF Inductive, AllocatorTypeOK
    <3>3. (HandedOut(f)' <=> HandedOut(f)) /\ (WasFreed(f)' <=> WasFreed(f))
      BY <1>2, <1>4, <2>4, <3>1 DEF HandedOut, WasFreed, Past, Present, StateOf
    <3> QED BY <2>1, <3>2, <3>3
  <2>5. CASE f = e
    <3>1. f.index = i /\ f.generation = 0
      BY <1>3, <2>5
    <3>2. ~ HandedOut(f) /\ ~ WasFreed(f)
      BY <1>2, <3>1 DEF HandedOut, WasFreed, Past, Present, StateOf
    <3>3. issued'[f] = 1
      BY <2>1, <2>5, <3>2 DEF Inductive, AllocatorTypeOK
    <3>4. HandedOut(f)' /\ ~ WasFreed(f)'
      BY <1>4, <3>1 DEF HandedOut, WasFreed, Past, Present, StateOf
    <3> QED BY <2>1, <3>2, <3>3, <3>4
  <2> QED BY <2>3, <2>4, <2>5
<1>9. SlotShape'
  <2>1. ASSUME NEW j \in Indices, j # i
        PROVE  j >= i + 1 <=> j >= i
    BY <1>1, <2>1 DEF Indices
  <2>2. ~ (i >= i + 1)
    BY <1>1
  <2> QED BY <1>4, <1>5, <1>6, <2>1, <2>2 DEF Inductive, SlotShape, i
<1>10. ListShape'
  BY <1>4, <1>5, <1>6 DEF Inductive, ListShape
<1> QED BY <1>7, <1>8, <1>9, <1>10 DEF Inductive

(* A freed slot passes to its next generation, if it has one.              *)
LEMMA FreeKeeps ==
    ASSUME Inductive, NEW e \in Entities, Free(e)
    PROVE  Inductive'
<1> USE AllocatorAssumption
<1> DEFINE i == e.index
           g == e.generation
<1>1. /\ i \in Indices /\ g \in Generations /\ slots[i] \in Slot
      /\ slots[i].state = "live" /\ slots[i].generation = g
      /\ freeList \in Seq(Indices)
  BY VerdictMeans DEF Inductive, AllocatorTypeOK, Entities, Free, StateOf,
                      Present
<1>2. nextIndex' = nextIndex /\ issued' = issued /\ freed' = freed \union {e}
  BY DEF Free
<1>3. \/ /\ g < GenerationMax
         /\ slots' = [slots EXCEPT ![i] = [generation |-> g + 1, state |-> "free",
                                           lastFreed |-> g]]
         /\ freeList' = Append(freeList, i)
      \/ /\ g = GenerationMax
         /\ slots' = [slots EXCEPT ![i] = [@ EXCEPT !.state = "retired",
                                                    !.lastFreed = g]]
         /\ freeList' = freeList
  <2>1. CASE g < GenerationMax
    BY <1>1, <2>1 DEF Free
  <2>2. CASE ~ (g < GenerationMax)
    <3>1. g = GenerationMax
      BY <1>1, <2>2 DEF Generations
    <3>2. slots' = [slots EXCEPT ![i].state = "retired", ![i].lastFreed = g]
      BY <1>1, <2>2 DEF Free
    <3>3. slots' = [slots EXCEPT ![i] = [@ EXCEPT !.state = "retired",
                                                  !.lastFreed = g]]
      BY <1>1, <3>2 DEF Inductive, AllocatorTypeOK, Slot
    <3> QED BY <1>1, <2>2, <3>1, <3>3 DEF Free
  <2> QED BY <2>1, <2>2
<1>4. \A j \in Indices : j # i => slots'[j] = slots[j]
  BY <1>3 DEF Inductive, AllocatorTypeOK
<1>5. e = [index |-> i, generation |-> g]
  BY DEF Entities
<1> HIDE DEF i, g
<1>6. \/ /\ g < GenerationMax
         /\ slots'[i] = [generation |-> g + 1, state |-> "free", lastFreed |-> g]
      \/ /\ g = GenerationMax
         /\ slots'[i] = [generation |-> g, state |-> "retired", lastFreed |-> g]
  <2>1. /\ i \in DOMAIN slots /\ slots[i].generation = g
        /\ slots[i] = [generation |-> slots[i].generation, state |-> slots[i].state,
                       lastFreed |-> slots[i].lastFreed]
    BY <1>1 DEF Inductive, AllocatorTypeOK, Slot
  <2>2. CASE /\ g < GenerationMax
             /\ slots' = [slots EXCEPT ![i] = [generation |-> g + 1, state |-> "free",
                                               lastFreed |-> g]]
    BY <2>1, <2>2
  <2>3. CASE /\ g = GenerationMax
             /\ slots' = [slots EXCEPT ![i] = [@ EXCEPT !.state = "retired",
                                                        !.lastFreed = g]]
    <3>1. slots'[i] = [slots[i] EXCEPT !.state = "retired", !.lastFreed = g]
      BY <2>1, <2>3
    <3> QED BY <2>1, <2>3, <3>1
  <2> QED BY <1>3, <2>2, <2>3
<1>7. AllocatorTypeOK'
  <2>1. slots' \in [Indices -> Slot]
    <3>1. slots'[i] \in Slot
      BY <1>1, <1>6 DEF Slot, Generations
    <3>2. DOMAIN slots' = Indices /\ slots' = [j \in Indices |-> slots'[j]]
      BY <1>3 DEF Inductive, AllocatorTypeOK
    <3>3. \A j \in Indices : slots'[j] \in Slot
      BY <1>4, <3>1 DEF Inductive, AllocatorTypeOK
    <3> QED BY <3>2, <3>3
  <2>2. freeList' \in Seq(Indices)
    BY <1>1, <1>3
  <2> QED BY <1>2, <2>1, <2>2 DEF Inductive, AllocatorTypeOK
<1>8. History'
  <2> SUFFICES ASSUME NEW f \in Entities
               PROVE  /\ issued'[f] = IF HandedOut(f)' THEN 1 ELSE 0
                      /\ f \in freed' <=> WasFreed(f)'
    BY DEF History
  <2>1. issued[f] = (IF HandedOut(f) THEN 1 ELSE 0) /\ (f \in freed <=> WasFreed(f))
    BY DEF Inductive, History
  <2>2. f.index \in Indices /\ f.generation \in Generations
    BY DEF Entities
  <2>3. CASE f.index # i
    <3>1. f # e
      BY <1>5, <2>3
    <3>2. (HandedOut(f)' <=> HandedOut(f)) /\ (WasFreed(f)' <=> WasFreed(f))
      BY <1>4, <2>2, <2>3 DEF HandedOut, WasFreed, Past, Present, StateOf
    <3> QED BY <1>2, <2>1, <3>1, <3>2
  <2>4. CASE f.index = i
    <3>1. f = e <=> f.generation = g
      BY <1>5, <2>4 DEF Entities
    <3>2. (HandedOut(f) <=> f.generation <= g) /\ (WasFreed(f) <=> f.generation < g)
      BY <1>1, <2>2, <2>4 DEF HandedOut, WasFreed, Past, Present, StateOf,
                              Generations
    <3>3. (HandedOut(f)' <=> f.generation <= g) /\ (WasFreed(f)' <=> f.generation <= g)
      BY <1>1, <1>6, <2>2, <2>4 DEF HandedOut, WasFreed, Past, Present, StateOf,
                                    Generations
    <3>4. f.generation <= g <=> f.generation < g \/ f.generation = g
      BY <1>1, <2>2 DEF Generations
    <3> QED BY <1>2, <2>1, <3>1, <3>2, <3>3, <3>4
  <2> QED BY <2>3, <2>4
<1>9. SlotShape'
  BY <1>1, <1>2, <1>4, <1>6 DEF Inductive, SlotShape, Generations
<1>10. ListShape'
  <2>1. \A k \in DOMAIN freeList : freeList[k] \in Indices /\ freeList[k] # i
    BY <1>1 DEF Inductive, ListShape
  <2>2. CASE g < GenerationMax
    <3>1. freeList' = Append(freeList, i)
      BY <1>3, <2>2 DEF Generations
    <3>2. /\ DOMAIN freeList = 1..Len(freeList) /\ Len(freeList) \in Nat
          /\ DOMAIN freeList' = 1..(Len(freeList) + 1)
          /\ freeList'[Len(freeList) + 1] = i
          /\ \A k \in 1..Len(freeList) : freeList'[k] = freeList[k]
      BY <1>1, <3>1
    <3>3. slots'[i].state = "free"
      BY <1>6, <2>2
    <3>4. ASSUME NEW k \in DOMAIN freeList'
          PROVE  slots'[freeList'[k]].state = "free"
      BY <1>4, <2>1, <3>2, <3>3 DEF Inductive, ListShape
    <3>5. ASSUME NEW k \in DOMAIN freeList', NEW l \in DOMAIN freeList',
                 freeList'[k] = freeList'[l]
          PROVE  k = l
      BY <2>1, <3>2, <3>5 DEF Inductive, ListShape
    <3>6. ASSUME NEW j \in Indices, slots'[j].state = "free"
          PROVE  \E k \in DOMAIN freeList' : freeList'[k] = j
      <4>1. CASE j = i
        BY <3>2, <4>1
      <4>2. CASE j # i
        <5>1. PICK k \in DOMAIN freeList : freeList[k] = j
          BY <1>4, <3>6, <4>2 DEF Inductive, ListShape
        <5> QED BY <3>2, <5>1
      <4> QED BY <4>1, <4>2
    <3> QED BY <3>4, <3>5, <3>6 DEF ListShape
  <2>3. CASE ~ (g < GenerationMax)
    <3>1. freeList' = freeList /\ slots'[i].state = "retired"
      BY <1>3, <1>6, <2>3 DEF Generations
    <3> QED BY <1>4, <2>1, <3>1 DEF Inductive, ListShape
  <2> QED BY <2>2, <2>3
<1> QED BY <1>7, <1>8, <1>9, <1>10 DEF Inductive

LEMMA AllocateKeeps ==
    ASSUME Inductive, NEW e \in Entities, Allocate(e)
    PROVE  Inductive'
BY ReuseKeeps, ExtendKeeps DEF Allocate

LEMMA StutterKeeps ==
    ASSUME Inductive, UNCHANGED allocatorVars
    PROVE  Inductive'
BY DEF Inductive, allocatorVars, AllocatorTypeOK, History, SlotShape, ListShape,
       HandedOut, WasFreed, Past, Present, StateOf

(* The slot as it is determines the whole past of its index, always.       *)
THEOREM AllocatorInductive == AllocatorSpec => []Inductive
<1>1. ASSUME Inductive, [AllocatorNext]_allocatorVars
      PROVE  Inductive'
  <2>1. ASSUME NEW e \in Entities, Allocate(e)
        PROVE  Inductive'
    BY <1>1, <2>1, AllocateKeeps
  <2>2. ASSUME NEW e \in Entities, Free(e)
        PROVE  Inductive'
    BY <1>1, <2>2, FreeKeeps
  <2> QED BY <1>1, <2>1, <2>2, StutterKeeps DEF AllocatorNext
<1> QED BY <1>1, InductiveAtFirst, PTL DEF AllocatorSpec

-----------------------------------------------------------------------------
(* Every variable of the allocator keeps its type.                         *)
THEOREM AllocatorTypes == AllocatorSpec => []AllocatorTypeOK
<1>1. Inductive => AllocatorTypeOK
  BY DEF Inductive
<1> QED BY <1>1, AllocatorInductive, PTL

(* No entity is handed out twice, however often its slot is reused.        *)
THEOREM NoReissue == AllocatorSpec => []NeverReissued
<1>1. Inductive => NeverReissued
  BY DEF Inductive, History, NeverReissued
<1> QED BY <1>1, AllocatorInductive, PTL

(* The verdict of a slot in terms of its past.                             *)
LEMMA ValidByHistory == Inductive => ValidWhileAlive
<1>1. ASSUME Inductive, NEW e \in Entities
      PROVE  Verdict(e) = "ok" <=> (issued[e] > 0 /\ e \notin freed)
  <2>1. Verdict(e) = "ok" <=> StateOf(e) = "live" /\ Present(e)
    BY <1>1, VerdictMeans
  <2>2. issued[e] > 0 <=> HandedOut(e)
    BY <1>1 DEF Inductive, History
  <2>3. e \in freed <=> WasFreed(e)
    BY <1>1 DEF Inductive, History
  <2>4. ~ (Past(e) /\ Present(e))
    BY <1>1 DEF Past, Present, Inductive, AllocatorTypeOK, Slot, Entities,
                Generations
  <2> QED BY <2>1, <2>2, <2>3, <2>4 DEF HandedOut, WasFreed
<1> QED BY <1>1 DEF ValidWhileAlive

(* A handle is valid exactly while its entity lives.                       *)
THEOREM Validity == AllocatorSpec => []ValidWhileAlive
BY ValidByHistory, AllocatorInductive, PTL

(* A handle is refused for the true reason.                                *)
THEOREM Rejection == AllocatorSpec => []RejectionTruthful
<1> USE AllocatorAssumption
<1>1. ASSUME Inductive, NEW e \in Entities
      PROVE  /\ (issued[e] > 0 /\ e \in freed) => Verdict(e) \in {"freed", "stale"}
             /\ Verdict(e) = "freed" <=>
                   /\ e \in freed
                   /\ \A f \in Entities :
                         (f.index = e.index /\ f.generation > e.generation)
                             => issued[f] = 0
  <2> DEFINE s == slots[e.index]
  <2>1. /\ s \in Slot /\ s.generation \in Generations
        /\ s.state \in {"absent", "live", "free", "retired"}
        /\ e.index \in Indices /\ e.generation \in Generations
    BY <1>1 DEF Inductive, AllocatorTypeOK, Entities, Slot
  <2>2. /\ s.state = "absent" => s.generation = 0
        /\ s.state = "free" => s.lastFreed = s.generation - 1
        /\ s.state = "retired" => s.lastFreed = s.generation
    BY <1>1, <2>1 DEF Inductive, SlotShape
  <2>3. /\ Verdict(e) = "ok" <=> s.state = "live" /\ e.generation = s.generation
        /\ Verdict(e) = "freed" <=> /\ s.state \in {"free", "retired"}
                                   /\ s.lastFreed = e.generation
        /\ Verdict(e) \in {"ok", "freed", "stale", "unknown"}
        /\ Verdict(e) = "unknown" =>
              \/ s.state = "absent"
              \/ s.state = "free" /\ e.generation = s.generation
    BY <1>1, VerdictMeans DEF StateOf, Present
  <2>4. e \in freed <=> \/ e.generation < s.generation
                        \/ e.generation = s.generation /\ s.state = "retired"
    <3>1. e \in freed <=> WasFreed(e)
      BY <1>1 DEF Inductive, History
    <3>2. WasFreed(e) <=> \/ e.generation < s.generation
                          \/ e.generation = s.generation /\ s.state = "retired"
      BY DEF WasFreed, Past, Present, StateOf
    <3> QED BY <3>1, <3>2
  <2>5. ASSUME NEW f \in Entities, f.index = e.index
        PROVE  issued[f] = 0 <=> ~ \/ f.generation < s.generation
                                   \/ /\ f.generation = s.generation
                                      /\ s.state \in {"live", "retired"}
    BY <1>1, <2>5 DEF Inductive, History, HandedOut, Past, Present, StateOf
  <2>6. ASSUME NEW h \in Generations
        PROVE  /\ [index |-> e.index, generation |-> h] \in Entities
               /\ [index |-> e.index, generation |-> h].index = e.index
               /\ [index |-> e.index, generation |-> h].generation = h
    BY <2>1 DEF Entities
  <2> HIDE DEF s
  <2>7. (issued[e] > 0 /\ e \in freed) => Verdict(e) \in {"freed", "stale"}
    BY <2>1, <2>2, <2>3, <2>4 DEF Generations
  <2>8. ASSUME Verdict(e) = "freed"
        PROVE  /\ e \in freed
               /\ \A f \in Entities :
                     (f.index = e.index /\ f.generation > e.generation)
                         => issued[f] = 0
    <3>1. e \in freed
      <4>1. s.state \in {"free", "retired"} /\ s.lastFreed = e.generation
        BY <2>3, <2>8
      <4>2. CASE s.state = "free"
        <5>1. s.generation - 1 = e.generation
          BY <2>2, <4>1, <4>2
        <5>2. e.generation < s.generation
          BY <2>1, <5>1 DEF Generations
        <5> QED BY <2>4, <5>2
      <4>3. CASE s.state = "retired"
        BY <2>2, <2>4, <4>1, <4>3
      <4> QED BY <4>1, <4>2, <4>3
    <3>2. ASSUME NEW f \in Entities, f.index = e.index, f.generation > e.generation
          PROVE  issued[f] = 0
      <4>1. f.generation \in Generations
        BY DEF Entities
      <4> QED BY <2>1, <2>2, <2>3, <2>5, <2>8, <3>2, <4>1 DEF Generations
    <3> QED BY <3>1, <3>2
  <2>9. ASSUME e \in freed,
               \A f \in Entities :
                  (f.index = e.index /\ f.generation > e.generation)
                      => issued[f] = 0
        PROVE  Verdict(e) = "freed"
    <3> DEFINE last == [index |-> e.index, generation |-> s.generation]
               previous == [index |-> e.index, generation |-> s.generation - 1]
    <3>1. CASE s.state \in {"live", "retired"} /\ e.generation < s.generation
      <4>1. last \in Entities /\ last.index = e.index /\ last.generation = s.generation
        BY <2>1, <2>6
      <4>2. issued[last] = 0
        BY <2>1, <2>9, <3>1, <4>1 DEF Generations
      <4> QED BY <2>5, <3>1, <4>1, <4>2
    <3>2. CASE s.state = "retired" /\ e.generation = s.generation
      BY <2>2, <2>3, <3>2
    <3>3. CASE s.state = "free"
      <4>1. e.generation < s.generation
        BY <2>4, <2>9, <3>3
      <4>2. CASE e.generation < s.generation - 1
        <5>1. s.generation - 1 \in Generations
          BY <2>1, <4>1 DEF Generations
        <5>2. /\ previous \in Entities /\ previous.index = e.index
              /\ previous.generation = s.generation - 1
          BY <2>6, <5>1
        <5>3. issued[previous] = 0
          BY <2>1, <2>9, <4>2, <5>2 DEF Generations
        <5>4. previous.generation < s.generation
          BY <2>1, <5>2 DEF Generations
        <5> QED BY <2>5, <5>2, <5>3, <5>4
      <4>3. CASE e.generation = s.generation - 1
        BY <2>2, <2>3, <3>3, <4>3
      <4> QED BY <2>1, <4>1, <4>2, <4>3 DEF Generations
    <3>4. s.state # "absent"
      BY <2>1, <2>2, <2>4, <2>9 DEF Generations
    <3> QED BY <2>1, <2>4, <2>9, <3>1, <3>2, <3>3, <3>4
  <2> QED BY <2>7, <2>8, <2>9
<1>2. Inductive => RejectionTruthful
  BY <1>1 DEF RejectionTruthful
<1> QED BY <1>2, AllocatorInductive, PTL

(* No slot is lost to reuse, and none is listed twice.                     *)
THEOREM Slots == AllocatorSpec => []SlotsAccounted
<1> USE AllocatorAssumption
<1>1. ASSUME Inductive, NEW i \in 0..(nextIndex - 1)
      PROVE  LET listed == {k \in DOMAIN freeList : freeList[k] = i}
             IN  /\ slots[i].state = "free" => Cardinality(listed) = 1
                 /\ slots[i].state # "free" => listed = {}
                 /\ slots[i].state = "retired" => slots[i].generation = GenerationMax
  <2> DEFINE listed == {k \in DOMAIN freeList : freeList[k] = i}
  <2>1. i \in Indices
    BY <1>1 DEF Inductive, AllocatorTypeOK, Indices
  <2>2. ASSUME slots[i].state = "free"
        PROVE  Cardinality(listed) = 1
    <3>1. PICK k \in DOMAIN freeList : freeList[k] = i
      BY <1>1, <2>1, <2>2 DEF Inductive, ListShape
    <3>2. listed = {k}
      BY <1>1, <3>1 DEF Inductive, ListShape
    <3> QED BY <3>2, FS_Singleton
  <2>3. slots[i].state # "free" => listed = {}
    BY <1>1 DEF Inductive, ListShape
  <2>4. slots[i].state = "retired" => slots[i].generation = GenerationMax
    BY <1>1, <2>1 DEF Inductive, SlotShape
  <2> QED BY <2>2, <2>3, <2>4
<1>2. Inductive => SlotsAccounted
  BY <1>1 DEF SlotsAccounted
<1> QED BY <1>2, AllocatorInductive, PTL

=============================================================================
