------------------------------ MODULE WorldProofs ------------------------------
(***************************************************************************)
(* The world's properties, for any component types, values, bundles,       *)
(* number of entities and change cursor.                                   *)
(*                                                                         *)
(* Whatever the storage does is a removal of one row, an append of one, or *)
(* both; either keeps every entity at one place and every other cell what  *)
(* it was.  What is left to show is about the cells an entity has, not     *)
(* about where they lie: Contents.                                         *)
(***************************************************************************)
EXTENDS World, EntityAllocatorProofs

Cells == [value : Values, added : Cursors, changed : Cursors]

Places == [archetype : Archetypes, row : Nat]

(* Every entity of A is where L says it is in the rows R, and nowhere else,*)
(* and the columns C are as long as the rows.                              *)
Storage(R, C, L, A) ==
    /\ A \subseteq Entities
    /\ R \in [Archetypes -> Seq(Entities)]
    /\ DOMAIN C = Archetypes
    /\ \A k \in Archetypes : C[k] \in [k -> Seq(Cells)]
    /\ L \in [A -> Places]
    /\ \A e \in A : /\ L[e].row \in DOMAIN R[L[e].archetype]
                    /\ R[L[e].archetype][L[e].row] = e
    /\ \A k \in Archetypes : \A i \in DOMAIN R[k] :
          R[k][i] \in A /\ L[R[k][i]] = [archetype |-> k, row |-> i]
    /\ \A k \in Archetypes : \A t \in k : Len(C[k][t]) = Len(R[k])

(* The cells of every entity, wherever they lie.                           *)
Contents(C, L) ==
    [e \in DOMAIN L |->
        [t \in L[e].archetype |-> C[L[e].archetype][t][L[e].row]]]

-----------------------------------------------------------------------------
(* One row removed or appended.                                            *)

LEMMA SwapRemoveIs ==
    ASSUME NEW S, NEW s \in Seq(S), NEW i \in 1..Len(s)
    PROVE  /\ SwapRemove(s, i) \in Seq(S)
           /\ Len(SwapRemove(s, i)) = Len(s) - 1
           /\ DOMAIN SwapRemove(s, i) = 1..(Len(s) - 1)
           /\ \A j \in 1..(Len(s) - 1) :
                 SwapRemove(s, i)[j] = IF j = i THEN s[Len(s)] ELSE s[j]
<1> DEFINE n == Len(s) - 1
           r == [j \in 1..n |-> IF j = i THEN s[Len(s)] ELSE s[j]]
<1>1. Len(s) \in Nat /\ n \in Nat /\ Len(s) = n + 1
  OBVIOUS
<1>2. \A j \in 1..n : s[j] \in S /\ s[Len(s)] \in S
  BY <1>1
<1>3. r \in [1..n -> S]
  BY <1>2
<1>4. SwapRemove(s, i) = r
  BY DEF SwapRemove
<1> HIDE DEF r
<1>5. r \in Seq(S) /\ Len(r) = n /\ DOMAIN r = 1..n
  <2> HIDE DEF n
  <2> QED BY <1>1, <1>3, SeqDef
<1> QED BY <1>4, <1>5 DEF r

LEMMA AppendIs ==
    ASSUME NEW S, NEW s \in Seq(S), NEW x \in S
    PROVE  /\ Append(s, x) \in Seq(S)
           /\ Len(s) \in Nat
           /\ Len(Append(s, x)) = Len(s) + 1
           /\ DOMAIN s = 1..Len(s)
           /\ DOMAIN Append(s, x) = 1..(Len(s) + 1)
           /\ \A j \in 1..Len(s) : Append(s, x)[j] = s[j]
           /\ Append(s, x)[Len(s) + 1] = x
OBVIOUS

(* An entity's place and cells are of their types.                         *)
LEMMA PlaceIs ==
    ASSUME NEW R, NEW C, NEW L, NEW A, Storage(R, C, L, A), NEW e \in A
    PROVE  /\ L[e] \in Places
           /\ L[e].archetype \in Archetypes
           /\ L[e].row \in Nat
           /\ R[L[e].archetype] \in Seq(Entities)
           /\ Len(R[L[e].archetype]) \in Nat
           /\ L[e].row \in 1..Len(R[L[e].archetype])
           /\ R[L[e].archetype][L[e].row] = e
<1>1. L[e] \in Places
  BY DEF Storage
<1>2. /\ L[e].archetype \in Archetypes /\ L[e].row \in Nat
      /\ L[e] = [archetype |-> L[e].archetype, row |-> L[e].row]
  BY <1>1 DEF Places
<1>3. R[L[e].archetype] \in Seq(Entities)
  BY <1>2 DEF Storage
<1>4. Len(R[L[e].archetype]) \in Nat /\ DOMAIN R[L[e].archetype] = 1..Len(R[L[e].archetype])
  BY <1>3
<1> QED BY <1>1, <1>2, <1>3, <1>4 DEF Storage

Bundle == UNION {[k -> Cells] : k \in Archetypes}

(* The cells of every entity in storage.                                   *)
LEMMA ContentsTyped ==
    ASSUME NEW R, NEW C, NEW L, NEW A, Storage(R, C, L, A)
    PROVE  /\ DOMAIN L = A
           /\ Contents(C, L) \in [A -> Bundle]
           /\ \A x \in A : Contents(C, L)[x] \in [L[x].archetype -> Cells]
           /\ \A x \in A : \A t \in L[x].archetype :
                 Contents(C, L)[x][t] = C[L[x].archetype][t][L[x].row]
<1>1. DOMAIN L = A
  BY DEF Storage
<1>2. ASSUME NEW x \in A
      PROVE  [t \in L[x].archetype |-> C[L[x].archetype][t][L[x].row]]
                 \in [L[x].archetype -> Cells]
  <2> DEFINE k == L[x].archetype
             i == L[x].row
  <2>1. k \in Archetypes /\ i \in 1..Len(R[k]) /\ Len(R[k]) \in Nat
    BY PlaceIs
  <2>2. ASSUME NEW t \in k PROVE C[k][t][i] \in Cells
    <3>1. C[k][t] \in Seq(Cells) /\ Len(C[k][t]) = Len(R[k])
      BY <2>1 DEF Storage
    <3> QED BY <2>1, <3>1
  <2> HIDE DEF k, i
  <2>3. [t \in k |-> C[k][t][i]] \in [k -> Cells]
    BY <2>2
  <2> QED BY <2>3 DEF k, i
<1>3. ASSUME NEW x \in A
      PROVE  /\ L[x].archetype \in Archetypes
             /\ Contents(C, L)[x] \in [L[x].archetype -> Cells]
             /\ \A t \in L[x].archetype :
                   Contents(C, L)[x][t] = C[L[x].archetype][t][L[x].row]
  <2>1. Contents(C, L)[x] = [t \in L[x].archetype |-> C[L[x].archetype][t][L[x].row]]
    BY <1>1 DEF Contents
  <2>2. L[x].archetype \in Archetypes
    BY PlaceIs
  <2> QED BY <1>2, <2>1, <2>2
<1>4. \A x \in A : Contents(C, L)[x] \in Bundle
  BY <1>3 DEF Bundle
<1>5. Contents(C, L) \in [A -> Bundle]
  <2>1. Contents(C, L) = [x \in A |-> Contents(C, L)[x]]
    BY <1>1 DEF Contents
  <2> QED BY <1>4, <2>1
<1> QED BY <1>1, <1>3, <1>5

LEMMA SameCells ==
    ASSUME NEW R, NEW C, NEW L, NEW A, Storage(R, C, L, A),
           NEW R1, NEW C1, NEW L1, NEW B, Storage(R1, C1, L1, B),
           NEW x \in A, x \in B, L1[x].archetype = L[x].archetype,
           \A t \in L[x].archetype :
               C1[L[x].archetype][t][L1[x].row] = C[L[x].archetype][t][L[x].row]
    PROVE  Contents(C1, L1)[x] = Contents(C, L)[x]
<1> DEFINE k == L[x].archetype
           f == Contents(C, L)[x]
           g == Contents(C1, L1)[x]
<1>1. f \in [k -> Cells] /\ \A t \in k : f[t] = C[k][t][L[x].row]
  BY ContentsTyped
<1>2. g \in [k -> Cells] /\ \A t \in k : g[t] = C1[k][t][L1[x].row]
  <2>1. /\ g \in [L1[x].archetype -> Cells]
        /\ \A t \in L1[x].archetype : g[t] = C1[L1[x].archetype][t][L1[x].row]
    BY ContentsTyped
  <2> QED BY <2>1
<1>3. \A t \in k : f[t] = g[t]
  BY <1>1, <1>2
<1> HIDE DEF k, f, g
<1>4. f = g
  BY <1>1, <1>2, <1>3
<1> QED BY <1>4 DEF f, g

(* R1, C1 and L1 are R, C and L without e: the last entity of its archetype*)
(* takes its row.                                                          *)
Without(R, C, L, A, e, k, i, last, R1, C1, L1) ==
    /\ k = L[e].archetype
    /\ i = L[e].row
    /\ last = R[k][Len(R[k])]
    /\ R1 = [R EXCEPT ![k] = SwapRemove(@, i)]
    /\ C1 = [C EXCEPT ![k] = [t \in k |-> SwapRemove(@[t], i)]]
    /\ L1 = [x \in A \ {e} |-> [L EXCEPT ![last].row = i][x]]

LEMMA RemovalKeeps ==
    ASSUME NEW R, NEW C, NEW L, NEW A, Storage(R, C, L, A), NEW e \in A,
           NEW R1, NEW C1, NEW L1, NEW k, NEW i, NEW last,
           Without(R, C, L, A, e, k, i, last, R1, C1, L1)
    PROVE  /\ Storage(R1, C1, L1, A \ {e})
           /\ \A x \in A \ {e} : Contents(C1, L1)[x] = Contents(C, L)[x]
<1> DEFINE n == Len(R[k])
           B == A \ {e}
<1>1. /\ k \in Archetypes /\ i \in Nat /\ n \in Nat /\ i \in 1..n
      /\ R[k] \in Seq(Entities) /\ R[k][i] = e /\ DOMAIN R[k] = 1..n
  <2>1. /\ L[e].archetype \in Archetypes /\ L[e].row \in Nat
        /\ R[L[e].archetype] \in Seq(Entities) /\ Len(R[L[e].archetype]) \in Nat
        /\ L[e].row \in 1..Len(R[L[e].archetype])
        /\ R[L[e].archetype][L[e].row] = e
    BY PlaceIs
  <2>2. k = L[e].archetype /\ i = L[e].row
    BY DEF Without
  <2> HIDE DEF n
  <2>3. /\ k \in Archetypes /\ i \in Nat /\ R[k] \in Seq(Entities)
        /\ Len(R[k]) \in Nat /\ i \in 1..Len(R[k]) /\ R[k][i] = e
    BY <2>1, <2>2, Zenon
  <2> QED BY <2>3 DEF n
<1>2. /\ R \in [Archetypes -> Seq(Entities)]
      /\ DOMAIN C = Archetypes
      /\ \A q \in Archetypes : C[q] \in [q -> Seq(Cells)]
      /\ L \in [A -> Places] /\ A \subseteq Entities
      /\ \A q \in Archetypes : \A t \in q : Len(C[q][t]) = Len(R[q])
  BY DEF Storage
<1>3. /\ SwapRemove(R[k], i) \in Seq(Entities)
      /\ Len(SwapRemove(R[k], i)) = n - 1
      /\ DOMAIN SwapRemove(R[k], i) = 1..(n - 1)
      /\ \A j \in 1..(n - 1) :
            SwapRemove(R[k], i)[j] = IF j = i THEN last ELSE R[k][j]
  <2> DEFINE s == R[k]
  <2>1. s \in Seq(Entities) /\ i \in 1..Len(s) /\ Len(s) = n /\ last = s[Len(s)]
    BY <1>1 DEF Without
  <2> HIDE DEF s, n
  <2>2. /\ SwapRemove(s, i) \in Seq(Entities)
        /\ Len(SwapRemove(s, i)) = Len(s) - 1
        /\ DOMAIN SwapRemove(s, i) = 1..(Len(s) - 1)
        /\ \A j \in 1..(Len(s) - 1) :
              SwapRemove(s, i)[j] = IF j = i THEN s[Len(s)] ELSE s[j]
    BY <2>1, SwapRemoveIs, Zenon
  <2> QED BY <2>1, <2>2 DEF s
<1>4. R1[k] = SwapRemove(R[k], i) /\ \A q \in Archetypes : q # k => R1[q] = R[q]
  BY <1>1, <1>2 DEF Without
<1>5. last \in A /\ L[last] = [archetype |-> k, row |-> n]
  <2>1. n \in DOMAIN R[k]
    BY <1>1
  <2>2. last = R[k][n]
    BY DEF Without
  <2> QED BY <1>1, <2>1, <2>2 DEF Storage
<1>6. /\ L1 \in [B -> Places]
      /\ \A x \in B : x # last => L1[x] = L[x]
      /\ last # e => L1[last] = [archetype |-> k, row |-> i]
  <2> DEFINE M == [L EXCEPT ![last].row = i]
  <2>1. M[last] = [archetype |-> k, row |-> i] /\ M[last] \in Places
    BY <1>1, <1>2, <1>5 DEF Places
  <2>2. \A x \in A : x # last => M[x] = L[x]
    BY <1>2
  <2>3. \A x \in A : M[x] \in Places
    BY <1>2, <2>1, <2>2
  <2> HIDE DEF M
  <2>4. L1 = [x \in B |-> M[x]]
    BY DEF M, Without
  <2> QED BY <1>5, <2>1, <2>2, <2>3, <2>4
<1>7. last = e => i = n
  BY <1>5 DEF Without
<1>8. R1 \in [Archetypes -> Seq(Entities)]
  BY <1>1, <1>2, <1>3 DEF Without
<1>9. /\ DOMAIN C1 = Archetypes
      /\ C1[k] = [t \in k |-> SwapRemove(C[k][t], i)]
      /\ \A q \in Archetypes : q # k => C1[q] = C[q]
  BY <1>1, <1>2 DEF Without
<1>10. ASSUME NEW t \in k
       PROVE  /\ C1[k][t] \in Seq(Cells) /\ Len(C1[k][t]) = n - 1
              /\ \A j \in 1..(n - 1) :
                    C1[k][t][j] = IF j = i THEN C[k][t][n] ELSE C[k][t][j]
  <2> DEFINE s == C[k][t]
  <2>1. s \in Seq(Cells) /\ Len(s) = n
    BY <1>1, <1>2
  <2>2. C1[k][t] = SwapRemove(s, i)
    BY <1>9
  <2> HIDE DEF s, n
  <2>3. /\ SwapRemove(s, i) \in Seq(Cells)
        /\ Len(SwapRemove(s, i)) = Len(s) - 1
        /\ \A j \in 1..(Len(s) - 1) :
              SwapRemove(s, i)[j] = IF j = i THEN s[Len(s)] ELSE s[j]
    <3>1. i \in 1..Len(s)
      BY <1>1, <2>1, Zenon
    <3> QED BY <2>1, <3>1, SwapRemoveIs, Zenon
  <2> QED BY <2>1, <2>2, <2>3 DEF s
<1>11. ASSUME NEW q \in Archetypes
       PROVE  C1[q] \in [q -> Seq(Cells)] /\ \A t \in q : Len(C1[q][t]) = Len(R1[q])
  <2>1. CASE q # k
    BY <1>2, <1>4, <1>9, <2>1, Zenon
  <2>2. CASE q = k
    <3>1. C1[k] \in [k -> Seq(Cells)]
      <4>1. \A t \in k : C1[k][t] \in Seq(Cells)
        BY <1>10
      <4>2. DOMAIN C1[k] = k /\ C1[k] = [t \in DOMAIN C1[k] |-> C1[k][t]]
        BY <1>9
      <4> QED BY <4>1, <4>2
    <3>2. \A t \in k : Len(C1[k][t]) = Len(R1[k])
      BY <1>3, <1>4, <1>10
    <3> QED BY <2>2, <3>1, <3>2
  <2> QED BY <2>1, <2>2
(* Where the others are.                                                   *)
<1>13. ASSUME NEW x \in B, x # last
       PROVE  /\ L1[x] = L[x]
              /\ L[x].archetype = k => L[x].row \in 1..(n - 1) /\ L[x].row # i
  <2>1. x \in A /\ x # e
    OBVIOUS
  <2>2. L[x].archetype = k => L[x].row \in 1..n /\ R[k][L[x].row] = x
    <3>1. /\ L[x].row \in 1..Len(R[L[x].archetype])
          /\ R[L[x].archetype][L[x].row] = x
      BY <2>1, PlaceIs
    <3> QED BY <3>1
  <2>3. L[x].archetype = k => L[x].row # i /\ L[x].row # n
    BY <1>1, <1>5, <1>13, <2>1, <2>2 DEF Without
  <2>4. L[x].archetype = k => L[x].row \in 1..(n - 1)
    <3> DEFINE row == L[x].row
    <3>1. n \in Nat /\ (L[x].archetype = k => row \in 1..n /\ row # n)
      BY <1>1, <2>2, <2>3
    <3> HIDE DEF row, n
    <3>2. L[x].archetype = k => row \in 1..(n - 1)
      BY <3>1
    <3> QED BY <3>2 DEF row
  <2> QED BY <1>6, <1>13, <2>3, <2>4
<1>14. last # e => i \in 1..(n - 1)
  <2>1. last # e => i # n
    BY <1>1 DEF Without
  <2> QED BY <1>1, <2>1
<1>15. ASSUME NEW x \in B
       PROVE  /\ L1[x].row \in DOMAIN R1[L1[x].archetype]
              /\ R1[L1[x].archetype][L1[x].row] = x
  <2>1. CASE x = last
    <3>1. L1[x].archetype = k /\ L1[x].row = i /\ i \in 1..(n - 1)
      <4>1. last # e
        BY <2>1
      <4>2. L1[x] = [archetype |-> k, row |-> i]
        BY <1>6, <2>1, <4>1, Zenon
      <4>3. L1[x].archetype = k /\ L1[x].row = i
        BY <4>2
      <4> QED BY <1>14, <4>1, <4>3, Zenon
    <3>2. i \in DOMAIN R1[k] /\ R1[k][i] = last
      BY <1>3, <1>4, <3>1, Zenon
    <3> QED BY <2>1, <3>1, <3>2, Zenon
  <2>2. CASE x # last /\ L[x].archetype = k
    <3>1. L1[x] = L[x] /\ L[x].row \in 1..(n - 1) /\ L[x].row # i
      BY <1>13, <2>2
    <3>2. R[k][L[x].row] = x
      <4>1. x \in A /\ R[L[x].archetype][L[x].row] = x
        BY PlaceIs
      <4> QED BY <2>2, <4>1
    <3> QED BY <1>3, <1>4, <2>2, <3>1, <3>2, SMTT(30)
  <2>3. CASE x # last /\ L[x].archetype # k
    <3>1. L1[x] = L[x] /\ L[x].archetype \in Archetypes
      BY <1>13, <2>3, PlaceIs
    <3>2. R1[L[x].archetype] = R[L[x].archetype]
      BY <1>4, <2>3, <3>1
    <3> QED BY <3>1, <3>2 DEF Storage
  <2> QED BY <2>1, <2>2, <2>3
<1>16. ASSUME NEW q \in Archetypes, NEW j \in DOMAIN R1[q]
       PROVE  R1[q][j] \in B /\ L1[R1[q][j]] = [archetype |-> q, row |-> j]
  <2>1. CASE q = k /\ j = i
    <3>1. j \in 1..(n - 1)
      BY <1>3, <1>4, <2>1
    <3>2. last # e
      BY <1>1, <1>7, <2>1, <3>1
    <3>3. R1[q][j] = last
      BY <1>3, <1>4, <2>1, <3>1
    <3> QED BY <1>5, <1>6, <2>1, <3>2, <3>3
  <2>2. CASE q = k /\ j # i
    <3>1. j \in 1..(n - 1) /\ j \in DOMAIN R[k] /\ R1[q][j] = R[k][j]
      BY <1>1, <1>3, <1>4, <2>2
    <3>2. R[k][j] \in A /\ L[R[k][j]] = [archetype |-> k, row |-> j]
      BY <1>1, <3>1 DEF Storage
    <3>3. R[k][j] # e /\ R[k][j] # last
      BY <1>1, <1>5, <2>2, <3>1, <3>2 DEF Without
    <3> QED BY <1>6, <2>2, <3>1, <3>2, <3>3
  <2>3. CASE q # k
    <3>1. R1[q] = R[q]
      BY <1>4, <2>3
    <3>2. R[q][j] \in A /\ L[R[q][j]] = [archetype |-> q, row |-> j]
      BY <3>1 DEF Storage
    <3>3. R[q][j] # e /\ R[q][j] # last
      BY <1>5, <2>3, <3>2 DEF Without
    <3> QED BY <1>6, <3>1, <3>2, <3>3
  <2> QED BY <2>1, <2>2, <2>3
<1>17. Storage(R1, C1, L1, B)
  BY <1>2, <1>6, <1>8, <1>9, <1>11, <1>15, <1>16 DEF Storage
<1>18. ASSUME NEW x \in B
       PROVE  Contents(C1, L1)[x] = Contents(C, L)[x]
  <2>1. L1[x].archetype = L[x].archetype
    BY <1>5, <1>6
  <2>2. ASSUME NEW t \in L[x].archetype
        PROVE  C1[L[x].archetype][t][L1[x].row] = C[L[x].archetype][t][L[x].row]
    <3>1. CASE x = last
      <4>1. L[x].archetype = k /\ L[x].row = n /\ L1[x].row = i /\ i \in 1..(n - 1)
        BY <1>5, <1>6, <1>14, <3>1
      <4>2. C1[k][t][i] = C[k][t][n]
        <5>1. t \in k
          BY <2>2, <4>1
        <5> QED BY <1>10, <4>1, <5>1
      <4> QED BY <4>1, <4>2
    <3>2. CASE x # last /\ L[x].archetype = k
      <4>1. L1[x] = L[x] /\ L[x].row \in 1..(n - 1) /\ L[x].row # i
        BY <1>13, <3>2
      <4> DEFINE row == L[x].row
      <4>2. C1[k][t][row] = C[k][t][row]
        <5>1. t \in k /\ row \in 1..(n - 1) /\ row # i
          BY <2>2, <3>2, <4>1
        <5>2. \A j \in 1..(n - 1) :
                 C1[k][t][j] = IF j = i THEN C[k][t][n] ELSE C[k][t][j]
          BY <1>10, <5>1
        <5> HIDE DEF row, n
        <5> QED BY <5>1, <5>2
      <4> QED BY <3>2, <4>1, <4>2
    <3>3. CASE x # last /\ L[x].archetype # k
      <4>1. L1[x] = L[x] /\ L[x].archetype \in Archetypes
        BY <1>13, <3>3, PlaceIs
      <4> QED BY <1>9, <3>3, <4>1
    <3> QED BY <3>1, <3>2, <3>3
  <2>3. x \in A
    OBVIOUS
  <2> HIDE DEF B
  <2> QED BY <1>17, <2>1, <2>2, <2>3, SameCells
<1> QED BY <1>17, <1>18

(* ... with e, in the row of archetype k behind the last one.              *)
With(R, C, L, A, e, k, cell, R1, C1, L1) ==
    /\ R1 = [R EXCEPT ![k] = Append(@, e)]
    /\ DOMAIN C1 = DOMAIN C
    /\ C1[k] = [t \in k |-> Append(C[k][t], cell[t])]
    /\ \A q \in Archetypes : q # k => C1[q] = C[q]
    /\ L1 = [x \in A \union {e} |->
                IF x = e THEN [archetype |-> k, row |-> Len(R[k]) + 1] ELSE L[x]]

LEMMA AppendKeeps ==
    ASSUME NEW R, NEW C, NEW L, NEW A, Storage(R, C, L, A),
           NEW e \in Entities, e \notin A,
           NEW k \in Archetypes, NEW cell \in [k -> Cells],
           NEW R1, NEW C1, NEW L1, With(R, C, L, A, e, k, cell, R1, C1, L1)
    PROVE  /\ Storage(R1, C1, L1, A \union {e})
           /\ Contents(C1, L1)[e] = cell
           /\ \A x \in A : Contents(C1, L1)[x] = Contents(C, L)[x]
<1> DEFINE n == Len(R[k])
           B == A \union {e}
<1>1. /\ R \in [Archetypes -> Seq(Entities)]
      /\ DOMAIN C = Archetypes
      /\ \A q \in Archetypes : C[q] \in [q -> Seq(Cells)]
      /\ L \in [A -> Places] /\ A \subseteq Entities
      /\ \A q \in Archetypes : \A t \in q : Len(C[q][t]) = Len(R[q])
  BY DEF Storage
<1>2. /\ R[k] \in Seq(Entities) /\ n \in Nat /\ DOMAIN R[k] = 1..n
      /\ Append(R[k], e) \in Seq(Entities)
      /\ Len(Append(R[k], e)) = n + 1 /\ DOMAIN Append(R[k], e) = 1..(n + 1)
      /\ \A j \in 1..n : Append(R[k], e)[j] = R[k][j]
      /\ Append(R[k], e)[n + 1] = e
  <2>1. R[k] \in Seq(Entities)
    BY <1>1
  <2> QED BY <2>1, AppendIs
<1>3. R1[k] = Append(R[k], e) /\ \A q \in Archetypes : q # k => R1[q] = R[q]
  BY <1>1 DEF With
<1>4. R1 \in [Archetypes -> Seq(Entities)]
  BY <1>1, <1>2 DEF With
<1>5. /\ DOMAIN C1 = Archetypes
      /\ C1[k] = [t \in k |-> Append(C[k][t], cell[t])]
      /\ \A q \in Archetypes : q # k => C1[q] = C[q]
  BY <1>1 DEF With
<1>6. ASSUME NEW t \in k
      PROVE  /\ C1[k][t] \in Seq(Cells) /\ Len(C1[k][t]) = n + 1
             /\ \A j \in 1..n : C1[k][t][j] = C[k][t][j]
             /\ C1[k][t][n + 1] = cell[t]
  <2> DEFINE s == C[k][t]
             d == cell[t]
  <2>1. s \in Seq(Cells) /\ Len(s) = n /\ d \in Cells
    BY <1>1
  <2>2. C1[k][t] = Append(s, d)
    BY <1>5
  <2> HIDE DEF s, d, n
  <2>3. /\ Append(s, d) \in Seq(Cells)
        /\ Len(Append(s, d)) = Len(s) + 1
        /\ \A j \in 1..Len(s) : Append(s, d)[j] = s[j]
        /\ Append(s, d)[Len(s) + 1] = d
    BY <2>1, AppendIs
  <2> QED BY <2>1, <2>2, <2>3 DEF s, d
<1>7. ASSUME NEW q \in Archetypes
      PROVE  C1[q] \in [q -> Seq(Cells)] /\ \A t \in q : Len(C1[q][t]) = Len(R1[q])
  <2>1. CASE q # k
    BY <1>1, <1>3, <1>5, <2>1, Zenon
  <2>2. CASE q = k
    <3>1. C1[k] \in [k -> Seq(Cells)]
      <4>1. \A t \in k : C1[k][t] \in Seq(Cells)
        BY <1>6
      <4>2. DOMAIN C1[k] = k /\ C1[k] = [t \in DOMAIN C1[k] |-> C1[k][t]]
        BY <1>5
      <4> QED BY <4>1, <4>2
    <3>2. \A t \in k : Len(C1[k][t]) = Len(R1[k])
      BY <1>2, <1>3, <1>6
    <3> QED BY <2>2, <3>1, <3>2
  <2> QED BY <2>1, <2>2
<1>8. /\ L1 \in [B -> Places]
      /\ \A x \in A : L1[x] = L[x]
      /\ L1[e] = [archetype |-> k, row |-> n + 1]
  <2>1. [archetype |-> k, row |-> n + 1] \in Places
    BY <1>2 DEF Places
  <2>2. \A x \in A : L[x] \in Places /\ x # e
    BY <1>1
  <2> HIDE DEF n
  <2> QED BY <2>1, <2>2 DEF n, With
<1>9. ASSUME NEW x \in B
       PROVE  /\ L1[x].row \in DOMAIN R1[L1[x].archetype]
              /\ R1[L1[x].archetype][L1[x].row] = x
  <2>1. CASE x = e
    <3>1. n + 1 \in 1..(n + 1)
      BY <1>2
    <3> QED BY <1>2, <1>3, <1>8, <2>1, <3>1
  <2>2. CASE x # e
    <3>1. x \in A /\ L1[x] = L[x]
      BY <1>8, <2>2
    <3>2. /\ L[x].archetype \in Archetypes
          /\ L[x].row \in 1..Len(R[L[x].archetype])
          /\ R[L[x].archetype][L[x].row] = x
          /\ Len(R[L[x].archetype]) \in Nat
      BY <3>1, PlaceIs
    <3>3. CASE L[x].archetype = k
      <4>1. L[x].row \in 1..n /\ L[x].row \in 1..(n + 1)
        BY <1>2, <3>2, <3>3
      <4> QED BY <1>2, <1>3, <3>1, <3>2, <3>3, <4>1
    <3>4. CASE L[x].archetype # k
      BY <1>1, <1>3, <3>1, <3>2, <3>4
    <3> QED BY <3>3, <3>4
  <2> QED BY <2>1, <2>2
<1>10. ASSUME NEW q \in Archetypes, NEW j \in DOMAIN R1[q]
       PROVE  R1[q][j] \in B /\ L1[R1[q][j]] = [archetype |-> q, row |-> j]
  <2>1. CASE q = k /\ j = n + 1
    <3>1. R1[q][j] = e
      BY <1>2, <1>3, <2>1
    <3> QED BY <1>8, <2>1, <3>1
  <2>2. CASE q = k /\ j # n + 1
    <3>1. j \in 1..n /\ R1[q][j] = R[k][j]
      BY <1>2, <1>3, <2>2
    <3>2. R[k][j] \in A /\ L[R[k][j]] = [archetype |-> k, row |-> j]
      BY <1>2, <3>1 DEF Storage
    <3> QED BY <1>8, <2>2, <3>1, <3>2
  <2>3. CASE q # k
    <3>1. R1[q] = R[q]
      BY <1>3, <2>3
    <3>2. R[q][j] \in A /\ L[R[q][j]] = [archetype |-> q, row |-> j]
      BY <3>1 DEF Storage
    <3> QED BY <1>8, <3>1, <3>2
  <2> QED BY <2>1, <2>2, <2>3
<1>11. Storage(R1, C1, L1, B)
  BY <1>1, <1>4, <1>5, <1>7, <1>8, <1>9, <1>10 DEF Storage
<1>12. Contents(C1, L1)[e] = cell
  <2> DEFINE f == Contents(C1, L1)[e]
  <2>1. L1[e].archetype = k /\ L1[e].row = n + 1 /\ e \in B
    BY <1>8
  <2>2. f \in [k -> Cells] /\ \A t \in k : f[t] = C1[k][t][n + 1]
    <3>1. /\ f \in [L1[e].archetype -> Cells]
          /\ \A t \in L1[e].archetype : f[t] = C1[L1[e].archetype][t][L1[e].row]
      <4> HIDE DEF B
      <4> QED BY <1>11, <2>1, ContentsTyped
    <3> QED BY <2>1, <3>1
  <2>3. \A t \in k : f[t] = cell[t]
    BY <1>6, <2>2
  <2> HIDE DEF f
  <2>4. f = cell
    BY <2>2, <2>3
  <2> QED BY <2>4 DEF f
<1>13. ASSUME NEW x \in A
       PROVE  Contents(C1, L1)[x] = Contents(C, L)[x]
  <2>1. x \in B /\ L1[x] = L[x]
    BY <1>8
  <2>2. ASSUME NEW t \in L[x].archetype
        PROVE  C1[L[x].archetype][t][L1[x].row] = C[L[x].archetype][t][L[x].row]
    <3>1. L[x].archetype \in Archetypes /\ L[x].row \in 1..Len(R[L[x].archetype])
      BY PlaceIs
    <3>2. CASE L[x].archetype = k
      BY <1>6, <2>1, <2>2, <3>1, <3>2
    <3>3. CASE L[x].archetype # k
      BY <1>5, <2>1, <3>1, <3>3
    <3> QED BY <3>2, <3>3
  <2> HIDE DEF B
  <2> QED BY <1>11, <2>1, <2>2, SameCells
<1> QED BY <1>11, <1>12, <1>13
-----------------------------------------------------------------------------
(* The operations on storage.                                              *)

Stored == Storage(rows, columns, locations, alive)

Held == Contents(columns, locations)

(* After the step e's cells are `new', and everyone else's are as before.  *)
Becomes(e, new) ==
    /\ Stored'
    /\ Held'[e] = new
    /\ \A x \in alive \ {e} : Held'[x] = Held[x]

LEMMA MoveKeeps ==
    ASSUME Stored, NEW e \in alive, alive' = alive,
           NEW target \in Archetypes, target # ComponentsOf(e),
           NEW cell \in [target -> Cells], MoveTo(e, target, cell)
    PROVE  Becomes(e, cell)
<1> DEFINE B == alive \ {e}
<1>1. PICK R1 : R1 = RowsWithout(e)
  OBVIOUS
<1>2. PICK C1 : C1 = ColumnsWithout(e)
  OBVIOUS
<1>3. PICK L1 : L1 = [x \in B |-> LocationsWithout(e)[x]]
  OBVIOUS
<1>4. /\ rows \in [Archetypes -> Seq(Entities)]
      /\ DOMAIN columns = Archetypes
      /\ \A q \in Archetypes : columns[q] \in [q -> Seq(Cells)]
      /\ locations \in [alive -> Places] /\ alive \subseteq Entities
  BY DEF Stored, Storage
<1>5. Without(rows, columns, locations, alive, e, ComponentsOf(e), locations[e].row,
              LastOf(e), R1, C1, L1)
  BY <1>1, <1>2, <1>3 DEF Without, RowsWithout, ColumnsWithout, LocationsWithout,
                          LastOf, ComponentsOf
<1>6. /\ Storage(R1, C1, L1, B)
      /\ \A x \in B : Contents(C1, L1)[x] = Held[x]
  BY <1>5, RemovalKeeps DEF Stored, Held
<1>7. R1[target] = rows[target]
  BY <1>1, <1>4 DEF RowsWithout
<1>8. DOMAIN LocationsWithout(e) = alive
  BY <1>4 DEF LocationsWithout
<1>9. With(R1, C1, L1, B, e, target, cell, rows', columns', locations')
  <2>1. rows' = [R1 EXCEPT ![target] = Append(@, e)]
    BY <1>1 DEF MoveTo
  <2>2. columns' = [C1 EXCEPT ![target] = [t \in target |-> Append(@[t], cell[t])]]
    BY <1>2 DEF MoveTo
  <2>3. DOMAIN C1 = Archetypes
    BY <1>6 DEF Storage
  <2>4. /\ DOMAIN columns' = DOMAIN C1
        /\ columns'[target] = [t \in target |-> Append(C1[target][t], cell[t])]
        /\ \A q \in Archetypes : q # target => columns'[q] = C1[q]
    BY <2>2, <2>3
  <2>5. locations' = [x \in B \union {e} |->
                        IF x = e THEN [archetype |-> target, row |-> Len(R1[target]) + 1]
                        ELSE L1[x]]
    <3> DEFINE M == LocationsWithout(e)
               there == [archetype |-> target, row |-> Len(rows[target]) + 1]
    <3>1. locations' = [M EXCEPT ![e] = there]
      BY DEF MoveTo
    <3>2. DOMAIN M = B \union {e} /\ L1 = [x \in B |-> M[x]]
      BY <1>3, <1>8
    <3>3. there = [archetype |-> target, row |-> Len(R1[target]) + 1]
      BY <1>7
    <3> HIDE DEF M, there
    <3> QED BY <3>1, <3>2, <3>3
  <2> QED BY <2>1, <2>4, <2>5 DEF With
<1>10. e \in Entities /\ e \notin B /\ B \union {e} = alive
  BY <1>4
<1> HIDE DEF B
<1>11. PICK R2, C2, L2 : R2 = rows' /\ C2 = columns' /\ L2 = locations'
  OBVIOUS
<1>12. With(R1, C1, L1, B, e, target, cell, R2, C2, L2)
  BY <1>9, <1>11
<1>13. /\ Storage(R2, C2, L2, B \union {e})
       /\ Contents(C2, L2)[e] = cell
       /\ \A x \in B : Contents(C2, L2)[x] = Contents(C1, L1)[x]
  BY <1>6, <1>10, <1>12, AppendKeeps
<1>14. /\ Storage(rows', columns', locations', alive')
       /\ Contents(columns', locations')[e] = cell
       /\ \A x \in B : Contents(columns', locations')[x] = Contents(C1, L1)[x]
  BY <1>10, <1>11, <1>13
<1> QED BY <1>6, <1>14 DEF Becomes, Stored, Held, B
Nothing == [t \in {} |-> Origin]

(* A new entity has no components.                                         *)
LEMMA PlaceKeeps ==
    ASSUME Stored, NEW e \in Entities, e \notin alive, alive' = alive \union {e},
           Place(e)
    PROVE  Becomes(e, Nothing)
<1>1. /\ rows \in [Archetypes -> Seq(Entities)]
      /\ DOMAIN columns = Archetypes
      /\ \A q \in Archetypes : columns[q] \in [q -> Seq(Cells)]
      /\ locations \in [alive -> Places] /\ alive \subseteq Entities
  BY DEF Stored, Storage
<1>2. {} \in Archetypes /\ Nothing \in [{} -> Cells]
  BY DEF Archetypes, Nothing
<1>3. columns[{}] = [t \in {} |-> Append(columns[{}][t], Nothing[t])]
  <2>1. columns[{}] \in [{} -> Seq(Cells)]
    BY <1>1, <1>2
  <2> QED BY <2>1
<1>4. With(rows, columns, locations, alive, e, {}, Nothing, rows', columns', locations')
  <2>1. columns' = columns
    BY DEF Place
  <2>2. /\ DOMAIN columns' = DOMAIN columns
        /\ columns'[{}] = [t \in {} |-> Append(columns[{}][t], Nothing[t])]
        /\ \A q \in Archetypes : q # {} => columns'[q] = columns[q]
    BY <1>3, <2>1
  <2>3. DOMAIN locations = alive
    BY <1>1
  <2>4. rows' = [rows EXCEPT ![{}] = Append(@, e)]
    BY DEF Place
  <2>5. locations' = [x \in alive \union {e} |->
                       IF x = e THEN [archetype |-> {}, row |-> Len(rows[{}]) + 1]
                       ELSE locations[x]]
    BY <2>3 DEF Place
  <2> QED BY <2>2, <2>4, <2>5 DEF With
<1>5. PICK R2, C2, L2, k : R2 = rows' /\ C2 = columns' /\ L2 = locations' /\ k = {}
  OBVIOUS
<1>6. With(rows, columns, locations, alive, e, k, Nothing, R2, C2, L2)
  BY <1>4, <1>5
<1>7. /\ Storage(R2, C2, L2, alive \union {e})
      /\ Contents(C2, L2)[e] = Nothing
      /\ \A x \in alive : Contents(C2, L2)[x] = Contents(columns, locations)[x]
  <2>1. k \in Archetypes /\ Nothing \in [k -> Cells]
    BY <1>2, <1>5
  <2>2. Storage(rows, columns, locations, alive)
    BY DEF Stored
  <2> QED BY <1>6, <2>1, <2>2, AppendKeeps
<1> QED BY <1>5, <1>7 DEF Becomes, Stored, Held

LEMMA WithdrawKeeps ==
    ASSUME Stored, NEW e \in alive, alive' = alive \ {e}, Withdraw(e)
    PROVE  /\ Stored'
           /\ \A x \in alive' : Held'[x] = Held[x]
<1>1. PICK R2, C2, L2 : R2 = rows' /\ C2 = columns' /\ L2 = locations'
  OBVIOUS
<1>2. DOMAIN locations = alive
  BY DEF Stored, Storage
<1>3. Without(rows, columns, locations, alive, e, ComponentsOf(e), locations[e].row,
              LastOf(e), R2, C2, L2)
  BY <1>1, <1>2 DEF Without, Withdraw, RowsWithout, ColumnsWithout, LocationsWithout,
                    LastOf, ComponentsOf
<1>4. /\ Storage(R2, C2, L2, alive \ {e})
      /\ \A x \in alive \ {e} : Contents(C2, L2)[x] = Contents(columns, locations)[x]
  BY <1>3, RemovalKeeps DEF Stored
<1> QED BY <1>1, <1>4 DEF Stored, Held

(* What e has, by its place.                                               *)
LEMMA HeldIs ==
    ASSUME Stored
    PROVE  /\ alive \subseteq Entities
           /\ DOMAIN Held = alive
           /\ \A e \in alive :
                 /\ ComponentsOf(e) \in Archetypes
                 /\ Held[e] \in [ComponentsOf(e) -> Cells]
                 /\ \A t \in ComponentsOf(e) : Held[e][t] = CellOf(e, t)
<1>1. /\ DOMAIN locations = alive
      /\ \A x \in alive : Held[x] \in [locations[x].archetype -> Cells]
      /\ \A x \in alive : \A t \in locations[x].archetype :
            Held[x][t] = columns[locations[x].archetype][t][locations[x].row]
  BY ContentsTyped DEF Stored, Held
<1>2. \A e \in alive : locations[e].archetype \in Archetypes
  BY PlaceIs DEF Stored
<1>3. alive \subseteq Entities
  BY DEF Stored, Storage
<1>4. DOMAIN Held = alive
  BY <1>1 DEF Held, Contents
<1>5. ASSUME NEW e \in alive
      PROVE  /\ ComponentsOf(e) \in Archetypes
             /\ Held[e] \in [ComponentsOf(e) -> Cells]
             /\ \A t \in ComponentsOf(e) : Held[e][t] = CellOf(e, t)
  BY <1>1, <1>2 DEF ComponentsOf, CellOf
<1> QED BY <1>3, <1>4, <1>5
(* A cell overwritten in place.                                            *)
Rewritten(e, t, v, at) ==
    [Held[e] EXCEPT ![t] = [value |-> v, added |-> @.added, changed |-> at]]

LEMMA UpdateKeeps ==
    ASSUME Stored, NEW e \in alive, alive' = alive, NEW t \in ComponentsOf(e),
           NEW v \in Values, NEW at \in Cursors, UpdateComponent(e, t, v, at)
    PROVE  Becomes(e, Rewritten(e, t, v, at))
<1> DEFINE k == ComponentsOf(e)
           i == locations[e].row
           s == columns[k][t]
           d == [value |-> v, added |-> s[i].added, changed |-> at]
<1>1. /\ rows \in [Archetypes -> Seq(Entities)]
      /\ DOMAIN columns = Archetypes
      /\ \A q \in Archetypes : columns[q] \in [q -> Seq(Cells)]
      /\ \A q \in Archetypes : \A u \in q : Len(columns[q][u]) = Len(rows[q])
      /\ rows' = rows /\ locations' = locations
  BY DEF Stored, Storage, UpdateComponent
<1>2. /\ k \in Archetypes /\ i \in 1..Len(rows[k]) /\ Len(rows[k]) \in Nat
      /\ locations[e].archetype = k
  BY PlaceIs DEF Stored, ComponentsOf
<1>3. s \in Seq(Cells) /\ i \in 1..Len(s)
  BY <1>1, <1>2
<1>4. s[i] \in Cells /\ d \in Cells
  <2>1. s[i] \in Cells
    BY <1>3
  <2> QED BY <2>1 DEF Cells
<1>5. columns' = [columns EXCEPT ![k][t][i] = d]
  BY Zenon DEF UpdateComponent
<1>6. PICK s1 : s1 = [s EXCEPT ![i] = d]
  OBVIOUS
<1>7. /\ s1 \in Seq(Cells) /\ Len(s1) = Len(s) /\ s1[i] = d
      /\ \A j \in 1..Len(s) : j # i => s1[j] = s[j]
  <2> HIDE DEF s, d
  <2> QED BY <1>3, <1>4, <1>6
<1>8. /\ DOMAIN columns' = Archetypes
      /\ \A q \in Archetypes : q # k => columns'[q] = columns[q]
      /\ columns'[k] = [columns[k] EXCEPT ![t] = s1]
  <2>1. columns' = [columns EXCEPT ![k] = [columns[k] EXCEPT ![t] = s1]]
    <3> HIDE DEF d, k
    <3> QED BY <1>5, <1>6
  <2> HIDE DEF k, s, d
  <2> QED BY <1>1, <1>2, <2>1
<1>9. /\ columns'[k] \in [k -> Seq(Cells)]
      /\ columns'[k][t] = s1
      /\ \A u \in k : u # t => columns'[k][u] = columns[k][u]
  <2>1. columns[k] \in [k -> Seq(Cells)] /\ t \in k
    BY <1>1, <1>2
  <2> HIDE DEF k, s, d
  <2> QED BY <1>7, <1>8, <2>1
<1>10. ASSUME NEW q \in Archetypes
       PROVE  /\ columns'[q] \in [q -> Seq(Cells)]
              /\ \A u \in q : Len(columns'[q][u]) = Len(rows[q])
  <2>1. CASE q # k
    BY <1>1, <1>8, <2>1, Zenon
  <2>2. CASE q = k
    <3>1. ASSUME NEW u \in k PROVE Len(columns'[k][u]) = Len(rows[k])
      <4>1. Len(columns[k][u]) = Len(rows[k])
        BY <1>1, <1>2
      <4> HIDE DEF k
      <4> QED BY <1>7, <1>9, <4>1
    <3> QED BY <1>9, <2>2, <3>1
  <2> QED BY <2>1, <2>2
<1>11. Stored'
  BY <1>1, <1>8, <1>10 DEF Stored, Storage
<1>12. ASSUME NEW x \in alive \ {e} PROVE Held'[x] = Held[x]
  <2>1. x \in alive /\ locations[x].archetype \in Archetypes
    BY PlaceIs DEF Stored
  <2>2. locations[x].archetype = k => locations[x].row # i
    BY <1>2, <2>1, PlaceIs DEF Stored
  <2>3. ASSUME NEW u \in locations[x].archetype
        PROVE  columns'[locations[x].archetype][u][locations[x].row]
                   = columns[locations[x].archetype][u][locations[x].row]
    <3>1. CASE locations[x].archetype # k
      BY <1>8, <2>1, <3>1
    <3>2. CASE locations[x].archetype = k /\ u # t
      BY <1>9, <2>3, <3>2
    <3>3. CASE locations[x].archetype = k /\ u = t
      <4>1. locations[x].row \in 1..Len(s)
        BY <1>1, <1>2, <2>1, <3>3, PlaceIs DEF Stored
      <4> QED BY <1>7, <1>9, <2>2, <3>3, <4>1
    <3> QED BY <3>1, <3>2, <3>3
  <2>4. PICK R2, C2, L2, A2 : R2 = rows' /\ C2 = columns' /\ L2 = locations' /\ A2 = alive'
    OBVIOUS
  <2>5. /\ Storage(R2, C2, L2, A2) /\ x \in A2
        /\ L2[x].archetype = locations[x].archetype
        /\ \A u \in locations[x].archetype :
              C2[locations[x].archetype][u][L2[x].row]
                  = columns[locations[x].archetype][u][locations[x].row]
    BY <1>1, <1>11, <2>1, <2>3, <2>4 DEF Stored
  <2>6. Storage(rows, columns, locations, alive)
    BY DEF Stored
  <2>7. Contents(C2, L2)[x] = Contents(columns, locations)[x]
    BY <2>1, <2>5, <2>6, SameCells
  <2> QED BY <2>4, <2>7 DEF Held
<1>13. Held'[e] = Rewritten(e, t, v, at)
  <2>1. /\ Held[e] \in [k -> Cells]
        /\ \A u \in k : Held[e][u] = columns[k][u][i]
    BY <1>2, HeldIs DEF CellOf
  <2>2. /\ Held'[e] \in [k -> Cells]
        /\ \A u \in k : Held'[e][u] = columns'[k][u][i]
    <3>1. PICK R2, C2, L2, A2 : R2 = rows' /\ C2 = columns' /\ L2 = locations' /\ A2 = alive'
      OBVIOUS
    <3>2. Storage(R2, C2, L2, A2) /\ e \in A2 /\ L2[e].archetype = k /\ L2[e].row = i
      BY <1>1, <1>2, <1>11, <3>1 DEF Stored
    <3>3. /\ Contents(C2, L2)[e] \in [L2[e].archetype -> Cells]
          /\ \A u \in L2[e].archetype :
                Contents(C2, L2)[e][u] = C2[L2[e].archetype][u][L2[e].row]
      BY <3>2, ContentsTyped
    <3> QED BY <3>1, <3>2, <3>3 DEF Held
  <2>3. Rewritten(e, t, v, at) = [Held[e] EXCEPT ![t] = d]
    BY <2>1 DEF Rewritten
  <2>4. t \in k
    OBVIOUS
  <2>5. ASSUME NEW u \in k PROVE Held'[e][u] = [Held[e] EXCEPT ![t] = d][u]
    <3>1. CASE u = t
      BY <1>7, <1>9, <2>1, <2>2, <2>4, <3>1
    <3>2. CASE u # t
      BY <1>9, <2>1, <2>2, <2>4, <3>2, SMTT(30)
    <3> QED BY <3>1, <3>2
  <2>6. [Held[e] EXCEPT ![t] = d] \in [k -> Cells]
    BY <1>4, <2>1
  <2> HIDE DEF k, d
  <2> QED BY <2>2, <2>3, <2>5, <2>6
<1> QED BY <1>11, <1>12, <1>13 DEF Becomes
(* e's cells with component t put or taken.                                *)
PutIn(e, t, v, at) ==
    [u \in ComponentsOf(e) \union {t} |->
        IF u # t THEN Held[e][u]
        ELSE [value |-> v, changed |-> at,
              added |-> IF t \in ComponentsOf(e) THEN Held[e][t].added ELSE at]]

TakenFrom(e, t) == [u \in ComponentsOf(e) \ {t} |-> Held[e][u]]

LEMMA PutKeeps ==
    ASSUME Stored, NEW e \in alive, alive' = alive, NEW t \in Types,
           NEW v \in Values, NEW at \in Cursors,
           IF t \in ComponentsOf(e) THEN UpdateComponent(e, t, v, at)
           ELSE AddComponent(e, t, v, at)
    PROVE  Becomes(e, PutIn(e, t, v, at))
<1> DEFINE k == ComponentsOf(e)
           new == PutIn(e, t, v, at)
<1>1. /\ k \in Archetypes /\ Held[e] \in [k -> Cells]
      /\ \A u \in k : Held[e][u] = CellOf(e, u)
  BY HeldIs
<1>2. CASE t \in k
  <2>1. Becomes(e, Rewritten(e, t, v, at))
    BY <1>2, UpdateKeeps
  <2>2. Rewritten(e, t, v, at) = new
    <3>1. k \union {t} = k
      BY <1>2
    <3> HIDE DEF k
    <3>2. ASSUME NEW u \in k PROVE Rewritten(e, t, v, at)[u] = new[u]
      BY <1>1, <1>2 DEF Rewritten, PutIn, k
    <3>3. DOMAIN Rewritten(e, t, v, at) = k /\ DOMAIN new = k
      BY <1>1, <3>1 DEF Rewritten, PutIn, k
    <3>4. /\ Rewritten(e, t, v, at) = [u \in k |-> Rewritten(e, t, v, at)[u]]
          /\ new = [u \in k |-> new[u]]
      BY <3>3 DEF Rewritten, PutIn
    <3> HIDE DEF new
    <3> QED BY <3>2, <3>4
  <2> QED BY <2>1, <2>2
<1>3. CASE t \notin k
  <2> DEFINE target == k \union {t}
             cell == [u \in target |->
                        IF u = t THEN [value |-> v, added |-> at, changed |-> at]
                        ELSE CellOf(e, u)]
  <2>1. target \in Archetypes /\ target # k
    BY <1>1, <1>3 DEF Archetypes
  <2>2. \A u \in target : cell[u] \in Cells /\ cell[u] = new[u]
    <3>1. [value |-> v, added |-> at, changed |-> at] \in Cells
      BY DEF Cells
    <3>2. \A u \in k : CellOf(e, u) \in Cells
      BY <1>1
    <3> QED BY <1>1, <1>3, <3>1, <3>2 DEF PutIn
  <2>3. cell \in [target -> Cells]
    BY <2>2
  <2>4. MoveTo(e, target, cell)
    BY <1>3 DEF AddComponent
  <2>5. new = [u \in target |-> new[u]]
    BY DEF PutIn
  <2>6. cell = new
    <3>1. cell = [u \in target |-> cell[u]]
      OBVIOUS
    <3> HIDE DEF cell, new, target
    <3> QED BY <2>2, <2>5, <3>1
  <2>7. PICK q, c : q = target /\ c = cell
    OBVIOUS
  <2>8. q \in Archetypes /\ q # ComponentsOf(e) /\ c \in [q -> Cells] /\ MoveTo(e, q, c)
    BY <2>1, <2>3, <2>4, <2>7
  <2>9. Becomes(e, c)
    BY <2>8, MoveKeeps
  <2> QED BY <2>6, <2>7, <2>9
<1> QED BY <1>2, <1>3

LEMMA TakeKeeps ==
    ASSUME Stored, NEW e \in alive, alive' = alive, NEW t \in ComponentsOf(e),
           RemoveComponent(e, t)
    PROVE  Becomes(e, TakenFrom(e, t))
<1> DEFINE k == ComponentsOf(e)
           target == k \ {t}
           cell == [u \in target |-> CellOf(e, u)]
           new == TakenFrom(e, t)
<1>1. /\ k \in Archetypes /\ Held[e] \in [k -> Cells]
      /\ \A u \in k : Held[e][u] = CellOf(e, u)
  BY HeldIs
<1>2. target \in Archetypes /\ target # k
  BY <1>1 DEF Archetypes
<1>3. cell \in [target -> Cells]
  BY <1>1
<1>4. MoveTo(e, target, cell)
  BY DEF RemoveComponent
<1>5. cell = new
  <2>1. \A u \in target : CellOf(e, u) = Held[e][u]
    BY <1>1
  <2> QED BY <2>1 DEF TakenFrom
<1>6. PICK q, c : q = target /\ c = cell
  OBVIOUS
<1>7. q \in Archetypes /\ q # ComponentsOf(e) /\ c \in [q -> Cells] /\ MoveTo(e, q, c)
  BY <1>2, <1>3, <1>4, <1>6
<1>8. Becomes(e, c)
  BY <1>7, MoveKeeps
<1> QED BY <1>5, <1>6, <1>8
(* Component u of x is, before and after the step, the same.               *)
SameFor(x, u) ==
    /\ u \in ComponentsOf(x)' <=> u \in ComponentsOf(x)
    /\ u \in ComponentsOf(x) => CellOf(x, u)' = CellOf(x, u)

(* The step is about component t of e.                                     *)
Only(e, t) ==
    /\ Stored'
    /\ alive' = alive
    /\ \A x \in alive : \A u \in Types : (x # e \/ u # t) => SameFor(x, u)

(* The cells after a step, by their places.                                *)
LEMMA HeldNext ==
    ASSUME Stored'
    PROVE  \A x \in alive' :
              /\ ComponentsOf(x)' \in Archetypes
              /\ Held'[x] \in [ComponentsOf(x)' -> Cells]
              /\ \A u \in ComponentsOf(x)' : Held'[x][u] = CellOf(x, u)'
<1>1. PICK R2, C2, L2, A2 : R2 = rows' /\ C2 = columns' /\ L2 = locations' /\ A2 = alive'
  OBVIOUS
<1>2. Storage(R2, C2, L2, A2)
  BY <1>1 DEF Stored
<1>3. ASSUME NEW x \in A2
      PROVE  /\ L2[x].archetype \in Archetypes
             /\ Contents(C2, L2)[x] \in [L2[x].archetype -> Cells]
             /\ \A u \in L2[x].archetype :
                   Contents(C2, L2)[x][u] = C2[L2[x].archetype][u][L2[x].row]
  BY <1>2, ContentsTyped, PlaceIs
<1> QED BY <1>1, <1>3 DEF Held, ComponentsOf, CellOf

(* Who keeps its cells keeps each of them.                                 *)
LEMMA SameHeld ==
    ASSUME Stored, Stored', NEW x \in alive, x \in alive', Held'[x] = Held[x]
    PROVE  /\ ComponentsOf(x)' = ComponentsOf(x)
           /\ \A u \in Types : SameFor(x, u)
<1>1. /\ Held[x] \in [ComponentsOf(x) -> Cells]
      /\ \A u \in ComponentsOf(x) : Held[x][u] = CellOf(x, u)
  BY HeldIs
<1>2. /\ Held'[x] \in [ComponentsOf(x)' -> Cells]
      /\ \A u \in ComponentsOf(x)' : Held'[x][u] = CellOf(x, u)'
  BY HeldNext
<1>3. ComponentsOf(x)' = ComponentsOf(x)
  <2>1. DOMAIN Held[x] = ComponentsOf(x) /\ DOMAIN Held'[x] = ComponentsOf(x)'
    BY <1>1, <1>2
  <2> QED BY <2>1
<1>4. ASSUME NEW u \in ComponentsOf(x) PROVE CellOf(x, u)' = CellOf(x, u)
  BY <1>1, <1>2, <1>3
<1> QED BY <1>3, <1>4 DEF SameFor

LEMMA PutOnly ==
    ASSUME Stored, NEW e \in alive, alive' = alive, NEW t \in Types,
           NEW v \in Values, NEW at \in Cursors,
           IF t \in ComponentsOf(e) THEN UpdateComponent(e, t, v, at)
           ELSE AddComponent(e, t, v, at)
    PROVE  /\ Only(e, t)
           /\ Held'[e] = PutIn(e, t, v, at)
           /\ ComponentsOf(e)' = ComponentsOf(e) \union {t}
           /\ CellOf(e, t)'.changed = at
           /\ CellOf(e, t)'.added = IF t \in ComponentsOf(e) THEN CellOf(e, t).added ELSE at
<1> DEFINE k == ComponentsOf(e)
           new == PutIn(e, t, v, at)
<1>1. Becomes(e, new)
  BY PutKeeps
<1>2. /\ Held[e] \in [k -> Cells]
      /\ \A u \in k : Held[e][u] = CellOf(e, u)
  BY HeldIs
<1>3. /\ Held'[e] \in [ComponentsOf(e)' -> Cells]
      /\ \A u \in ComponentsOf(e)' : Held'[e][u] = CellOf(e, u)'
  BY <1>1, HeldNext DEF Becomes
<1>4. Held'[e] = new
  BY <1>1 DEF Becomes
<1>5. ComponentsOf(e)' = k \union {t}
  <2>1. DOMAIN Held'[e] = ComponentsOf(e)' /\ DOMAIN new = k \union {t}
    BY <1>3 DEF PutIn
  <2> QED BY <1>4, <2>1
<1>6. CellOf(e, t)' = [value |-> v, changed |-> at,
                       added |-> IF t \in k THEN Held[e][t].added ELSE at]
  <2>1. t \in k \union {t}
    OBVIOUS
  <2>2. CellOf(e, t)' = new[t]
    BY <1>3, <1>4, <1>5, <2>1
  <2> QED BY <2>1, <2>2 DEF PutIn
<1>7. ASSUME NEW u \in Types, u # t PROVE SameFor(e, u)
  <2>1. ASSUME u \in k PROVE CellOf(e, u)' = CellOf(e, u)
    <3>1. CellOf(e, u)' = new[u]
      BY <1>3, <1>4, <1>5, <2>1
    <3>2. new[u] = Held[e][u]
      BY <1>7, <2>1 DEF PutIn
    <3> QED BY <1>2, <2>1, <3>1, <3>2
  <2> QED BY <1>5, <1>7, <2>1 DEF SameFor
<1>8. ASSUME NEW x \in alive, x # e, NEW u \in Types PROVE SameFor(x, u)
  BY <1>1, <1>8, SameHeld DEF Becomes
<1>9. Only(e, t)
  BY <1>1, <1>7, <1>8 DEF Becomes, Only
<1> QED BY <1>2, <1>4, <1>5, <1>6, <1>9

LEMMA TakeOnly ==
    ASSUME Stored, NEW e \in alive, alive' = alive, NEW t \in ComponentsOf(e),
           RemoveComponent(e, t)
    PROVE  /\ Only(e, t)
           /\ Held'[e] = TakenFrom(e, t)
           /\ ComponentsOf(e)' = ComponentsOf(e) \ {t}
<1> DEFINE k == ComponentsOf(e)
           new == TakenFrom(e, t)
<1>1. Becomes(e, new)
  BY TakeKeeps
<1>2. /\ Held[e] \in [k -> Cells]
      /\ \A u \in k : Held[e][u] = CellOf(e, u)
  BY HeldIs
<1>3. /\ Held'[e] \in [ComponentsOf(e)' -> Cells]
      /\ \A u \in ComponentsOf(e)' : Held'[e][u] = CellOf(e, u)'
  BY <1>1, HeldNext DEF Becomes
<1>4. Held'[e] = new
  BY <1>1 DEF Becomes
<1>5. ComponentsOf(e)' = k \ {t}
  <2>1. DOMAIN Held'[e] = ComponentsOf(e)' /\ DOMAIN new = k \ {t}
    BY <1>3 DEF TakenFrom
  <2> QED BY <1>4, <2>1
<1>6. ASSUME NEW u \in Types, u # t PROVE SameFor(e, u)
  <2>1. ASSUME u \in k PROVE CellOf(e, u)' = CellOf(e, u)
    <3>1. CellOf(e, u)' = new[u]
      BY <1>3, <1>4, <1>5, <1>6, <2>1
    <3>2. new[u] = Held[e][u]
      BY <1>6, <2>1 DEF TakenFrom
    <3> QED BY <1>2, <2>1, <3>1, <3>2
  <2> QED BY <1>5, <1>6, <2>1 DEF SameFor
<1>7. ASSUME NEW x \in alive, x # e, NEW u \in Types PROVE SameFor(x, u)
  BY <1>1, <1>7, SameHeld DEF Becomes
<1>8. Only(e, t)
  BY <1>1, <1>6, <1>7 DEF Becomes, Only
<1> QED BY <1>4, <1>5, <1>8

LEMMA StoredSame ==
    ASSUME Stored, UNCHANGED storageVars
    PROVE  /\ Stored'
           /\ \A x \in alive' : x \in alive /\ ComponentsOf(x)' = ComponentsOf(x)
           /\ \A x \in alive : \A u \in Types : SameFor(x, u)
           /\ Held' = Held
BY DEF storageVars, Stored, Held, SameFor, ComponentsOf, CellOf
-----------------------------------------------------------------------------
(* The change cursor and the entities handed out.                          *)

LEMMA NextIs ==
    ASSUME NEW c \in Cursors, ~ Exhausted(c)
    PROVE  NextCursor(c) \in Cursors /\ Before(c, NextCursor(c))
<1> USE CursorAssumption
<1>1. c.epoch \in 0..EpochMax /\ c.tick \in 0..TickMax
  BY DEF Cursors
<1>2. CASE c.tick = TickMax
  <2>1. c.epoch + 1 \in 0..EpochMax /\ 0 \in 0..TickMax /\ c.epoch < c.epoch + 1
    BY <1>1, <1>2 DEF Exhausted
  <2>2. NextCursor(c) = [epoch |-> c.epoch + 1, tick |-> 0]
    BY <1>2 DEF NextCursor
  <2> QED BY <2>1, <2>2 DEF Cursors, Before
<1>3. CASE c.tick # TickMax
  <2>1. c.tick + 1 \in 0..TickMax /\ c.tick < c.tick + 1
    BY <1>1, <1>3
  <2>2. NextCursor(c) = [epoch |-> c.epoch, tick |-> c.tick + 1]
    BY <1>3 DEF NextCursor
  <2> QED BY <1>1, <2>1, <2>2 DEF Cursors, Before
<1> QED BY <1>2, <1>3

LEMMA Later ==
    ASSUME NEW a \in Cursors, NEW b \in Cursors, NEW c \in Cursors, NotAfter(a, b)
    PROVE  /\ Before(b, c) => Before(a, c) /\ NotAfter(a, c)
           /\ NotAfter(b, c) => NotAfter(a, c)
BY DEF Cursors, NotAfter, Before

InUse == {e \in Entities : issued[e] > 0 /\ e \notin freed}

LEMMA AllocateFresh ==
    ASSUME Inductive, NEW e \in Entities, Allocate(e)
    PROVE  /\ Inductive'
           /\ e \notin InUse
           /\ InUse' = InUse \union {e}
<1>1. Inductive'
  BY AllocateKeeps
<1>2. issued' = [issued EXCEPT ![e] = @ + 1] /\ freed' = freed
  BY DEF Allocate
<1>3. issued \in [Entities -> Nat]
  BY DEF Inductive, AllocatorTypeOK
<1>4. issued[e] = 0
  <2>1. issued'[e] = IF HandedOut(e)' THEN 1 ELSE 0
    BY <1>1 DEF Inductive, History
  <2>2. issued'[e] = issued[e] + 1 /\ issued[e] \in Nat
    BY <1>2, <1>3
  <2> QED BY <2>1, <2>2
<1>5. e \notin freed
  <2>1. issued[e] = (IF HandedOut(e) THEN 1 ELSE 0) /\ (e \in freed <=> WasFreed(e))
    BY DEF Inductive, History
  <2> QED BY <1>4, <2>1 DEF WasFreed, HandedOut
<1>6. \A x \in Entities : x # e => issued'[x] = issued[x]
  BY <1>2, <1>3
<1>7. issued'[e] = 1
  BY <1>2, <1>3, <1>4
<1>8. \A x \in Entities :
         (issued'[x] > 0 /\ x \notin freed') <=> (x = e \/ (issued[x] > 0 /\ x \notin freed))
  BY <1>2, <1>5, <1>6, <1>7
<1>9. InUse' = InUse \union {e}
  BY <1>8 DEF InUse
<1> QED BY <1>1, <1>4, <1>9 DEF InUse

LEMMA FreeLeaves ==
    ASSUME Inductive, NEW e \in Entities, Free(e)
    PROVE  Inductive' /\ InUse' = InUse \ {e}
<1>1. issued' = issued /\ freed' = freed \union {e}
  BY DEF Free
<1> QED BY <1>1, FreeKeeps DEF InUse

LEMMA SameInUse ==
    ASSUME Inductive, UNCHANGED allocatorVars
    PROVE  Inductive' /\ InUse' = InUse
<1>1. issued' = issued /\ freed' = freed
  BY DEF allocatorVars
<1> QED BY <1>1, StutterKeeps DEF InUse
-----------------------------------------------------------------------------
(* The invariant.                                                          *)

Removals == [entity : Entities, tick : Cursors]
Steps == [op : {"insert", "remove", "record"}, type : Types]
Indexed == [dirty : BOOLEAN, entries : SUBSET (Entities \X Values)]

Typed ==
    /\ cursor \in Cursors
    /\ typeTick \in [Types -> Cursors]
    /\ removed \in [Types -> Seq(Removals)]
    /\ index \in [Types -> Indexed]
    /\ pending \in Seq(Steps)
    /\ panicked \in BOOLEAN
    /\ lost \subseteq Types \X Entities

Finite == \A e \in alive : IsFiniteSet(ComponentsOf(e))

(* What is pending is one operation, and what it needs is still there.     *)
Operation ==
    /\ \A i, j \in DOMAIN pending : pending[i].op = pending[j].op
    /\ \A i \in DOMAIN pending :
          /\ pending[i].op = "insert" => subject \in alive
          /\ pending[i].op = "remove" =>
                /\ subject \in alive
                /\ pending[i].type \in ComponentsOf(subject)
                /\ \A j \in DOMAIN pending : pending[i].type = pending[j].type => i = j
          /\ pending[i].op = "record" =>
                /\ subject \in Entities \ alive
                /\ <<pending[i].type, subject>> \in lost

Marks ==
    /\ \A t \in Types : NotAfter(typeTick[t], cursor)
    /\ \A e \in alive : \A t \in ComponentsOf(e) :
          /\ NotAfter(CellOf(e, t).changed, typeTick[t])
          /\ NotAfter(CellOf(e, t).added, CellOf(e, t).changed)

(* The removals of component t that the operation has not recorded yet.    *)
Waiting(t) == {i \in DOMAIN pending : pending[i] = [op |-> "record", type |-> t]}

Window ==
    /\ \A t \in Types : \A i \in DOMAIN removed[t] :
          /\ <<t, removed[t][i].entity>> \in lost
          /\ NotAfter(removed[t][i].tick, cursor)
          /\ \A j \in DOMAIN removed[t] :
                i < j => Before(removed[t][i].tick, removed[t][j].tick)
    /\ ~ panicked =>
          \A t \in Types, e \in Entities :
              <<t, e>> \in lost =>
                  \/ \E i \in DOMAIN removed[t] : removed[t][i].entity = e
                  \/ e = subject /\ Waiting(t) # {}

Entries(t) == {<<e, CellOf(e, t).value>> : e \in {x \in alive : t \in ComponentsOf(x)}}

Lookups ==
    ~ panicked =>
        \A t \in Types : \/ index[t].dirty
                         \/ Waiting(t) # {}
                         \/ index[t].entries = Entries(t)

WorldInductive ==
    /\ Inductive
    /\ Stored
    /\ alive = InUse
    /\ Typed
    /\ Finite
    /\ Operation
    /\ Marks
    /\ Window
    /\ Lookups

-----------------------------------------------------------------------------
(* Pieces of the steps.                                                    *)

LEMMA RecordIs ==
    ASSUME Typed, NEW t \in Types, ~ Exhausted(cursor), RecordChange(t)
    PROVE  /\ cursor' \in Cursors
           /\ Before(cursor, cursor')
           /\ typeTick' \in [Types -> Cursors]
           /\ typeTick'[t] = cursor'
           /\ \A u \in Types : u # t => typeTick'[u] = typeTick[u]
           /\ index' \in [Types -> Indexed]
           /\ index'[t].dirty
           /\ \A u \in Types : u # t => index'[u] = index[u]
<1>1. cursor' \in Cursors /\ Before(cursor, cursor')
  BY NextIs DEF Typed, RecordChange
<1>2. typeTick' = [typeTick EXCEPT ![t] = cursor']
  BY DEF RecordChange
<1>3. index' = [index EXCEPT ![t].dirty = TRUE]
  BY DEF RecordChange, MarkIndexes
<1>4. index[t] \in Indexed /\ DOMAIN index = Types
  BY DEF Typed
<1>5. /\ [index[t] EXCEPT !.dirty = TRUE] \in Indexed
      /\ [index[t] EXCEPT !.dirty = TRUE].dirty
  BY <1>4 DEF Indexed
<1>6. index' = [index EXCEPT ![t] = [index[t] EXCEPT !.dirty = TRUE]]
  BY <1>3
<1>7. /\ index' \in [Types -> Indexed] /\ index'[t].dirty
      /\ \A u \in Types : u # t => index'[u] = index[u]
  BY <1>4, <1>5, <1>6 DEF Typed
<1> QED BY <1>1, <1>2, <1>7 DEF Typed

LEMMA Proceeds ==
    ASSUME Typed, pending # <<>>
    PROVE  /\ Head(pending) \in Steps
           /\ Head(pending) = pending[1] /\ 1 \in DOMAIN pending
           /\ Tail(pending) \in Seq(Steps)
           /\ \A i \in DOMAIN Tail(pending) :
                 /\ i + 1 \in DOMAIN pending /\ i + 1 # 1
                 /\ Tail(pending)[i] = pending[i + 1]
           /\ \A i \in DOMAIN pending :
                 i # 1 => i - 1 \in DOMAIN Tail(pending) /\ i - 1 + 1 = i
           /\ \A i, j \in DOMAIN Tail(pending) : i + 1 = j + 1 => i = j
<1>1. pending \in Seq(Steps) /\ Len(pending) \in Nat /\ DOMAIN pending = 1..Len(pending)
  BY DEF Typed
<1>2. Len(pending) # 0
  BY <1>1, EmptySeq
<1>3. /\ Head(pending) = pending[1] /\ Tail(pending) \in Seq(Steps)
      /\ Len(Tail(pending)) = Len(pending) - 1
      /\ \A i \in 1..Len(Tail(pending)) : Tail(pending)[i] = pending[i + 1]
  BY <1>1, <1>2, HeadTailProperties
<1>4. DOMAIN Tail(pending) = 1..(Len(pending) - 1)
  BY <1>3
<1> QED BY <1>1, <1>2, <1>3, <1>4

(* Nothing waits but in an operation that records removals.                *)
LEMMA NothingWaits ==
    ASSUME Typed, Operation, NEW op, op # "record",
           pending = <<>> \/ Doing(op)
    PROVE  \A t \in Types : Waiting(t) = {}
<1>1. CASE pending = <<>>
  BY <1>1 DEF Waiting
<1>2. CASE pending # <<>>
  <2>1. 1 \in DOMAIN pending /\ pending[1].op = op
    BY <1>2, Proceeds DEF Doing
  <2>2. \A i \in DOMAIN pending : pending[i].op # "record"
    BY <2>1 DEF Operation
  <2> QED BY <2>2 DEF Waiting
<1> QED BY <1>1, <1>2

(* A step on component t lets the other components' removals wait.         *)
LEMMA OthersWait ==
    ASSUME Typed, pending # <<>>, pending' = Tail(pending),
           NEW t \in Types, t # Head(pending).type
    PROVE  Waiting(t) # {} => Waiting(t)' # {}
<1> SUFFICES ASSUME Waiting(t) # {} PROVE Waiting(t)' # {}
  OBVIOUS
<1>1. PICK i \in DOMAIN pending : pending[i] = [op |-> "record", type |-> t]
  BY DEF Waiting
<1>2. i # 1
  BY <1>1, Proceeds
<1>3. /\ i - 1 \in DOMAIN Tail(pending)
      /\ Tail(pending)[i - 1] = pending[i]
  BY <1>2, Proceeds
<1> QED BY <1>1, <1>3 DEF Waiting
LEMMA PendingStarts ==
    ASSUME NEW op \in {"insert", "remove", "record"}, NEW bundle \in Seq(Types),
           Have(op, bundle)
    PROVE  /\ pending' \in Seq(Steps)
           /\ DOMAIN pending' = DOMAIN bundle
           /\ \A i \in DOMAIN bundle :
                 pending'[i].op = op /\ pending'[i].type = bundle[i]
<1> DEFINE n == Len(bundle)
           p == [i \in 1..n |-> [op |-> op, type |-> bundle[i]]]
<1>1. n \in Nat /\ DOMAIN bundle = 1..n /\ \A i \in 1..n : bundle[i] \in Types
  OBVIOUS
<1>2. pending' = p
  BY <1>1 DEF Have
<1>3. \A i \in 1..n : p[i] \in Steps
  BY <1>1 DEF Steps
<1>4. p \in [1..n -> Steps]
  BY <1>3
<1>5. p \in Seq(Steps)
  <2> HIDE DEF n, p
  <2> QED BY <1>1, <1>4, SeqDef
<1> QED BY <1>1, <1>2, <1>5

LEMMA OperationStarts ==
    ASSUME NEW op \in {"insert", "remove", "record"}, NEW bundle \in Seq(Types),
           Have(op, bundle),
           op = "insert" => subject' \in alive',
           op = "remove" =>
               /\ subject' \in alive'
               /\ \A i \in DOMAIN bundle :
                     /\ bundle[i] \in ComponentsOf(subject)'
                     /\ \A j \in DOMAIN bundle : bundle[i] = bundle[j] => i = j,
           op = "record" =>
               /\ subject' \in Entities \ alive'
               /\ \A i \in DOMAIN bundle : <<bundle[i], subject'>> \in lost'
    PROVE  Operation'
<1>1. /\ DOMAIN pending' = DOMAIN bundle
      /\ \A i \in DOMAIN bundle :
            pending'[i].op = op /\ pending'[i].type = bundle[i]
  BY PendingStarts
<1> QED BY <1>1 DEF Operation, ComponentsOf

LEMMA OperationEnds == pending' = <<>> => Operation'
BY DEF Operation

LEMMA OperationProceeds ==
    ASSUME Typed, Operation, pending # <<>>, pending' = Tail(pending),
           subject' = subject, alive' = alive, lost \subseteq lost',
           Doing("remove") =>
               \A u \in ComponentsOf(subject) :
                   u # Head(pending).type => u \in ComponentsOf(subject)'
    PROVE  Operation'
<1> DEFINE rest == Tail(pending)
<1>1. /\ \A i \in DOMAIN rest :
            i + 1 \in DOMAIN pending /\ i + 1 # 1 /\ rest[i] = pending[i + 1]
      /\ \A i, j \in DOMAIN rest : i + 1 = j + 1 => i = j
      /\ 1 \in DOMAIN pending /\ Head(pending) = pending[1]
  BY Proceeds
<1> HIDE DEF rest
<1>2. \A i, j \in DOMAIN rest : rest[i].op = rest[j].op
  BY <1>1 DEF Operation
<1>3. ASSUME NEW i \in DOMAIN rest
      PROVE  /\ rest[i].op = "insert" => subject \in alive
             /\ rest[i].op = "remove" =>
                   /\ subject \in alive
                   /\ rest[i].type \in ComponentsOf(subject)'
                   /\ \A j \in DOMAIN rest : rest[i].type = rest[j].type => i = j
             /\ rest[i].op = "record" =>
                   /\ subject \in Entities \ alive
                   /\ <<rest[i].type, subject>> \in lost'
  <2>1. i + 1 \in DOMAIN pending /\ i + 1 # 1 /\ rest[i] = pending[i + 1]
    BY <1>1
  <2>2. ASSUME rest[i].op = "remove"
        PROVE  /\ rest[i].type \in ComponentsOf(subject)'
               /\ \A j \in DOMAIN rest : rest[i].type = rest[j].type => i = j
    <3>1. /\ pending[i + 1].type \in ComponentsOf(subject)
          /\ \A j \in DOMAIN pending : pending[i + 1].type = pending[j].type => i + 1 = j
      BY <2>1, <2>2 DEF Operation
    <3>2. Doing("remove")
      BY <1>1, <2>1, <2>2 DEF Operation, Doing
    <3>3. rest[i].type # Head(pending).type
      BY <1>1, <2>1, <3>1
    <3>4. rest[i].type \in ComponentsOf(subject)'
      BY <2>1, <3>1, <3>2, <3>3
    <3> QED BY <1>1, <2>1, <3>1, <3>4
  <2> QED BY <2>1, <2>2 DEF Operation
<1> QED BY <1>2, <1>3 DEF Operation, rest, ComponentsOf

(* The rows that a step does not touch change no later than before.        *)
LEMMA MarksKept ==
    ASSUME Stored, Typed, Marks, NEW e, NEW t \in Types, Only(e, t),
           ~ Exhausted(cursor), RecordChange(t),
           e \in alive /\ t \in ComponentsOf(e)' =>
               /\ CellOf(e, t)'.changed = cursor'
               /\ CellOf(e, t)'.added =
                     IF t \in ComponentsOf(e) THEN CellOf(e, t).added ELSE cursor'
    PROVE  Marks'
<1>1. /\ cursor' \in Cursors /\ cursor \in Cursors /\ Before(cursor, cursor')
      /\ typeTick'[t] = cursor'
      /\ \A u \in Types : typeTick[u] \in Cursors /\ NotAfter(typeTick[u], cursor)
      /\ \A u \in Types : u # t => typeTick'[u] = typeTick[u]
  BY RecordIs DEF Typed, Marks
<1>2. \A u \in Types : NotAfter(typeTick[u], cursor')
  BY <1>1, Later
<1>3. ASSUME NEW u \in Types PROVE NotAfter(typeTick'[u], cursor')
  BY <1>1, <1>2 DEF NotAfter
<1>4. \A u \in Types : NotAfter(typeTick[u], typeTick'[u])
  BY <1>1, <1>2 DEF NotAfter
<1>5. \A u \in Types : typeTick'[u] \in Cursors
  BY <1>1
<1>6. ASSUME NEW x \in alive, NEW u \in ComponentsOf(x)
      PROVE  /\ u \in Types
             /\ CellOf(x, u).changed \in Cursors /\ CellOf(x, u).added \in Cursors
             /\ NotAfter(CellOf(x, u).changed, typeTick[u])
             /\ NotAfter(CellOf(x, u).added, CellOf(x, u).changed)
  <2>1. CellOf(x, u) \in Cells /\ u \in Types
    BY HeldIs DEF Archetypes
  <2> QED BY <2>1 DEF Marks, Cells
<1>7. ASSUME NEW x \in alive, NEW u \in ComponentsOf(x)'
      PROVE  /\ NotAfter(CellOf(x, u)'.changed, typeTick'[u])
             /\ NotAfter(CellOf(x, u)'.added, CellOf(x, u)'.changed)
  <2>1. u \in Types
    BY HeldNext DEF Only, Archetypes
  <2>2. CASE x # e \/ u # t
    <3>1. u \in ComponentsOf(x) /\ CellOf(x, u)' = CellOf(x, u)
      BY <1>7, <2>1, <2>2 DEF Only, SameFor
    <3>2. NotAfter(CellOf(x, u).changed, typeTick'[u])
      <4>1. /\ CellOf(x, u).changed \in Cursors /\ typeTick[u] \in Cursors
            /\ NotAfter(CellOf(x, u).changed, typeTick[u])
            /\ typeTick'[u] \in Cursors /\ NotAfter(typeTick[u], typeTick'[u])
        BY <1>1, <1>4, <1>5, <1>6, <2>1, <3>1
      <4> QED BY <4>1, Later
    <3> QED BY <1>6, <3>1, <3>2
  <2>3. CASE x = e /\ u = t
    <3>1. /\ CellOf(e, t)'.changed = cursor'
          /\ CellOf(e, t)'.added =
                IF t \in ComponentsOf(e) THEN CellOf(e, t).added ELSE cursor'
      BY <1>7, <2>3
    <3>2. t \in ComponentsOf(e) => NotAfter(CellOf(e, t).added, cursor')
      <4> SUFFICES ASSUME t \in ComponentsOf(e)
                   PROVE  NotAfter(CellOf(e, t).added, cursor')
        OBVIOUS
      <4>1. PICK a, c : a = CellOf(e, t).added /\ c = CellOf(e, t).changed
        OBVIOUS
      <4>2. a \in Cursors /\ c \in Cursors /\ NotAfter(c, typeTick[t]) /\ NotAfter(a, c)
        BY <1>6, <2>3, <4>1
      <4>3. NotAfter(a, typeTick[t])
        BY <1>1, <4>2, Later
      <4>4. NotAfter(a, cursor')
        BY <1>1, <1>2, <4>2, <4>3, Later
      <4> QED BY <4>1, <4>4
    <3> QED BY <1>1, <2>3, <3>1, <3>2 DEF NotAfter
  <2> QED BY <2>2, <2>3
<1>8. alive' = alive
  BY DEF Only
<1> QED BY <1>3, <1>7, <1>8 DEF Marks, ComponentsOf, CellOf

(* ... nor do those of a step that leaves the marks alone.                 *)
LEMMA MarksSame ==
    ASSUME Marks, UNCHANGED <<cursor, typeTick>>,
           \A x \in alive' : \A u \in ComponentsOf(x)' :
               x \in alive /\ u \in ComponentsOf(x) /\ CellOf(x, u)' = CellOf(x, u)
    PROVE  Marks'
<1>1. ASSUME NEW x \in alive', NEW u \in ComponentsOf(x)'
      PROVE  /\ NotAfter(CellOf(x, u)'.changed, typeTick'[u])
             /\ NotAfter(CellOf(x, u)'.added, CellOf(x, u)'.changed)
  BY <1>1 DEF Marks
<1> QED BY <1>1 DEF Marks, ComponentsOf, CellOf
(* A removal recorded behind the others.                                   *)
LEMMA WindowRecords ==
    ASSUME Typed, Window, NEW e \in Entities, NEW t \in Types,
           ~ Exhausted(cursor), RecordRemoval(e, t),
           lost \subseteq lost', lost' \subseteq lost \union {<<t, e>>},
           <<t, e>> \in lost', panicked' = panicked,
           subject' = subject, e = subject,
           \A u \in Types : u # t /\ Waiting(u) # {} => Waiting(u)' # {}
    PROVE  Window' /\ removed' \in [Types -> Seq(Removals)]
<1> DEFINE s == removed[t]
           r == [entity |-> e, tick |-> cursor']
           n == Len(s)
<1>1. cursor' \in Cursors /\ cursor \in Cursors /\ Before(cursor, cursor')
  BY RecordIs DEF Typed, RecordRemoval
<1>2. s \in Seq(Removals) /\ r \in Removals /\ n \in Nat /\ DOMAIN s = 1..n
  <2>1. s \in Seq(Removals)
    BY DEF Typed
  <2>2. r \in Removals
    BY <1>1 DEF Removals
  <2> QED BY <2>1, <2>2
<1>3. removed' = [removed EXCEPT ![t] = Append(s, r)] /\ DOMAIN removed = Types
  BY DEF RecordRemoval, Typed
<1>4. /\ Append(s, r) \in Seq(Removals)
      /\ DOMAIN Append(s, r) = 1..(n + 1)
      /\ \A i \in 1..n : Append(s, r)[i] = s[i]
      /\ Append(s, r)[n + 1] = r
  <2> HIDE DEF s, r
  <2> QED BY <1>2, AppendIs
<1>5. removed'[t] = Append(s, r) /\ \A u \in Types : u # t => removed'[u] = removed[u]
  BY <1>3
<1>6. removed' \in [Types -> Seq(Removals)]
  BY <1>3, <1>4 DEF Typed
<1>7. r.entity = e /\ r.tick = cursor'
  OBVIOUS
<1>8. ASSUME NEW u \in Types, NEW i \in DOMAIN removed[u]
      PROVE  /\ removed[u][i].tick \in Cursors
             /\ <<u, removed[u][i].entity>> \in lost'
             /\ NotAfter(removed[u][i].tick, cursor')
             /\ Before(removed[u][i].tick, cursor')
             /\ \A j \in DOMAIN removed[u] :
                   i < j => Before(removed[u][i].tick, removed[u][j].tick)
  <2>1. removed[u] \in Seq(Removals)
    BY DEF Typed
  <2>2. removed[u][i] \in Removals
    BY <2>1
  <2>3. removed[u][i].tick \in Cursors
    BY <2>2 DEF Removals
  <2>4. /\ <<u, removed[u][i].entity>> \in lost
        /\ NotAfter(removed[u][i].tick, cursor)
        /\ \A j \in DOMAIN removed[u] :
              i < j => Before(removed[u][i].tick, removed[u][j].tick)
    BY DEF Window
  <2>5. NotAfter(removed[u][i].tick, cursor') /\ Before(removed[u][i].tick, cursor')
    BY <1>1, <2>3, <2>4, Later
  <2> QED BY <2>3, <2>4, <2>5
<1>9. ASSUME NEW u \in Types, NEW i \in DOMAIN removed'[u]
      PROVE  /\ <<u, removed'[u][i].entity>> \in lost'
             /\ NotAfter(removed'[u][i].tick, cursor')
             /\ \A j \in DOMAIN removed'[u] :
                   i < j => Before(removed'[u][i].tick, removed'[u][j].tick)
  <2>1. CASE u # t
    BY <1>5, <1>8, <2>1
  <2>2. CASE u = t
    <3>1. removed'[u] = Append(s, r) /\ i \in 1..(n + 1)
      BY <1>4, <1>5, <2>2
    <3> DEFINE z == Append(s, r)
    <3>2. \A j \in 1..n : /\ z[j] = s[j]
                          /\ <<t, s[j].entity>> \in lost'
                          /\ NotAfter(s[j].tick, cursor')
                          /\ Before(s[j].tick, cursor')
                          /\ \A l \in 1..n : j < l => Before(s[j].tick, s[l].tick)
      BY <1>2, <1>4, <1>8
    <3>3. /\ z[n + 1].entity = e /\ z[n + 1].tick = cursor'
          /\ removed'[u] = z /\ DOMAIN z = 1..(n + 1)
      BY <1>4, <1>7, <3>1
    <3> HIDE DEF z, s, r, n
    <3>4. i = n + 1 \/ i \in 1..n
      BY <1>2, <3>1
    <3>5. NotAfter(cursor', cursor')
      BY DEF NotAfter
    <3>6. CASE i = n + 1
      <4>1. \A j \in 1..(n + 1) : ~ (i < j)
        BY <1>2, <3>6
      <4> QED BY <2>2, <3>3, <3>5, <3>6, <4>1
    <3>7. CASE i \in 1..n
      <4>1. ASSUME NEW j \in 1..(n + 1), i < j
            PROVE  Before(z[i].tick, z[j].tick)
        <5>1. CASE j = n + 1
          BY <3>2, <3>3, <3>7, <5>1
        <5>2. CASE j \in 1..n
          BY <3>2, <3>7, <4>1, <5>2
        <5> QED BY <1>2, <5>1, <5>2
      <4> QED BY <2>2, <3>2, <3>3, <3>7, <4>1
    <3> QED BY <3>4, <3>6, <3>7
  <2> QED BY <2>1, <2>2
<1>10. ASSUME ~ panicked', NEW u \in Types, NEW x \in Entities, <<u, x>> \in lost'
       PROVE  \/ \E i \in DOMAIN removed'[u] : removed'[u][i].entity = x
              \/ x = subject' /\ Waiting(u)' # {}
  <2>1. CASE u = t /\ x = e
    <3>1. n + 1 \in 1..(n + 1)
      BY <1>2
    <3> QED BY <1>4, <1>5, <1>7, <2>1, <3>1
  <2>2. CASE ~ (u = t /\ x = e)
    <3>1. <<u, x>> \in lost
      BY <1>10, <2>2
    <3>2. \/ \E i \in DOMAIN removed[u] : removed[u][i].entity = x
          \/ x = subject /\ Waiting(u) # {}
      BY <1>10, <3>1 DEF Window
    <3>3. ASSUME NEW i \in DOMAIN removed[u], removed[u][i].entity = x
          PROVE  \E j \in DOMAIN removed'[u] : removed'[u][j].entity = x
      <4>1. CASE u # t
        BY <1>5, <3>3, <4>1
      <4>2. CASE u = t
        <5>1. i \in 1..n /\ i \in 1..(n + 1)
          BY <1>2, <3>3, <4>2
        <5> QED BY <1>4, <1>5, <3>3, <4>2, <5>1
      <4> QED BY <4>1, <4>2
    <3>4. x = subject /\ Waiting(u) # {} => x = subject' /\ Waiting(u)' # {}
      BY <2>2
    <3> QED BY <3>2, <3>3, <3>4
  <2> QED BY <2>1, <2>2
<1>11. Window'
  BY <1>9, <1>10 DEF Window, Waiting
<1> QED BY <1>6, <1>11

(* A step that records no removal.                                         *)
LEMMA WindowKept ==
    ASSUME Typed, Window, removed' = removed, lost \subseteq lost',
           cursor' \in Cursors, NotAfter(cursor, cursor'),
           ~ panicked' =>
               /\ ~ panicked
               /\ \A t \in Types : Waiting(t) = {}
               /\ \A t \in Types, e \in Entities :
                     <<t, e>> \in lost' \ lost => e = subject' /\ Waiting(t)' # {}
    PROVE  Window'
<1>1. ASSUME NEW u \in Types, NEW i \in DOMAIN removed[u]
      PROVE  /\ <<u, removed[u][i].entity>> \in lost'
             /\ NotAfter(removed[u][i].tick, cursor')
             /\ \A j \in DOMAIN removed[u] :
                   i < j => Before(removed[u][i].tick, removed[u][j].tick)
  <2>1. removed[u] \in Seq(Removals)
    BY DEF Typed
  <2>2. removed[u][i] \in Removals
    BY <2>1
  <2>3. removed[u][i].tick \in Cursors
    BY <2>2 DEF Removals
  <2>4. NotAfter(removed[u][i].tick, cursor')
    BY <2>3, Later DEF Typed, Window
  <2> QED BY <2>4 DEF Window
<1>2. ASSUME ~ panicked', NEW u \in Types, NEW x \in Entities, <<u, x>> \in lost'
      PROVE  \/ \E i \in DOMAIN removed[u] : removed[u][i].entity = x
             \/ x = subject' /\ Waiting(u)' # {}
  <2>1. CASE <<u, x>> \in lost
    BY <1>2, <2>1 DEF Window
  <2>2. CASE <<u, x>> \notin lost
    BY <1>2, <2>2
  <2> QED BY <2>1, <2>2
<1> QED BY <1>1, <1>2 DEF Window, Waiting

(* The cells of component t, and so what an index should hold.             *)
LEMMA EntriesSame ==
    ASSUME NEW t,
           \A x \in alive : t \in ComponentsOf(x) =>
               x \in alive' /\ t \in ComponentsOf(x)' /\ CellOf(x, t)' = CellOf(x, t),
           \A x \in alive' : t \in ComponentsOf(x)' => x \in alive /\ t \in ComponentsOf(x)
    PROVE  Entries(t)' = Entries(t)
<1> DEFINE A == {x \in alive : t \in ComponentsOf(x)}
           B == {x \in alive' : t \in ComponentsOf(x)'}
<1>1. A = B
  OBVIOUS
<1>2. \A x \in A : CellOf(x, t)' = CellOf(x, t)
  OBVIOUS
<1>3. Entries(t) = {<<x, CellOf(x, t).value>> : x \in A}
  BY DEF Entries
<1>4. Entries(t)' = {<<x, CellOf(x, t)'.value>> : x \in B}
  BY DEF Entries, ComponentsOf, CellOf
<1> HIDE DEF A, B
<1> QED BY <1>1, <1>2, <1>3, <1>4

LEMMA LookupsKept ==
    ASSUME Typed, Lookups, NEW e, NEW t \in Types, Only(e, t),
           ~ Exhausted(cursor), RecordChange(t), panicked' = panicked,
           \A u \in Types : u # t /\ Waiting(u) # {} => Waiting(u)' # {}
    PROVE  Lookups'
<1>1. index'[t].dirty /\ \A u \in Types : u # t => index'[u] = index[u]
  BY RecordIs
<1>2. ASSUME NEW u \in Types, u # t PROVE Entries(u)' = Entries(u)
  BY <1>2, EntriesSame DEF Only, SameFor
<1>3. ASSUME ~ panicked', NEW u \in Types
      PROVE  index'[u].dirty \/ Waiting(u)' # {} \/ index'[u].entries = Entries(u)'
  <2>1. CASE u = t
    BY <1>1, <2>1
  <2>2. CASE u # t
    <3>1. index[u].dirty \/ Waiting(u) # {} \/ index[u].entries = Entries(u)
      BY <1>3 DEF Lookups
    <3> QED BY <1>1, <1>2, <2>2, <3>1
  <2> QED BY <2>1, <2>2
<1> QED BY <1>3 DEF Lookups, Waiting, Entries, ComponentsOf, CellOf
LEMMA LookupsSame ==
    ASSUME Lookups, index' = index, panicked' = panicked,
           \A t \in Types : Waiting(t) = {},
           \A t \in Types : Entries(t)' = Entries(t) \/ Waiting(t)' # {}
    PROVE  Lookups'
<1>1. ASSUME ~ panicked', NEW u \in Types
      PROVE  index'[u].dirty \/ Waiting(u)' # {} \/ index'[u].entries = Entries(u)'
  <2>1. index[u].dirty \/ index[u].entries = Entries(u)
    BY <1>1 DEF Lookups
  <2> QED BY <2>1
<1> QED BY <1>1 DEF Lookups, Waiting, Entries, ComponentsOf, CellOf

(* Every component of a despawned entity is in the order they are recorded *)
(* in.                                                                     *)
LEMMA OrdersCover ==
    ASSUME NEW S, IsFiniteSet(S), NEW order \in Orders(S)
    PROVE  /\ order \in Seq(S)
           /\ \A t \in S : \E i \in DOMAIN order : order[i] = t
<1> DEFINE n == Cardinality(S)
<1>1. n \in Nat
  BY FS_CardinalityType
<1>2. order \in [1..n -> S] /\ \A i, j \in 1..n : order[i] = order[j] => i = j
  BY DEF Orders
<1>3. IsFiniteSet(1..n) /\ Cardinality(1..n) = n
  <2> HIDE DEF n
  <2> QED BY <1>1, FS_Interval
<1> HIDE DEF n
<1>4. order \in Injection(1..n, S)
  BY <1>2 DEF Injection, IsInjective
<1>5. order \in Surjection(1..n, S)
  BY <1>3, <1>4, FS_Injection DEF n
<1>6. order \in Seq(S)
  BY <1>1, <1>2, SeqDef
<1> QED BY <1>2, <1>5, <1>6 DEF Surjection

(* An operation on a living entity begins.                                 *)
LEMMA BeginKeeps ==
    ASSUME WorldInductive, NEW e \in Entities, NEW bundle \in Bundles,
           NEW op \in {"insert", "remove"},
           IF op = "insert" THEN Insert(e, bundle) ELSE Remove(e, bundle)
    PROVE  WorldInductive'
<1> USE WorldAssumption DEF WorldInductive
<1>1. /\ pending = <<>> /\ e \in alive /\ Have(op, bundle) /\ subject' = e
      /\ UNCHANGED <<allocatorVars, storageVars, lost, changeVars, panicked>>
  BY DEF Insert, Remove, Idle, Exists, Have
<1>2. bundle \in Seq(Types)
  OBVIOUS
<1>3. /\ Stored'
      /\ \A x \in alive' : x \in alive /\ ComponentsOf(x)' = ComponentsOf(x)
      /\ \A x \in alive : \A u \in Types : SameFor(x, u)
  BY <1>1, StoredSame
<1>4. /\ alive' = alive /\ removed' = removed /\ cursor' = cursor /\ index' = index
      /\ typeTick' = typeTick /\ lost' = lost /\ panicked' = panicked
  BY <1>1 DEF storageVars, changeVars
<1>5. Inductive' /\ alive' = InUse'
  BY <1>1, <1>4, SameInUse
<1>6. Typed'
  BY <1>1, <1>2, <1>4, PendingStarts DEF Typed
<1>7. Finite'
  BY <1>3, <1>4 DEF Finite, ComponentsOf
<1>8. Operation'
  <2>1. op = "remove" =>
           \A i \in DOMAIN bundle :
              /\ bundle[i] \in ComponentsOf(e)
              /\ \A j \in DOMAIN bundle : bundle[i] = bundle[j] => i = j
    BY DEF Remove
  <2>2. subject' \in alive' /\ ComponentsOf(subject)' = ComponentsOf(e)
    BY <1>1, <1>4 DEF ComponentsOf, storageVars
  <2> QED BY <1>1, <1>2, <2>1, <2>2, OperationStarts
<1>9. \A x \in alive : \A u \in ComponentsOf(x) : u \in Types
  BY HeldIs DEF Archetypes
<1>10. Marks'
  <2>1. \A x \in alive' : \A u \in ComponentsOf(x)' :
            x \in alive /\ u \in ComponentsOf(x) /\ CellOf(x, u)' = CellOf(x, u)
    BY <1>3, <1>4, <1>9 DEF SameFor
  <2> QED BY <1>4, <2>1, MarksSame
<1>11. \A t \in Types : Waiting(t) = {}
  BY <1>1 DEF Waiting
<1>12. Window'
  BY <1>4, <1>11, WindowKept DEF Typed, NotAfter
<1>13. Lookups'
  <2>1. \A t \in Types : Entries(t)' = Entries(t)
    BY <1>3, <1>4, EntriesSame DEF SameFor
  <2> QED BY <1>4, <1>11, <2>1, LookupsSame
<1> QED BY <1>3, <1>5, <1>6, <1>7, <1>8, <1>10, <1>12, <1>13

LEMMA SpawnKeeps ==
    ASSUME WorldInductive, NEW e \in Entities, NEW bundle \in Bundles,
           Spawn(e, bundle)
    PROVE  /\ WorldInductive'
           /\ Becomes(e, Nothing) /\ e \notin alive /\ alive' = alive \union {e}
<1> USE WorldAssumption DEF WorldInductive
<1>1. /\ pending = <<>> /\ Have("insert", bundle) /\ subject' = e
      /\ Allocate(e) /\ alive' = alive \union {e} /\ Place(e)
      /\ UNCHANGED <<lost, changeVars, panicked>>
  BY DEF Spawn, Idle, Have
<1>2. Inductive' /\ e \notin alive /\ alive' = InUse'
  BY <1>1, AllocateFresh
<1>3. bundle \in Seq(Types)
  OBVIOUS
<1>4. Becomes(e, Nothing)
  BY <1>1, <1>2, PlaceKeeps
<1>5. /\ removed' = removed /\ cursor' = cursor /\ index' = index
      /\ typeTick' = typeTick /\ lost' = lost /\ panicked' = panicked
  BY <1>1 DEF changeVars
<1>6. /\ Stored'
      /\ \A x \in alive : ComponentsOf(x)' = ComponentsOf(x)
      /\ \A x \in alive : \A u \in Types : SameFor(x, u)
  BY <1>1, <1>2, <1>4, SameHeld DEF Becomes
<1>7. ComponentsOf(e)' = {}
  <2>1. Held'[e] \in [ComponentsOf(e)' -> Cells]
    BY <1>1, <1>6, HeldNext
  <2>2. Held'[e] = Nothing
    BY <1>4 DEF Becomes
  <2> QED BY <2>1, <2>2 DEF Nothing
<1>8. Typed'
  BY <1>1, <1>3, <1>5, PendingStarts DEF Typed
<1>9. Finite'
  BY <1>1, <1>6, <1>7, FS_EmptySet DEF Finite, ComponentsOf
<1>10. Operation'
  BY <1>1, <1>3, OperationStarts
<1>11. \A x \in alive' : \A u \in ComponentsOf(x)' :
            x \in alive /\ u \in Types /\ u \in ComponentsOf(x)
  <2>1. \A x \in alive' : ComponentsOf(x)' \in Archetypes
    BY <1>6, HeldNext
  <2> QED BY <1>1, <1>6, <1>7, <2>1 DEF Archetypes
<1>12. Marks'
  BY <1>5, <1>6, <1>11, MarksSame DEF SameFor
<1>13. \A t \in Types : Waiting(t) = {}
  BY <1>1 DEF Waiting
<1>14. Window'
  BY <1>5, <1>13, WindowKept DEF Typed, NotAfter
<1>15. Lookups'
  <2>1. \A t \in Types : Entries(t)' = Entries(t)
    BY <1>1, <1>6, <1>11, EntriesSame DEF SameFor
  <2> QED BY <1>5, <1>13, <2>1, LookupsSame
<1> QED BY <1>1, <1>2, <1>4, <1>6, <1>8, <1>9, <1>10, <1>12, <1>14, <1>15

LEMMA DespawnKeeps ==
    ASSUME WorldInductive, NEW e \in Entities, Despawn(e)
    PROVE  /\ WorldInductive'
           /\ e \in alive /\ alive' = alive \ {e}
           /\ \A x \in alive' : Held'[x] = Held[x]
<1> USE DEF WorldInductive
<1>1. PICK order \in Orders(ComponentsOf(e)) : Have("record", order)
  BY DEF Despawn
<1>2. /\ pending = <<>> /\ subject' = e /\ e \in alive
      /\ Free(e) /\ alive' = alive \ {e} /\ Withdraw(e)
      /\ lost' = lost \union {<<t, e>> : t \in ComponentsOf(e)}
      /\ UNCHANGED <<changeVars, panicked>>
  BY <1>1 DEF Despawn, Idle, Have, Exists
<1>3. Inductive' /\ alive' = InUse'
  BY <1>2, FreeLeaves
<1>4. Stored' /\ \A x \in alive' : Held'[x] = Held[x]
  BY <1>2, WithdrawKeeps
<1>5. /\ removed' = removed /\ cursor' = cursor /\ index' = index
      /\ typeTick' = typeTick /\ panicked' = panicked
  BY <1>2 DEF changeVars
<1>6. /\ \A x \in alive' : ComponentsOf(x)' = ComponentsOf(x)
      /\ \A x \in alive' : \A u \in Types : SameFor(x, u)
  BY <1>2, <1>4, SameHeld
<1>7. ComponentsOf(e) \in Archetypes /\ IsFiniteSet(ComponentsOf(e))
  BY <1>2, HeldIs DEF Finite
<1>8. /\ order \in Seq(ComponentsOf(e)) /\ order \in Seq(Types)
      /\ \A t \in ComponentsOf(e) : \E i \in DOMAIN order : order[i] = t
  <2>1. /\ order \in Seq(ComponentsOf(e))
        /\ \A t \in ComponentsOf(e) : \E i \in DOMAIN order : order[i] = t
    BY <1>1, <1>7, OrdersCover
  <2>2. ComponentsOf(e) \subseteq Types
    BY <1>7 DEF Archetypes
  <2> QED BY <2>1, <2>2
<1>9. lost' \subseteq Types \X Entities
  BY <1>2, <1>7 DEF Typed, Archetypes
<1>10. Typed'
  BY <1>1, <1>5, <1>8, <1>9, PendingStarts DEF Typed
<1>11. Finite'
  BY <1>2, <1>6 DEF Finite, ComponentsOf
<1>12. Operation'
  <2>1. \A i \in DOMAIN order : order[i] \in ComponentsOf(e)
    BY <1>8
  <2>2. \A i \in DOMAIN order : <<order[i], subject'>> \in lost'
    BY <1>2, <2>1
  <2>3. subject' \in Entities \ alive'
    BY <1>2
  <2> QED BY <1>1, <1>8, <2>2, <2>3, OperationStarts
<1>13. \A x \in alive' : \A u \in ComponentsOf(x)' :
            x \in alive /\ u \in Types /\ u \in ComponentsOf(x)
  <2>1. \A x \in alive' : ComponentsOf(x)' \in Archetypes
    BY <1>4, HeldNext
  <2> QED BY <1>2, <1>6, <2>1 DEF Archetypes
<1>14. Marks'
  BY <1>5, <1>6, <1>13, MarksSame DEF SameFor
<1>15. \A t \in Types : Waiting(t) = {}
  BY <1>2 DEF Waiting
<1>16. ASSUME NEW t \in ComponentsOf(e) PROVE Waiting(t)' # {}
  <2>1. PICK i \in DOMAIN order : order[i] = t
    BY <1>8
  <2>2. i \in DOMAIN pending' /\ pending'[i].op = "record" /\ pending'[i].type = t
    BY <1>1, <1>8, <2>1, PendingStarts
  <2>3. pending'[i] \in Steps
    BY <1>10, <2>2 DEF Typed
  <2>4. pending'[i] = [op |-> "record", type |-> t]
    BY <2>2, <2>3 DEF Steps
  <2> QED BY <2>2, <2>4 DEF Waiting
<1>17. Window'
  <2>1. \A t \in Types, x \in Entities :
            <<t, x>> \in lost' \ lost => x = subject' /\ Waiting(t)' # {}
    BY <1>2, <1>16
  <2> QED BY <1>2, <1>5, <1>15, <2>1, WindowKept DEF Typed, NotAfter
<1>18. Lookups'
  <2>1. ASSUME NEW t \in Types
        PROVE  Entries(t)' = Entries(t) \/ Waiting(t)' # {}
    <3>1. CASE t \in ComponentsOf(e)
      BY <1>16, <3>1
    <3>2. CASE t \notin ComponentsOf(e)
      <4>1. \A x \in alive : t \in ComponentsOf(x) => x \in alive'
        BY <1>2, <3>2
      <4> QED BY <1>6, <1>13, <4>1, EntriesSame DEF SameFor
    <3> QED BY <3>1, <3>2
  <2> QED BY <1>5, <1>15, <2>1, LookupsSame
<1> QED BY <1>2, <1>3, <1>4, <1>10, <1>11, <1>12, <1>14, <1>17, <1>18
(* The cursor is exhausted and nothing has been touched.                   *)
LEMMA PanicKeeps ==
    ASSUME WorldInductive, Panic, UNCHANGED <<allocatorVars, storageVars, lost>>
    PROVE  WorldInductive'
<1> USE DEF WorldInductive
<1>1. /\ pending' = <<>> /\ panicked' = TRUE /\ subject' = subject
      /\ alive' = alive /\ removed' = removed /\ cursor' = cursor /\ index' = index
      /\ typeTick' = typeTick /\ lost' = lost
  BY DEF Panic, changeVars, storageVars
<1>2. /\ Stored'
      /\ \A x \in alive' : x \in alive /\ ComponentsOf(x)' = ComponentsOf(x)
      /\ \A x \in alive : \A u \in Types : SameFor(x, u)
  BY StoredSame
<1>3. Inductive' /\ alive' = InUse'
  BY <1>1, SameInUse
<1>4. Typed'
  BY <1>1 DEF Typed
<1>5. Finite'
  BY <1>2 DEF Finite, ComponentsOf
<1>6. Operation'
  BY <1>1, OperationEnds
<1>7. Marks'
  <2>1. \A x \in alive : \A u \in ComponentsOf(x) : u \in Types
    BY HeldIs DEF Archetypes
  <2>2. \A x \in alive' : \A u \in ComponentsOf(x)' :
            x \in alive /\ u \in ComponentsOf(x) /\ CellOf(x, u)' = CellOf(x, u)
    BY <1>2, <2>1 DEF SameFor
  <2> QED BY <1>1, <2>2, MarksSame
<1>8. Window'
  BY <1>1, WindowKept DEF Typed, NotAfter
<1>9. Lookups'
  BY <1>1 DEF Lookups
<1> QED BY <1>2, <1>3, <1>4, <1>5, <1>6, <1>7, <1>8, <1>9

(* A component of e is written, alone or as a part of an insertion.        *)
LEMMA WriteKeeps ==
    ASSUME WorldInductive, NEW e \in alive, NEW t \in Types, NEW v \in Values,
           ~ Exhausted(cursor), RecordChange(t),
           IF t \in ComponentsOf(e) THEN UpdateComponent(e, t, v, NextCursor(cursor))
           ELSE AddComponent(e, t, v, NextCursor(cursor)),
           UNCHANGED <<allocatorVars, alive, removed, subject, panicked, lost>>,
           \/ pending = <<>> /\ pending' = <<>>
           \/ Doing("insert") /\ pending' = Tail(pending)
    PROVE  WorldInductive'
<1> USE DEF WorldInductive
<1>1. PICK at \in Cursors : at = NextCursor(cursor) /\ at = cursor'
  BY NextIs DEF RecordChange, Typed
<1>2. /\ alive' = alive /\ removed' = removed /\ subject' = subject
      /\ panicked' = panicked /\ lost' = lost
  OBVIOUS
<1>3. IF t \in ComponentsOf(e) THEN UpdateComponent(e, t, v, at)
      ELSE AddComponent(e, t, v, at)
  BY <1>1
<1>4. /\ Only(e, t)
      /\ ComponentsOf(e)' = ComponentsOf(e) \union {t}
      /\ CellOf(e, t)'.changed = at
      /\ CellOf(e, t)'.added = IF t \in ComponentsOf(e) THEN CellOf(e, t).added ELSE at
  BY <1>2, <1>3, PutOnly
<1>5. Stored'
  BY <1>4 DEF Only
<1>6. Inductive' /\ alive' = InUse'
  BY <1>2, SameInUse
<1>7. /\ cursor' \in Cursors /\ NotAfter(cursor, cursor')
      /\ typeTick' \in [Types -> Cursors] /\ index' \in [Types -> Indexed]
  BY RecordIs DEF NotAfter
<1>8. pending' \in Seq(Steps)
  <2>1. CASE pending = <<>> /\ pending' = <<>>
    BY <2>1
  <2>2. CASE Doing("insert") /\ pending' = Tail(pending)
    BY <2>2, Proceeds DEF Doing
  <2> QED BY <2>1, <2>2
<1>9. Typed'
  BY <1>2, <1>7, <1>8 DEF Typed
<1>10. Finite'
  <2>1. ASSUME NEW x \in alive PROVE IsFiniteSet(ComponentsOf(x)')
    <3>1. CASE x = e
      BY <1>4, <3>1, FS_AddElement DEF Finite
    <3>2. CASE x # e
      <4>1. ComponentsOf(x)' \in Archetypes /\ ComponentsOf(x) \in Archetypes
        BY <1>2, <1>5, HeldIs, HeldNext
      <4>2. ComponentsOf(x)' = ComponentsOf(x)
        BY <1>4, <3>2, <4>1 DEF Only, SameFor, Archetypes
      <4> QED BY <4>2 DEF Finite
    <3> QED BY <3>1, <3>2
  <2> QED BY <1>2, <2>1 DEF Finite, ComponentsOf
<1>11. Operation'
  <2>1. CASE pending = <<>> /\ pending' = <<>>
    BY <2>1, OperationEnds
  <2>2. CASE Doing("insert") /\ pending' = Tail(pending)
    <3>1. pending # <<>> /\ ~ Doing("remove")
      BY <2>2 DEF Doing
    <3> QED BY <1>2, <2>2, <3>1, OperationProceeds
  <2> QED BY <2>1, <2>2
<1>12. Marks'
  BY <1>1, <1>4, MarksKept
<1>13. \A u \in Types : Waiting(u) = {}
  BY NothingWaits, SMTT(30) DEF Doing
<1>14. Window'
  BY <1>2, <1>7, <1>13, WindowKept
<1>15. Lookups'
  BY <1>2, <1>4, <1>13, LookupsKept
<1> QED BY <1>5, <1>6, <1>9, <1>10, <1>11, <1>12, <1>14, <1>15

LEMMA CommitInsertKeeps == ASSUME WorldInductive, CommitInsert PROVE WorldInductive'
<1> DEFINE t == Head(pending).type
<1>1. pending # <<>> /\ Doing("insert") /\ t \in Types /\ subject \in alive
  <2>1. pending # <<>> /\ Doing("insert")
    BY DEF CommitInsert, Doing
  <2>2. Head(pending) \in Steps /\ Head(pending) = pending[1] /\ 1 \in DOMAIN pending
    BY <2>1, Proceeds DEF WorldInductive
  <2>3. t \in Types
    BY <2>2 DEF Steps
  <2>4. subject \in alive
    BY <2>1, <2>2 DEF WorldInductive, Operation, Doing
  <2> QED BY <2>1, <2>3, <2>4
<1>2. CASE Exhausted(cursor)
  <2>1. Panic /\ UNCHANGED <<allocatorVars, storageVars, lost>>
    BY <1>2 DEF CommitInsert, storageVars
  <2> QED BY <2>1, PanicKeeps
<1>3. CASE ~ Exhausted(cursor)
  <2>1. PICK v \in Values :
           IF t \in ComponentsOf(subject)
           THEN UpdateComponent(subject, t, v, NextCursor(cursor))
           ELSE AddComponent(subject, t, v, NextCursor(cursor))
    BY <1>3 DEF CommitInsert
  <2>2. /\ RecordChange(t) /\ pending' = Tail(pending)
        /\ UNCHANGED <<allocatorVars, alive, removed, subject, panicked, lost>>
    BY <1>3 DEF CommitInsert
  <2> HIDE DEF t
  <2> QED BY <1>1, <1>3, <2>1, <2>2, WriteKeeps
<1> QED BY <1>2, <1>3

LEMMA ModifyKeeps ==
    ASSUME WorldInductive, NEW e \in Entities, NEW t \in Types, NEW v \in Values,
           Modify(e, t, v)
    PROVE  WorldInductive'
<1>1. pending = <<>> /\ e \in alive /\ t \in ComponentsOf(e)
  BY DEF Modify, Idle, Exists
<1>2. CASE Exhausted(cursor)
  <2>1. Panic /\ UNCHANGED <<allocatorVars, storageVars, lost>>
    BY <1>2 DEF Modify, storageVars
  <2> QED BY <2>1, PanicKeeps
<1>3. CASE ~ Exhausted(cursor)
  <2>1. /\ RecordChange(t) /\ pending' = <<>>
        /\ UpdateComponent(e, t, v, NextCursor(cursor))
        /\ UNCHANGED <<allocatorVars, alive, removed, subject, panicked, lost>>
    BY <1>1, <1>3 DEF Modify, RecordChange
  <2> QED BY <1>1, <1>3, <2>1, WriteKeeps
<1> QED BY <1>2, <1>3
LEMMA CommitRemoveKeeps == ASSUME WorldInductive, CommitRemove PROVE WorldInductive'
<1> USE DEF WorldInductive
<1> PICK e, t : e = subject /\ t = Head(pending).type
  OBVIOUS
<1>1. /\ pending # <<>> /\ Doing("remove") /\ t \in Types
      /\ e \in alive /\ t \in ComponentsOf(e) /\ e \in Entities
  <2>1. pending # <<>> /\ Doing("remove")
    BY DEF CommitRemove, Doing
  <2>2. Head(pending) \in Steps /\ Head(pending) = pending[1] /\ 1 \in DOMAIN pending
    BY <2>1, Proceeds
  <2>3. t \in Types
    BY <2>2 DEF Steps
  <2>4. e \in alive /\ t \in ComponentsOf(e)
    BY <2>1, <2>2 DEF Operation, Doing
  <2> QED BY <2>1, <2>3, <2>4, HeldIs
<1>2. /\ RemoveComponent(e, t) /\ alive' = alive /\ UNCHANGED allocatorVars
      /\ lost' = lost \union {<<t, e>>}
  BY DEF CommitRemove
<1>3. Only(e, t) /\ ComponentsOf(e)' = ComponentsOf(e) \ {t}
  BY <1>1, <1>2, TakeOnly
<1>4. Stored'
  BY <1>3 DEF Only
<1>5. Inductive' /\ alive' = InUse'
  BY <1>2, SameInUse
<1>6. \A x \in alive \ {e} : ComponentsOf(x)' = ComponentsOf(x)
  <2> SUFFICES ASSUME NEW x \in alive \ {e}
               PROVE  ComponentsOf(x)' = ComponentsOf(x)
    OBVIOUS
  <2>1. ComponentsOf(x)' \in Archetypes /\ ComponentsOf(x) \in Archetypes
    BY <1>2, <1>4, HeldIs, HeldNext
  <2> QED BY <1>3, <2>1 DEF Only, SameFor, Archetypes
<1>7. Finite'
  <2>1. ASSUME NEW x \in alive PROVE IsFiniteSet(ComponentsOf(x)')
    BY <1>1, <1>3, <1>6, FS_RemoveElement DEF Finite
  <2> QED BY <1>2, <2>1 DEF Finite, ComponentsOf
<1>8. lost' \subseteq Types \X Entities
  BY <1>1, <1>2 DEF Typed
<1>9. CASE Exhausted(cursor)
  <2>1. /\ pending' = <<>> /\ panicked' = TRUE /\ subject' = subject
        /\ removed' = removed /\ cursor' = cursor /\ index' = index
        /\ typeTick' = typeTick
    BY <1>9 DEF CommitRemove, Panic, changeVars
  <2>2. Typed'
    BY <1>8, <2>1 DEF Typed
  <2>3. Operation'
    BY <2>1, OperationEnds
  <2>4. Marks'
    <3>1. \A x \in alive' : \A u \in ComponentsOf(x)' :
              x \in alive /\ u \in ComponentsOf(x) /\ CellOf(x, u)' = CellOf(x, u)
      <4> SUFFICES ASSUME NEW x \in alive, NEW u \in ComponentsOf(x)'
                   PROVE  u \in ComponentsOf(x) /\ CellOf(x, u)' = CellOf(x, u)
        BY <1>2
      <4>1. u \in Types
        BY <1>2, <1>4, HeldNext DEF Archetypes
      <4>2. x # e \/ u # t
        BY <1>3
      <4> QED BY <1>3, <4>1, <4>2 DEF Only, SameFor
    <3> QED BY <2>1, <3>1, MarksSame
  <2>5. Window'
    BY <1>2, <2>1, WindowKept DEF Typed, NotAfter
  <2>6. Lookups'
    BY <2>1 DEF Lookups
  <2> QED BY <1>4, <1>5, <1>7, <2>2, <2>3, <2>4, <2>5, <2>6
<1>10. CASE ~ Exhausted(cursor)
  <2>1. /\ RecordRemoval(e, t) /\ RecordChange(t) /\ pending' = Tail(pending)
        /\ subject' = subject /\ panicked' = panicked
    BY <1>10 DEF CommitRemove, RecordRemoval
  <2>2. /\ cursor' \in Cursors /\ typeTick' \in [Types -> Cursors]
        /\ index' \in [Types -> Indexed]
    BY <1>1, <1>10, <2>1, RecordIs
  <2>3. \A u \in Types : u # t /\ Waiting(u) # {} => Waiting(u)' # {}
    BY <1>1, <2>1, OthersWait
  <2>4. Window' /\ removed' \in [Types -> Seq(Removals)]
    BY <1>1, <1>2, <1>10, <2>1, <2>3, WindowRecords
  <2>5. pending' \in Seq(Steps)
    BY <1>1, <2>1, Proceeds
  <2>6. Typed'
    BY <1>8, <2>1, <2>2, <2>4, <2>5 DEF Typed
  <2>7. Operation'
    <3>1. ComponentsOf(subject)' = ComponentsOf(e) \ {t}
      BY <1>3, <2>1 DEF ComponentsOf
    <3> QED BY <1>1, <1>2, <2>1, <3>1, OperationProceeds
  <2>8. Marks'
    BY <1>1, <1>3, <1>10, <2>1, MarksKept
  <2>9. Lookups'
    BY <1>1, <1>3, <1>10, <2>1, <2>3, LookupsKept
  <2> QED BY <1>4, <1>5, <1>7, <2>4, <2>6, <2>7, <2>8, <2>9
<1> QED BY <1>9, <1>10

LEMMA CommitRecordKeeps == ASSUME WorldInductive, CommitRecord PROVE WorldInductive'
<1> DEFINE t == Head(pending).type
           e == subject
<1> USE DEF WorldInductive
<1>1. /\ pending # <<>> /\ Doing("record") /\ t \in Types
      /\ e \in Entities \ alive /\ <<t, e>> \in lost
  <2>1. pending # <<>> /\ Doing("record")
    BY DEF CommitRecord, Doing
  <2>2. Head(pending) \in Steps /\ Head(pending) = pending[1] /\ 1 \in DOMAIN pending
    BY <2>1, Proceeds
  <2>3. t \in Types
    BY <2>2 DEF Steps
  <2>4. e \in Entities \ alive /\ <<t, e>> \in lost
    BY <2>1, <2>2 DEF Operation, Doing
  <2> QED BY <2>1, <2>3, <2>4
<1>2. UNCHANGED <<allocatorVars, storageVars, lost>>
  BY DEF CommitRecord
<1>3. CASE Exhausted(cursor)
  <2>1. Panic
    BY <1>3 DEF CommitRecord
  <2> QED BY <1>2, <2>1, PanicKeeps
<1>4. CASE ~ Exhausted(cursor)
  <2>1. /\ RecordRemoval(e, t) /\ RecordChange(t) /\ pending' = Tail(pending)
        /\ subject' = subject /\ panicked' = panicked
        /\ lost' = lost /\ alive' = alive
    BY <1>2, <1>4 DEF CommitRecord, RecordRemoval, storageVars
  <2> HIDE DEF t
  <2>2. /\ Stored'
        /\ \A x \in alive' : x \in alive /\ ComponentsOf(x)' = ComponentsOf(x)
        /\ \A x \in alive : \A u \in Types : SameFor(x, u)
    BY <1>2, StoredSame
  <2>3. Only(e, t)
    BY <2>1, <2>2 DEF Only
  <2>4. Inductive' /\ alive' = InUse'
    BY <1>2, <2>1, SameInUse
  <2>5. Finite'
    BY <2>2 DEF Finite, ComponentsOf
  <2>6. /\ cursor' \in Cursors /\ typeTick' \in [Types -> Cursors]
        /\ index' \in [Types -> Indexed]
    BY <1>1, <1>4, <2>1, RecordIs
  <2>7. \A u \in Types : u # t /\ Waiting(u) # {} => Waiting(u)' # {}
    BY <1>1, <2>1, OthersWait DEF t
  <2>8. Window' /\ removed' \in [Types -> Seq(Removals)]
    BY <1>1, <1>4, <2>1, <2>7, WindowRecords
  <2>9. pending' \in Seq(Steps)
    BY <1>1, <2>1, Proceeds
  <2>10. Typed'
    BY <2>1, <2>6, <2>8, <2>9 DEF Typed
  <2>11. Operation'
    <3>1. ~ Doing("remove")
      BY <1>1 DEF Doing
    <3> QED BY <1>1, <2>1, <3>1, OperationProceeds
  <2>12. Marks'
    BY <1>1, <1>4, <2>1, <2>3, MarksKept
  <2>13. Lookups'
    BY <1>1, <1>4, <2>1, <2>3, <2>7, LookupsKept
  <2> QED BY <2>2, <2>4, <2>5, <2>8, <2>10, <2>11, <2>12, <2>13
<1> QED BY <1>3, <1>4

(* What a query visits.                                                    *)
LEMMA MatchingIs ==
    ASSUME Stored, NEW required \in Archetypes, NEW excluded \in Archetypes
    PROVE  /\ \A m \in Matching(required, excluded) :
                 /\ m = <<m[1], m[2]>>
                 /\ m[1] \in Archetypes /\ m[2] \in DOMAIN rows[m[1]]
                 /\ rows[m[1]][m[2]] \in alive
                 /\ ComponentsOf(rows[m[1]][m[2]]) = m[1]
                 /\ locations[rows[m[1]][m[2]]].row = m[2]
                 /\ required \subseteq m[1] /\ excluded \intersect m[1] = {}
           /\ \A e \in alive :
                 (required \subseteq ComponentsOf(e)
                     /\ excluded \intersect ComponentsOf(e) = {}) =>
                    /\ <<ComponentsOf(e), locations[e].row>> \in Matching(required, excluded)
                    /\ rows[ComponentsOf(e)][locations[e].row] = e
<1>1. ASSUME NEW m \in Matching(required, excluded)
      PROVE  /\ m = <<m[1], m[2]>>
             /\ m[1] \in Archetypes /\ m[2] \in DOMAIN rows[m[1]]
             /\ rows[m[1]][m[2]] \in alive
             /\ ComponentsOf(rows[m[1]][m[2]]) = m[1]
             /\ locations[rows[m[1]][m[2]]].row = m[2]
             /\ required \subseteq m[1] /\ excluded \intersect m[1] = {}
  <2>1. PICK k \in Fitting(required, excluded) : m \in {k} \X DOMAIN rows[k]
    BY DEF Matching
  <2>2. m = <<m[1], m[2]>> /\ m[1] = k /\ m[2] \in DOMAIN rows[k]
    BY <2>1
  <2>3. k \in Archetypes /\ required \subseteq k /\ excluded \intersect k = {}
    BY <2>1 DEF Fitting
  <2>4. /\ rows[k][m[2]] \in alive
        /\ locations[rows[k][m[2]]] = [archetype |-> k, row |-> m[2]]
    BY <2>2, <2>3 DEF Stored, Storage
  <2> QED BY <2>2, <2>3, <2>4 DEF ComponentsOf
<1>2. ASSUME NEW e \in alive, required \subseteq ComponentsOf(e),
             excluded \intersect ComponentsOf(e) = {}
      PROVE  /\ <<ComponentsOf(e), locations[e].row>> \in Matching(required, excluded)
             /\ rows[ComponentsOf(e)][locations[e].row] = e
  <2>1. /\ ComponentsOf(e) \in Archetypes
        /\ locations[e].row \in DOMAIN rows[ComponentsOf(e)]
        /\ rows[ComponentsOf(e)][locations[e].row] = e
    BY HeldIs DEF Stored, Storage, ComponentsOf
  <2>2. ComponentsOf(e) \in Fitting(required, excluded)
    BY <1>2, <2>1 DEF Fitting
  <2>3. <<ComponentsOf(e), locations[e].row>>
            \in {ComponentsOf(e)} \X DOMAIN rows[ComponentsOf(e)]
    BY <2>1
  <2> QED BY <2>1, <2>2, <2>3 DEF Matching
<1> QED BY <1>1, <1>2

LEMMA RebuiltIs ==
    ASSUME Stored, NEW t \in Types
    PROVE  Rebuilt(t) \in Indexed /\ ~ Rebuilt(t).dirty /\ Rebuilt(t).entries = Entries(t)
<1> DEFINE found == Matching({t}, {})
           entries == {<<rows[m[1]][m[2]], columns[m[1]][t][m[2]].value>> : m \in found}
<1>1. {t} \in Archetypes /\ {} \in Archetypes
  BY DEF Archetypes
<1>2. ASSUME NEW m \in found
      PROVE  LET e == rows[m[1]][m[2]]
             IN  /\ e \in alive /\ t \in ComponentsOf(e)
                 /\ columns[m[1]][t][m[2]] = CellOf(e, t)
  <2>1. PICK r, x : r = {t} /\ x = {}
    OBVIOUS
  <2>2. m \in Matching(r, x) /\ r \in Archetypes /\ x \in Archetypes
    BY <1>1, <2>1
  <2>3. /\ rows[m[1]][m[2]] \in alive
        /\ ComponentsOf(rows[m[1]][m[2]]) = m[1]
        /\ locations[rows[m[1]][m[2]]].row = m[2]
        /\ r \subseteq m[1]
    BY <2>2, MatchingIs
  <2> QED BY <2>1, <2>3 DEF CellOf, ComponentsOf
<1>3. ASSUME NEW e \in alive, t \in ComponentsOf(e)
      PROVE  \E m \in found : /\ rows[m[1]][m[2]] = e
                              /\ columns[m[1]][t][m[2]] = CellOf(e, t)
  <2>1. /\ <<ComponentsOf(e), locations[e].row>> \in found
        /\ rows[ComponentsOf(e)][locations[e].row] = e
    BY <1>1, <1>3, MatchingIs
  <2> QED BY <2>1 DEF CellOf, ComponentsOf
<1>4. ASSUME NEW e \in alive, t \in ComponentsOf(e)
      PROVE  e \in Entities /\ CellOf(e, t).value \in Values
  <2>1. CellOf(e, t) \in Cells /\ e \in Entities
    BY <1>4, HeldIs
  <2> QED BY <2>1 DEF Cells
<1>5. entries = Entries(t)
  <2> HIDE DEF found
  <2>1. entries \subseteq Entries(t)
    BY <1>2 DEF Entries
  <2>2. Entries(t) \subseteq entries
    BY <1>3 DEF Entries
  <2> QED BY <2>1, <2>2
<1>6. Entries(t) \in SUBSET (Entities \X Values)
  BY <1>4 DEF Entries
<1>7. Rebuilt(t) = [dirty |-> FALSE, entries |-> entries]
  BY DEF Rebuilt
<1> HIDE DEF entries
<1> QED BY <1>5, <1>6, <1>7 DEF Indexed
LEMMA BeginPublicationKeeps ==
    ASSUME WorldInductive, BeginPublication PROVE WorldInductive'
<1> USE DEF WorldInductive
<1>1. /\ pending = <<>> /\ removed' = [t \in Types |-> <<>>] /\ lost' = {}
      /\ alive' = alive /\ cursor' = cursor /\ index' = index /\ typeTick' = typeTick
      /\ pending' = pending /\ subject' = subject /\ panicked' = panicked
      /\ UNCHANGED <<allocatorVars, storageVars>>
  BY DEF BeginPublication, Idle, storageVars
<1>2. /\ Stored'
      /\ \A x \in alive' : x \in alive /\ ComponentsOf(x)' = ComponentsOf(x)
      /\ \A x \in alive : \A u \in Types : SameFor(x, u)
  BY <1>1, StoredSame
<1>3. Inductive' /\ alive' = InUse'
  BY <1>1, SameInUse
<1>4. Typed'
  BY <1>1 DEF Typed
<1>5. Finite'
  BY <1>2 DEF Finite, ComponentsOf
<1>6. Operation'
  BY <1>1, OperationEnds
<1>7. Marks'
  <2>1. \A x \in alive : \A u \in ComponentsOf(x) : u \in Types
    BY HeldIs DEF Archetypes
  <2>2. \A x \in alive' : \A u \in ComponentsOf(x)' :
            x \in alive /\ u \in ComponentsOf(x) /\ CellOf(x, u)' = CellOf(x, u)
    BY <1>2, <2>1 DEF SameFor
  <2> QED BY <1>1, <2>2, MarksSame
<1>8. Window'
  BY <1>1 DEF Window
<1>9. Lookups'
  <2>1. \A t \in Types : Waiting(t) = {}
    BY <1>1 DEF Waiting
  <2>2. \A t \in Types : Entries(t)' = Entries(t)
    BY <1>1, <1>2, EntriesSame DEF SameFor
  <2> QED BY <1>1, <2>1, <2>2, LookupsSame
<1> QED BY <1>2, <1>3, <1>4, <1>5, <1>6, <1>7, <1>8, <1>9

LEMMA LookupKeeps ==
    ASSUME WorldInductive, NEW t \in Types, Lookup(t) PROVE WorldInductive'
<1> USE DEF WorldInductive
<1>1. /\ pending = <<>> /\ removed' = removed /\ lost' = lost
      /\ alive' = alive /\ cursor' = cursor /\ typeTick' = typeTick
      /\ pending' = pending /\ subject' = subject /\ panicked' = panicked
      /\ index' = [index EXCEPT ![t] = Rebuilt(t)]
      /\ UNCHANGED <<allocatorVars, storageVars>>
  BY DEF Lookup, Idle, storageVars
<1>2. /\ Stored'
      /\ \A x \in alive' : x \in alive /\ ComponentsOf(x)' = ComponentsOf(x)
      /\ \A x \in alive : \A u \in Types : SameFor(x, u)
  BY <1>1, StoredSame
<1>3. Inductive' /\ alive' = InUse'
  BY <1>1, SameInUse
<1>4. /\ index' \in [Types -> Indexed] /\ index'[t].entries = Entries(t)
      /\ \A u \in Types : u # t => index'[u] = index[u]
  BY <1>1, RebuiltIs DEF Typed
<1>5. Typed'
  BY <1>1, <1>4 DEF Typed
<1>6. Finite'
  BY <1>2 DEF Finite, ComponentsOf
<1>7. Operation'
  BY <1>1, OperationEnds
<1>8. Marks'
  <2>1. \A x \in alive : \A u \in ComponentsOf(x) : u \in Types
    BY HeldIs DEF Archetypes
  <2>2. \A x \in alive' : \A u \in ComponentsOf(x)' :
            x \in alive /\ u \in ComponentsOf(x) /\ CellOf(x, u)' = CellOf(x, u)
    BY <1>2, <2>1 DEF SameFor
  <2> QED BY <1>1, <2>2, MarksSame
<1>9. Window'
  <2>1. \A u \in Types : Waiting(u) = {}
    BY <1>1 DEF Waiting
  <2> QED BY <1>1, <2>1, WindowKept DEF Typed, NotAfter
<1>10. Lookups'
  <2>1. \A u \in Types : Waiting(u) = {}
    BY <1>1 DEF Waiting
  <2>2. \A u \in Types : Entries(u)' = Entries(u)
    BY <1>1, <1>2, EntriesSame DEF SameFor
  <2>3. ASSUME ~ panicked', NEW u \in Types
        PROVE  index'[u].dirty \/ index'[u].entries = Entries(u)'
    <3>1. index[u].dirty \/ index[u].entries = Entries(u)
      BY <1>1, <2>1, <2>3 DEF Lookups
    <3> QED BY <1>4, <2>2, <3>1
  <2> QED BY <2>3 DEF Lookups, Entries, ComponentsOf, CellOf
<1> QED BY <1>2, <1>3, <1>5, <1>6, <1>7, <1>8, <1>9, <1>10

LEMMA WorldStutters ==
    ASSUME WorldInductive, UNCHANGED worldVars PROVE WorldInductive'
<1> USE DEF WorldInductive
<1>1. /\ UNCHANGED <<allocatorVars, storageVars>>
      /\ alive' = alive /\ removed' = removed /\ lost' = lost /\ cursor' = cursor
      /\ typeTick' = typeTick /\ index' = index /\ pending' = pending
      /\ subject' = subject /\ panicked' = panicked
      /\ rows' = rows /\ columns' = columns /\ locations' = locations
  BY DEF worldVars, storageVars, changeVars
<1>2. Inductive' /\ alive' = InUse'
  BY <1>1, SameInUse
<1>3. Stored' /\ Typed' /\ Finite'
  BY <1>1 DEF Stored, Typed, Finite, ComponentsOf
<1>4. Operation' /\ Marks' /\ Window' /\ Lookups'
  BY <1>1, SMTT(30) DEF Operation, Marks, Window, Lookups, Waiting, Entries, ComponentsOf, CellOf
<1> QED BY <1>2, <1>3, <1>4

LEMMA WorldAtFirst == WorldInit => WorldInductive
<1> SUFFICES ASSUME WorldInit PROVE WorldInductive
  OBVIOUS
<1> USE DEF WorldInit
<1>1. Inductive
  BY InductiveAtFirst
<1>2. alive = InUse
  BY DEF InUse, AllocatorInit
<1>3. Stored
  <2>1. \A k \in Archetypes : rows[k] = <<>> /\ <<>> \in Seq(Entities)
    OBVIOUS
  <2>2. rows \in [Archetypes -> Seq(Entities)]
    BY <2>1
  <2>3. \A k \in Archetypes : columns[k] \in [k -> Seq(Cells)]
    OBVIOUS
  <2>4. \A k \in Archetypes : \A t \in k : Len(columns[k][t]) = Len(rows[k])
    OBVIOUS
  <2>5. DOMAIN columns = Archetypes /\ alive = {} /\ locations \in [alive -> Places]
    OBVIOUS
  <2>6. \A k \in Archetypes : DOMAIN rows[k] = {}
    BY <2>1
  <2> QED BY <2>2, <2>3, <2>4, <2>5, <2>6 DEF Stored, Storage
<1>4. Typed
  <2>1. Origin \in Cursors
    BY CursorAssumption DEF Origin, Cursors
  <2>2. <<>> \in Seq(Removals) /\ <<>> \in Seq(Steps)
    OBVIOUS
  <2>3. cursor \in Cursors /\ typeTick \in [Types -> Cursors]
    BY <2>1
  <2>4. removed \in [Types -> Seq(Removals)]
    BY <2>2
  <2>5. index \in [Types -> Indexed]
    BY DEF Indexed
  <2>6. pending \in Seq(Steps) /\ panicked \in BOOLEAN /\ lost \subseteq Types \X Entities
    BY <2>2
  <2> QED BY <2>3, <2>4, <2>5, <2>6 DEF Typed
<1>5. Finite /\ Operation /\ Lookups
  BY DEF Finite, Operation, Lookups
<1>6. Marks
  BY DEF Marks, NotAfter
<1>7. Window
  BY DEF Window
<1> QED BY <1>1, <1>2, <1>3, <1>4, <1>5, <1>6, <1>7 DEF WorldInductive

LEMMA WorldKeeps ==
    ASSUME WorldInductive, [WorldNext]_worldVars PROVE WorldInductive'
<1>1. ASSUME NEW e \in Entities, NEW b \in Bundles, Spawn(e, b) PROVE WorldInductive'
  BY <1>1, SpawnKeeps
<1>2. ASSUME NEW e \in Entities, NEW b \in Bundles, Insert(e, b) PROVE WorldInductive'
  <2>1. PICK op : op = "insert"
    OBVIOUS
  <2>2. op \in {"insert", "remove"} /\ IF op = "insert" THEN Insert(e, b) ELSE Remove(e, b)
    BY <1>2, <2>1
  <2> QED BY <2>2, BeginKeeps
<1>3. ASSUME NEW e \in Entities, NEW b \in Bundles, Remove(e, b) PROVE WorldInductive'
  <2>1. PICK op : op = "remove"
    OBVIOUS
  <2>2. op \in {"insert", "remove"} /\ IF op = "insert" THEN Insert(e, b) ELSE Remove(e, b)
    BY <1>3, <2>1
  <2> QED BY <2>2, BeginKeeps
<1>4. ASSUME NEW e \in Entities, Despawn(e) PROVE WorldInductive'
  BY <1>4, DespawnKeeps
<1>5. ASSUME NEW e \in Entities, NEW t \in Types, NEW v \in Values, Modify(e, t, v)
      PROVE  WorldInductive'
  BY <1>5, ModifyKeeps
<1>6. ASSUME NEW t \in Types, Lookup(t) PROVE WorldInductive'
  BY <1>6, LookupKeeps
<1> QED BY <1>1, <1>2, <1>3, <1>4, <1>5, <1>6, CommitInsertKeeps, CommitRemoveKeeps,
           CommitRecordKeeps, BeginPublicationKeeps, WorldStutters DEF WorldNext

(* The storage is sound and the records of change are behind it, between   *)
(* any two steps of any operation.                                         *)
THEOREM WorldInvariant == WorldSpec => []WorldInductive
BY WorldAtFirst, WorldKeeps, PTL DEF WorldSpec
-----------------------------------------------------------------------------
(* What the invariant says.                                                *)

(* Every entity is where it is said to be, and nowhere else.               *)
THEOREM PlacesAgree == WorldSpec => []OnePlaceEach
<1>1. ASSUME WorldInductive PROVE OnePlaceEach
  <2>1. Stored /\ alive = {e \in Entities : issued[e] > 0 /\ e \notin freed}
    BY <1>1 DEF WorldInductive, InUse
  <2>2. DOMAIN locations = alive
    BY <2>1 DEF Stored, Storage
  <2> QED BY <2>1, <2>2 DEF OnePlaceEach, Stored, Storage
<1> QED BY <1>1, WorldInvariant, PTL

LEMMA EntitiesFinite == IsFiniteSet(Entities)
<1> DEFINE P == Indices \X Generations
           f == [p \in P |-> [index |-> p[1], generation |-> p[2]]]
<1>1. IsFiniteSet(Indices) /\ IsFiniteSet(Generations)
  BY AllocatorAssumption, FS_Interval DEF Indices, Generations
<1>2. IsFiniteSet(P)
  BY <1>1, FS_Product
<1>3. f \in [P -> Entities]
  BY DEF Entities
<1>4. ASSUME NEW e \in Entities PROVE \E p \in P : f[p] = e
  <2>1. /\ e.index \in Indices /\ e.generation \in Generations
        /\ e = [index |-> e.index, generation |-> e.generation]
    BY DEF Entities
  <2>2. <<e.index, e.generation>> \in P
    BY <2>1
  <2>3. f[<<e.index, e.generation>>] = e
    BY <2>1, <2>2
  <2> QED BY <2>2, <2>3
<1>5. f \in Surjection(P, Entities)
  BY <1>3, <1>4 DEF Surjection
<1> QED BY <1>2, <1>5, FS_Surjection

(* A query visits whom it should, once.                                    *)
LEMMA QueryFinds ==
    ASSUME Stored, NEW required \in Archetypes, NEW excluded \in Archetypes
    PROVE  LET found == Matching(required, excluded)
               wanted == {e \in alive : /\ required \subseteq ComponentsOf(e)
                                        /\ excluded \intersect ComponentsOf(e) = {}}
           IN  /\ {rows[m[1]][m[2]] : m \in found} = wanted
               /\ Cardinality(found) = Cardinality(wanted)
<1> DEFINE found == Matching(required, excluded)
           wanted == {e \in alive : /\ required \subseteq ComponentsOf(e)
                                    /\ excluded \intersect ComponentsOf(e) = {}}
           f == [e \in wanted |-> <<ComponentsOf(e), locations[e].row>>]
<1>1. ASSUME NEW m \in found
      PROVE  /\ rows[m[1]][m[2]] \in wanted
             /\ f[rows[m[1]][m[2]]] = m
  <2>1. /\ m = <<m[1], m[2]>> /\ rows[m[1]][m[2]] \in alive
        /\ ComponentsOf(rows[m[1]][m[2]]) = m[1]
        /\ locations[rows[m[1]][m[2]]].row = m[2]
        /\ required \subseteq m[1] /\ excluded \intersect m[1] = {}
    BY MatchingIs
  <2> QED BY <2>1
<1>2. ASSUME NEW e \in wanted
      PROVE  /\ f[e] \in found
             /\ rows[ComponentsOf(e)][locations[e].row] = e
  BY MatchingIs
<1>3. {rows[m[1]][m[2]] : m \in found} = wanted
  <2>1. ASSUME NEW e \in wanted PROVE \E m \in found : rows[m[1]][m[2]] = e
    <3>1. <<ComponentsOf(e), locations[e].row>> \in found
      BY <1>2
    <3> QED BY <1>2, <3>1
  <2> HIDE DEF found, wanted
  <2> QED BY <1>1, <2>1
<1>4. f \in [wanted -> found]
  BY <1>2
<1>5. \A a, b \in wanted : f[a] = f[b] => a = b
  BY <1>2
<1>6. \A m \in found : \E e \in wanted : f[e] = m
  BY <1>1
<1> HIDE DEF f, found, wanted
<1>7. f \in Bijection(wanted, found)
  BY <1>4, <1>5, <1>6 DEF Bijection, Injection, Surjection, IsInjective
<1>8. IsFiniteSet(wanted)
  <2>1. wanted \in SUBSET Entities
    BY HeldIs DEF wanted
  <2> QED BY <2>1, EntitiesFinite, FS_Subset
<1>9. Cardinality(found) = Cardinality(wanted)
  BY <1>7, <1>8, FS_Bijection DEF ExistsBijection
<1> QED BY <1>3, <1>9 DEF found, wanted

THEOREM QueriesVisitOnce == WorldSpec => []QueriesExact
<1>1. WorldInductive => QueriesExact
  BY QueryFinds DEF WorldInductive, QueriesExact
<1> QED BY <1>1, WorldInvariant, PTL

(* No row has changed behind its component's mark.                         *)
THEOREM MarksAbove == WorldSpec => []ChangesBelowMarks
<1>1. ASSUME WorldInductive PROVE ChangesBelowMarks
  <2>1. \A e \in alive : ComponentsOf(e) \subseteq Types
    BY <1>1, HeldIs DEF WorldInductive, Archetypes
  <2> QED BY <1>1, <2>1 DEF WorldInductive, Marks, ChangesBelowMarks
<1> QED BY <1>1, WorldInvariant, PTL

(* Every component lost is reported, if no operation panicked.             *)
THEOREM LossesReported == WorldSpec => []RemovalsReported
<1>1. ASSUME WorldInductive PROVE RemovalsReported
  <2>1. \A t \in Types : \A i \in DOMAIN removed[t] :
           /\ <<t, removed[t][i].entity>> \in lost
           /\ \A j \in DOMAIN removed[t] :
                 i < j => Before(removed[t][i].tick, removed[t][j].tick)
    BY <1>1 DEF WorldInductive, Window
  <2>2. ASSUME Idle, ~ panicked, NEW p \in lost
        PROVE  \E i \in DOMAIN removed[p[1]] : removed[p[1]][i].entity = p[2]
    <3>1. p[1] \in Types /\ p[2] \in Entities /\ p = <<p[1], p[2]>>
      BY <1>1 DEF WorldInductive, Typed
    <3>2. Waiting(p[1]) = {}
      BY <2>2 DEF Waiting, Idle
    <3>3. <<p[1], p[2]>> \in lost
      BY <3>1
    <3> QED BY <1>1, <2>2, <3>1, <3>2, <3>3 DEF WorldInductive, Window
  <2> QED BY <2>1, <2>2 DEF RemovalsReported
<1> QED BY <1>1, WorldInvariant, PTL

(* A clean index is what a rebuild would find, if no operation panicked.   *)
THEOREM IndexesTrue == WorldSpec => []IndexesCurrent
<1>1. ASSUME WorldInductive PROVE IndexesCurrent
  <2>1. ASSUME Idle, ~ panicked, NEW t \in Types
        PROVE  index[t].dirty \/ index[t].entries = Entries(t)
    <3>1. Waiting(t) = {}
      BY <2>1 DEF Waiting, Idle
    <3> QED BY <1>1, <2>1, <3>1 DEF WorldInductive, Lookups
  <2> QED BY <2>1 DEF IndexesCurrent, Entries
<1> QED BY <1>1, WorldInvariant, PTL
-----------------------------------------------------------------------------
(* The world as a store of cells.                                          *)

LEMMA HeldShape ==
    ASSUME Stored, Stored'
    PROVE  /\ DOMAIN Held = alive /\ DOMAIN Held' = alive'
           /\ Held' = [x \in alive' |-> Held'[x]]
<1>1. DOMAIN locations = alive /\ DOMAIN locations' = alive'
  BY DEF Stored, Storage
<1> QED BY <1>1 DEF Held, Contents

LEMMA Update ==
    ASSUME Stored, NEW e \in alive, alive' = alive, NEW new, Becomes(e, new)
    PROVE  Held' = [Held EXCEPT ![e] = new]
<1>1. /\ DOMAIN Held = alive
      /\ Held' = [x \in alive |-> Held'[x]]
  BY HeldShape DEF Becomes
<1>2. \A x \in alive : Held'[x] = [Held EXCEPT ![e] = new][x]
  BY <1>1 DEF Becomes
<1>3. [Held EXCEPT ![e] = new] = [x \in alive |-> [Held EXCEPT ![e] = new][x]]
  BY <1>1
<1> QED BY <1>1, <1>2, <1>3

LEMMA SpawnCreates ==
    ASSUME WorldInductive, NEW e \in Entities, NEW bundle \in Bundles,
           Spawn(e, bundle)
    PROVE  Store!Create(e)
<1>1. /\ Becomes(e, Nothing) /\ e \notin alive /\ alive' = alive \union {e}
      /\ cursor' = cursor /\ Stored
  BY SpawnKeeps DEF Spawn, Have, changeVars, WorldInductive
<1>2. /\ DOMAIN Held = alive
      /\ Held' = [x \in alive \union {e} |-> Held'[x]]
  BY <1>1, HeldShape DEF Becomes
<1>3. \A x \in alive \union {e} : Held'[x] = IF x = e THEN Nothing ELSE Held[x]
  BY <1>1 DEF Becomes
<1>4. Held' = [x \in DOMAIN Held \union {e} |-> IF x = e THEN Nothing ELSE Held[x]]
  BY <1>2, <1>3
<1>5. Nothing = Store!NoCells
  BY DEF Nothing, Store!NoCells
<1>6. e \notin DOMAIN Held
  BY <1>1, <1>2
<1> QED BY <1>1, <1>4, <1>5, <1>6
        DEF Store!Create, Store!Living, Held, Contents, ComponentsOf, CellOf
LEMMA DespawnDestroys ==
    ASSUME WorldInductive, NEW e \in Entities, Despawn(e)
    PROVE  Store!Destroy(e)
<1>1. /\ e \in alive /\ alive' = alive \ {e} /\ cursor' = cursor
      /\ \A x \in alive' : Held'[x] = Held[x]
      /\ Stored /\ Stored'
  BY DespawnKeeps DEF Despawn, Have, changeVars, WorldInductive
<1>2. DOMAIN Held = alive /\ Held' = [x \in alive' |-> Held'[x]]
  BY <1>1, HeldShape
<1>3. Held' = [x \in DOMAIN Held \ {e} |-> Held[x]] /\ e \in DOMAIN Held
  BY <1>1, <1>2
<1> QED BY <1>1, <1>3
        DEF Store!Destroy, Store!Living, Held, Contents, ComponentsOf, CellOf

(* A component is written.                                                 *)
LEMMA WritePuts ==
    ASSUME Stored, NEW e \in alive, alive' = alive, NEW t \in Types,
           NEW v \in Values, cursor \in Cursors, ~ Exhausted(cursor),
           cursor' = NextCursor(cursor),
           IF t \in ComponentsOf(e) THEN UpdateComponent(e, t, v, NextCursor(cursor))
           ELSE AddComponent(e, t, v, NextCursor(cursor))
    PROVE  Store!Put(e, t, v)
<1>1. PICK at \in Cursors : at = NextCursor(cursor) /\ at = cursor'
  BY NextIs
<1>2. IF t \in ComponentsOf(e) THEN UpdateComponent(e, t, v, at)
      ELSE AddComponent(e, t, v, at)
  BY <1>1
<1>3. PICK new : new = PutIn(e, t, v, at)
  OBVIOUS
<1>4. Becomes(e, new)
  BY <1>2, <1>3, PutKeeps
<1>5. Held' = [Held EXCEPT ![e] = new]
  BY <1>4, Update
<1>6. DOMAIN Held = alive /\ DOMAIN Held[e] = ComponentsOf(e)
  BY HeldIs
<1>7. new = [u \in DOMAIN Held[e] \union {t} |->
                IF u # t THEN Held[e][u]
                ELSE [value |-> v, changed |-> cursor',
                      added |-> IF t \in DOMAIN Held[e] THEN Held[e][t].added
                                ELSE cursor']]
  BY <1>1, <1>3, <1>6 DEF PutIn
<1>8. /\ e \in DOMAIN Held
      /\ Held' = [Held EXCEPT ![e] =
                    [u \in DOMAIN @ \union {t} |->
                        IF u # t THEN Held[e][u]
                        ELSE [value |-> v, changed |-> cursor',
                              added |-> IF t \in DOMAIN Held[e] THEN Held[e][t].added
                                        ELSE cursor']]]
  BY <1>5, <1>6, <1>7
<1>9. ~ Store!Exhausted(cursor) /\ cursor' = Store!NextCursor(cursor)
  BY DEF Store!Exhausted, Exhausted, Store!NextCursor, NextCursor
<1> QED BY <1>8, <1>9
        DEF Store!Put, Store!Living, Held, Contents, ComponentsOf, CellOf

LEMMA RemovalTakes ==
    ASSUME Stored, NEW e \in alive, alive' = alive, NEW t \in ComponentsOf(e),
           RemoveComponent(e, t),
           cursor' = IF Exhausted(cursor) THEN cursor ELSE NextCursor(cursor)
    PROVE  Store!Take(e, t)
<1>1. PICK new : new = TakenFrom(e, t)
  OBVIOUS
<1>2. Becomes(e, new)
  BY <1>1, TakeKeeps
<1>3. Held' = [Held EXCEPT ![e] = new]
  BY <1>2, Update
<1>4. DOMAIN Held = alive /\ DOMAIN Held[e] = ComponentsOf(e)
  BY HeldIs
<1>5. new = [u \in DOMAIN Held[e] \ {t} |-> Held[e][u]]
  BY <1>1, <1>4 DEF TakenFrom
<1>6. /\ e \in DOMAIN Held /\ t \in DOMAIN Held[e]
      /\ Held' = [Held EXCEPT ![e] = [u \in DOMAIN @ \ {t} |-> Held[e][u]]]
  BY <1>3, <1>4, <1>5
<1>7. cursor' = IF Store!Exhausted(cursor) THEN cursor ELSE Store!NextCursor(cursor)
  BY DEF Store!Exhausted, Exhausted, Store!NextCursor, NextCursor
<1> QED BY <1>6, <1>7
        DEF Store!Take, Store!Living, Held, Contents, ComponentsOf, CellOf

(* A step that moves neither cells nor the cursor.                         *)
LEMMA StoreSame ==
    ASSUME UNCHANGED <<columns, locations, cursor>> PROVE UNCHANGED Store!storeVars
BY DEF Store!storeVars, ComponentsOf, CellOf

LEMMA CommitInsertPuts ==
    ASSUME WorldInductive, CommitInsert
    PROVE  \/ \E e \in Entities, t \in Types, v \in Values : Store!Put(e, t, v)
           \/ UNCHANGED Store!storeVars
<1> PICK e, t : e = subject /\ t = Head(pending).type
  OBVIOUS
<1>1. t \in Types /\ e \in alive /\ e \in Entities /\ cursor \in Cursors /\ Stored
  <2>1. Head(pending) \in Steps /\ Head(pending) = pending[1] /\ 1 \in DOMAIN pending
    BY Proceeds DEF CommitInsert, Doing, WorldInductive
  <2>2. t \in Types
    BY <2>1 DEF Steps
  <2>3. e \in alive
    BY <2>1 DEF WorldInductive, Operation, CommitInsert, Doing
  <2> QED BY <2>2, <2>3, HeldIs DEF WorldInductive, Typed
<1>2. CASE Exhausted(cursor)
  BY <1>2, StoreSame DEF CommitInsert, Panic, changeVars
<1>3. CASE ~ Exhausted(cursor)
  <2>1. PICK v \in Values :
           IF t \in ComponentsOf(e)
           THEN UpdateComponent(e, t, v, NextCursor(cursor))
           ELSE AddComponent(e, t, v, NextCursor(cursor))
    BY <1>3 DEF CommitInsert
  <2>2. cursor' = NextCursor(cursor) /\ alive' = alive
    BY <1>3 DEF CommitInsert, RecordChange
  <2>3. Store!Put(e, t, v)
    BY <1>1, <1>3, <2>1, <2>2, WritePuts
  <2> QED BY <1>1, <2>3
<1> QED BY <1>2, <1>3

LEMMA CommitRemoveTakes ==
    ASSUME WorldInductive, CommitRemove
    PROVE  \E e \in Entities, t \in Types : Store!Take(e, t)
<1> PICK e, t : e = subject /\ t = Head(pending).type
  OBVIOUS
<1>1. t \in Types /\ e \in alive /\ e \in Entities /\ t \in ComponentsOf(e) /\ Stored
  <2>1. Head(pending) \in Steps /\ Head(pending) = pending[1] /\ 1 \in DOMAIN pending
    BY Proceeds DEF CommitRemove, Doing, WorldInductive
  <2>2. t \in Types
    BY <2>1 DEF Steps
  <2>3. e \in alive /\ t \in ComponentsOf(e)
    BY <2>1 DEF WorldInductive, Operation, CommitRemove, Doing
  <2> QED BY <2>2, <2>3, HeldIs DEF WorldInductive
<1>2. RemoveComponent(e, t) /\ alive' = alive
  BY DEF CommitRemove
<1>3. cursor' = IF Exhausted(cursor) THEN cursor ELSE NextCursor(cursor)
  BY DEF CommitRemove, Panic, changeVars, RecordRemoval, RecordChange
<1> QED BY <1>1, <1>2, <1>3, RemovalTakes

LEMMA ModifyPuts ==
    ASSUME WorldInductive, NEW e \in Entities, NEW t \in Types, NEW v \in Values,
           Modify(e, t, v)
    PROVE  Store!Put(e, t, v) \/ UNCHANGED Store!storeVars
<1>1. e \in alive /\ t \in ComponentsOf(e) /\ cursor \in Cursors /\ Stored
  BY DEF Modify, Exists, WorldInductive, Typed
<1>2. CASE Exhausted(cursor)
  BY <1>2, StoreSame DEF Modify, Panic, changeVars
<1>3. CASE ~ Exhausted(cursor)
  <2>1. /\ cursor' = NextCursor(cursor) /\ alive' = alive
        /\ UpdateComponent(e, t, v, NextCursor(cursor))
    BY <1>3 DEF Modify, RecordChange
  <2> QED BY <1>1, <1>3, <2>1, WritePuts
<1> QED BY <1>2, <1>3

LEMMA CommitRecordPasses ==
    ASSUME CommitRecord PROVE Store!Pass \/ UNCHANGED Store!storeVars
<1>1. UNCHANGED <<columns, locations>>
  BY DEF CommitRecord, storageVars
<1>2. CASE Exhausted(cursor)
  BY <1>1, <1>2, StoreSame DEF CommitRecord, Panic, changeVars
<1>3. CASE ~ Exhausted(cursor)
  <2>1. ~ Store!Exhausted(cursor) /\ cursor' = Store!NextCursor(cursor)
    BY <1>3 DEF CommitRecord, RecordRemoval, RecordChange,
                Store!Exhausted, Exhausted, Store!NextCursor, NextCursor
  <2> QED BY <1>1, <2>1 DEF Store!Pass, ComponentsOf, CellOf
<1> QED BY <1>2, <1>3

(* Every step of the world is one of the store, or leaves it as it is.     *)
THEOREM WorldImplementsStore == WorldSpec => ImplementsStore
<1>1. WorldInit => Store!StoreInit
  BY DEF WorldInit, Store!StoreInit, Store!Origin, Origin, Store!NoCells
<1>2. ASSUME WorldInductive, [WorldNext]_worldVars
      PROVE  [Store!StoreNext]_Store!storeVars
  <2> USE <1>2
  <2>1. ASSUME NEW e \in Entities, NEW b \in Bundles, Spawn(e, b)
        PROVE  Store!StoreNext
    BY <2>1, SpawnCreates DEF Store!StoreNext
  <2>2. ASSUME NEW e \in Entities, NEW b \in Bundles, Insert(e, b) \/ Remove(e, b)
        PROVE  UNCHANGED Store!storeVars
    BY <2>2, StoreSame DEF Insert, Remove, Have, storageVars, changeVars
  <2>3. ASSUME NEW e \in Entities, Despawn(e) PROVE Store!StoreNext
    BY <2>3, DespawnDestroys DEF Store!StoreNext
  <2>4. ASSUME NEW e \in Entities, NEW t \in Types, NEW v \in Values, Modify(e, t, v)
        PROVE  [Store!StoreNext]_Store!storeVars
    BY <2>4, ModifyPuts DEF Store!StoreNext
  <2>5. CASE CommitInsert
    BY <2>5, CommitInsertPuts DEF Store!StoreNext
  <2>6. CASE CommitRemove
    BY <2>6, CommitRemoveTakes DEF Store!StoreNext
  <2>7. CASE CommitRecord
    BY <2>7, CommitRecordPasses DEF Store!StoreNext
  <2>8. CASE BeginPublication
    BY <2>8, StoreSame DEF BeginPublication, storageVars
  <2>9. ASSUME NEW t \in Types, Lookup(t) PROVE UNCHANGED Store!storeVars
    BY <2>9, StoreSame DEF Lookup, storageVars
  <2>10. CASE UNCHANGED worldVars
    BY <2>10, StoreSame DEF worldVars, storageVars, changeVars
  <2> QED
    BY <2>1, <2>2, <2>3, <2>4, <2>5, <2>6, <2>7, <2>8, <2>9, <2>10 DEF WorldNext
<1> QED BY <1>1, <1>2, WorldInvariant, PTL
        DEF WorldSpec, ImplementsStore, Store!StoreSpec

=============================================================================
