----------------------------- MODULE ScheduleProofs -----------------------------
(***************************************************************************)
(* Planning, for every set of schedules: the plan respects every declared  *)
(* precedence, its depths are exact, a cycle verdict is justified, deferred*)
(* commands are published in time, with the fewest frontiers possible.     *)
(*                                                                         *)
(* Registration, for any systems, schedules and number of identities, and  *)
(* whatever planning makes of them.  That a request never sees an old plan *)
(* is inductive with typing: plans are either marked dirty or exactly those*)
(* of the systems.  That a call claims identities exactly when enough are  *)
(* left needs that the next one is determined by the number of systems.    *)
(***************************************************************************)
EXTENDS SchedulePlan, ScheduleRegistry, FiniteSetTheorems,
        WellFoundedInduction, NaturalsInduction, SequenceTheorems, TLAPS

-----------------------------------------------------------------------------
(* Planning.                                                               *)


(* A nonempty set of naturals has a least member.                          *)
LEMMA LeastNatural ==
    ASSUME NEW T \in SUBSET Nat, T # {}
    PROVE  \E x \in T : \A y \in T : x <= y
<1> DEFINE R == {pair \in Nat \X Nat : pair[1] < pair[2]}
<1>1. IsWellFoundedOn(R, Nat)
  BY NatLessThanWellFounded DEF OpToRel
<1> HIDE DEF R
<1>2. \E x \in T : \A y \in T : ~ (<<y, x>> \in R)
  BY <1>1, WFMin
<1>3. PICK x \in T : \A y \in T : ~ (<<y, x>> \in R)
  BY <1>2
<1>4. ASSUME NEW y \in T PROVE x <= y
  <2>1. x \in Nat /\ y \in Nat /\ <<y, x>> \notin R
    BY <1>3
  <2>2. ~ (y < x)
    BY <2>1 DEF R
  <2>3. QED
    BY <2>1, <2>2
<1>5. QED
  BY <1>4

(* Facts about one schedule.                                               *)
LEMMA PositionsFinite ==
    ASSUME NEW s \in Schedules
    PROVE  /\ s.size \in Nat
           /\ Positions(s) \subseteq Nat
           /\ IsFiniteSet(Positions(s))
           /\ Cardinality(Positions(s)) = s.size
<1>1. s.size \in Nat
  BY SchedulesAssumption
<1> DEFINE last == s.size - 1
<1>2. last \in Int
  BY <1>1
<1> HIDE DEF last
<1>3. IsFiniteSet(0..last)
      /\ Cardinality(0..last) = IF 0 > last THEN 0 ELSE last - 0 + 1
  BY <1>2, FS_Interval
<1>4. Positions(s) = 0..last
  BY DEF Positions, last
<1>5. s.size = last + 1
  BY <1>1 DEF last
<1>6. Cardinality(Positions(s)) = s.size
  BY <1>1, <1>2, <1>3, <1>4, <1>5
<1>7. Positions(s) \subseteq Nat
  BY <1>2, <1>4
<1>8. QED
  BY <1>1, <1>3, <1>4, <1>6, <1>7

LEMMA EdgesTyped ==
    ASSUME NEW s \in Schedules, NEW e \in Edges(s)
    PROVE  e[1] \in Positions(s) /\ e[2] \in Positions(s)
BY DEF Edges

(* The systems before p, in the order by depth and registration.           *)
Before(s, depths, p) == {q \in Positions(s) : Precedes(depths, q, p)}

LEMMA RankCounts ==
    ASSUME NEW s \in Schedules, NEW depths \in [Positions(s) -> Nat],
           NEW p \in Positions(s)
    PROVE  /\ IsFiniteSet(Before(s, depths, p))
           /\ RankBy(s, depths)[p] = Cardinality(Before(s, depths, p))
           /\ RankBy(s, depths)[p] \in Nat
           /\ RankBy(s, depths)[p] < s.size
<1> DEFINE B == Before(s, depths, p)
<1>1. B \in SUBSET Positions(s) /\ p \notin B
  BY PositionsFinite DEF Before, Precedes
<1>2. IsFiniteSet(B) /\ Cardinality(B) <= Cardinality(Positions(s))
      /\ (Cardinality(Positions(s)) = Cardinality(B) => Positions(s) = B)
  BY <1>1, PositionsFinite, FS_Subset
<1>3. Cardinality(B) \in Nat
  BY <1>2, FS_CardinalityType
<1>4. Cardinality(B) < s.size
  BY <1>1, <1>2, <1>3, PositionsFinite
<1>5. RankBy(s, depths)[p] = Cardinality(B)
  BY DEF RankBy, Before
<1>6. QED
  BY <1>2, <1>3, <1>4, <1>5

LEMMA RankMonotone ==
    ASSUME NEW s \in Schedules, NEW depths \in [Positions(s) -> Nat],
           NEW p \in Positions(s), NEW q \in Positions(s),
           Precedes(depths, p, q)
    PROVE  RankBy(s, depths)[p] < RankBy(s, depths)[q]
<1> DEFINE B == Before(s, depths, p)
           C == Before(s, depths, q)
<1>1. B \in SUBSET C /\ p \in C /\ p \notin B
  <2>1. Positions(s) \subseteq Nat /\ \A r \in Positions(s) : depths[r] \in Nat
    BY PositionsFinite
  <2>2. QED
    BY <2>1 DEF Before, Precedes
<1>2. IsFiniteSet(C) /\ IsFiniteSet(B)
  BY RankCounts
<1>3. Cardinality(B) <= Cardinality(C) /\ Cardinality(C) # Cardinality(B)
  BY <1>1, <1>2, FS_Subset
<1>4. Cardinality(B) \in Nat /\ Cardinality(C) \in Nat
  BY <1>2, FS_CardinalityType
<1>5. QED
  BY <1>3, <1>4, RankCounts

(* Sorting by depths that increase along every edge gives a reference      *)
(* order that keeps every precedence and has one system per rank.          *)
LEMMA SortKeepsPrecedence ==
    ASSUME NEW s \in Schedules, NEW depths \in [Positions(s) -> Nat],
           \A e \in Edges(s) : depths[e[1]] < depths[e[2]]
    PROVE  LET rk == RankBy(s, depths)
           IN  /\ rk \in [Positions(s) -> Nat]
               /\ \A e \in Edges(s) : rk[e[1]] < rk[e[2]]
               /\ \A p, q \in Positions(s) : rk[p] = rk[q] => p = q
               /\ \A p \in Positions(s) : rk[p] < s.size
<1> DEFINE rk == RankBy(s, depths)
<1>1. rk \in [Positions(s) -> Nat]
  <2>1. rk = [p \in Positions(s) |-> rk[p]]
    BY DEF RankBy
  <2>2. QED
    BY <2>1, RankCounts
<1>2. ASSUME NEW e \in Edges(s) PROVE rk[e[1]] < rk[e[2]]
  <2>1. e[1] \in Positions(s) /\ e[2] \in Positions(s)
    BY EdgesTyped
  <2>2. Precedes(depths, e[1], e[2])
    BY DEF Precedes
  <2>3. QED
    BY <2>1, <2>2, RankMonotone
<1>3. ASSUME NEW p \in Positions(s), NEW q \in Positions(s), p # q
      PROVE  rk[p] # rk[q]
  <2>1. p \in Nat /\ q \in Nat /\ depths[p] \in Nat /\ depths[q] \in Nat
    BY PositionsFinite
  <2>2. Precedes(depths, p, q) \/ Precedes(depths, q, p)
    BY <2>1, <1>3 DEF Precedes
  <2>3. rk[p] < rk[q] \/ rk[q] < rk[p]
    BY <2>2, RankMonotone
  <2>4. rk[p] \in Nat /\ rk[q] \in Nat
    BY <1>1
  <2>5. QED
    BY <2>3, <2>4
<1>4. \A p \in Positions(s) : rk[p] < s.size
  BY RankCounts
<1>5. QED
  BY <1>1, <1>2, <1>3, <1>4

(* An obligation leaves room for a cut between producer and deadline.      *)
LEMMA ObligationsTyped ==
    ASSUME NEW s \in Schedules, NEW rk \in [Positions(s) -> Nat],
           \A e \in Edges(s) : rk[e[1]] < rk[e[2]],
           \A p \in Positions(s) : rk[p] < s.size,
           NEW o \in Obligations(s, rk)
    PROVE  /\ o.producer \in Nat
           /\ o.deadline \in 1..s.size
           /\ o.producer < o.deadline
<1>1. s.size \in Nat /\ s.deferred \subseteq Positions(s)
  BY SchedulesAssumption
<1>2. CASE \E e \in Edges(s) :
              o = [producer |-> rk[e[1]], deadline |-> rk[e[2]]]
  <2>1. PICK e \in Edges(s) :
              o = [producer |-> rk[e[1]], deadline |-> rk[e[2]]]
    BY <1>2
  <2>2. e[1] \in Positions(s) /\ e[2] \in Positions(s)
    BY EdgesTyped
  <2>3. rk[e[1]] \in Nat /\ rk[e[2]] \in Nat /\ rk[e[1]] < rk[e[2]]
        /\ rk[e[2]] < s.size
    BY <2>2
  <2>4. QED
    BY <1>1, <2>1, <2>3
<1>3. CASE \E p \in s.deferred : o = [producer |-> rk[p], deadline |-> s.size]
  <2>1. PICK p \in s.deferred : o = [producer |-> rk[p], deadline |-> s.size]
    BY <1>3
  <2>2. rk[p] \in Nat /\ rk[p] < s.size
    BY <1>1
  <2>3. QED
    BY <1>1, <2>1, <2>2
<1>4. QED
  BY <1>2, <1>3 DEF Obligations

(* Cuts each of which is the deadline of an obligation that no earlier cut *)
(* could cover are as few as any that cover all obligations: those         *)
(* obligations are pairwise disjoint.                                      *)
LEMMA DisjointNeedAsMany ==
    ASSUME NEW n \in Nat, NEW C \in SUBSET (1..n), NEW H \in SUBSET (1..n),
           NEW O, \A o \in O : o.producer \in Nat /\ o.deadline \in Nat,
           \A o \in O : Hits(H, o),
           \A c \in C : \E o \in O :
               o.deadline = c /\ \A b \in C : b < c => b <= o.producer
    PROVE  Cardinality(C) <= Cardinality(H)
<1> DEFINE Due1(c, o) == o.deadline = c /\ \A b \in C : b < c => b <= o.producer
           ob(c) == CHOOSE o \in O : Due1(c, o)
           hit(c) == CHOOSE h \in H : Covers(h, ob(c))
           f == [c \in C |-> hit(c)]
<1>0. C \subseteq Int /\ H \subseteq Int
  OBVIOUS
<1>1. ASSUME NEW c \in C PROVE ob(c) \in O /\ Due1(c, ob(c))
  <2>1. \E o \in O : Due1(c, o)
    OBVIOUS
  <2>2. QED
    BY <2>1
<1>2. ASSUME NEW c \in C PROVE hit(c) \in H /\ Covers(hit(c), ob(c))
  <2>1. \E h \in H : Covers(h, ob(c))
    BY <1>1 DEF Hits
  <2>2. QED
    BY <2>1
<1> HIDE DEF ob, hit
<1>3. ASSUME NEW c \in C, NEW b \in C, b < c PROVE hit(b) # hit(c)
  <2>1. hit(b) <= b
    BY <1>1, <1>2 DEF Covers
  <2>2. b <= ob(c).producer
    BY <1>1, <1>3
  <2>3. ob(c).producer < hit(c)
    BY <1>2 DEF Covers
  <2>4. hit(b) \in H /\ hit(c) \in H /\ ob(c) \in O
    BY <1>1, <1>2
  <2>5. hit(b) \in Int /\ hit(c) \in Int /\ b \in Int
    BY <1>0, <2>4
  <2>6. ob(c).producer \in Int
    BY <2>4
  <2>7. QED
    BY <2>1, <2>2, <2>3, <2>5, <2>6
<1>4. f \in [C -> H]
  BY <1>2
<1>5. ASSUME NEW a \in C, NEW b \in C, f[a] = f[b] PROVE a = b
  <2>1. hit(a) = hit(b)
    BY <1>5
  <2>2. a \in Int /\ b \in Int
    OBVIOUS
  <2>3. ~ (a < b) /\ ~ (b < a)
    BY <2>1, <1>3
  <2>4. QED
    BY <2>2, <2>3
<1>6. f \in Injection(C, H)
  BY <1>4, <1>5 DEF Injection, IsInjective
<1>7. IsFiniteSet(H)
  <2>1. IsFiniteSet(1..n)
    BY FS_Interval
  <2>2. QED
    BY <2>1, FS_Subset
<1>8. QED
  BY <1>6, <1>7, FS_Injection

-----------------------------------------------------------------------------
(* The invariant is inductive: one lemma per action.                       *)
LEMMA InitInductive == Init => Inductive
<1> SUFFICES ASSUME Init PROVE Inductive
  OBVIOUS
<1>1. TypeOK
  BY DEF Init, TypeOK, Phases, Pos
<1>2. Looping
  BY DEF Init, Looping
<1>3. Sorted
  BY DEF Init, Sorted
<1>4. Selecting
  BY DEF Init, Selecting
<1>5. QED
  BY <1>1, <1>2, <1>3, <1>4 DEF Inductive

LEMMA PosFinite ==
    ASSUME TypeOK
    PROVE  /\ schedule \in Schedules
           /\ schedule.size \in Nat
           /\ Pos \subseteq Nat
           /\ IsFiniteSet(Pos)
           /\ Cardinality(Pos) = schedule.size
BY PositionsFinite DEF TypeOK, Pos

LEMMA PredecessorsFinite ==
    ASSUME TypeOK, NEW p, NEW S
    PROVE  /\ IsFiniteSet(Predecessors(p))
           /\ IsFiniteSet(Predecessors(p) \ S)
           /\ Cardinality(Predecessors(p)) \in Nat
           /\ Cardinality(Predecessors(p) \ S) \in Nat
<1>1. Predecessors(p) \in SUBSET Pos /\ Predecessors(p) \ S \in SUBSET Pos
  BY DEF Predecessors
<1>2. IsFiniteSet(Predecessors(p)) /\ IsFiniteSet(Predecessors(p) \ S)
  BY <1>1, PosFinite, FS_Subset
<1>3. QED
  BY <1>2, FS_CardinalityType

LEMMA RejectUnresolvedStep ==
    ASSUME Inductive, RejectUnresolved
    PROVE  Inductive'
<1> USE DEF Inductive, RejectUnresolved
<1>1. TypeOK'
  BY DEF TypeOK, Phases, Pos
<1>2. Looping' /\ Selecting'
  BY DEF Looping, Selecting
<1>3. Sorted'
  BY DEF Sorted, Pos
<1>4. QED
  BY <1>1, <1>2, <1>3

LEMMA ResolveStep ==
    ASSUME Inductive, Resolve
    PROVE  Inductive'
<1> USE DEF Inductive, Resolve
<1>0. Pos' = Pos /\ \A p : Predecessors(p)' = Predecessors(p)
  BY DEF Pos, Predecessors
<1>1. \A p \in Pos : InDegree(p) \in Nat
  BY PredecessorsFinite DEF InDegree
<1>2. incoming' \in [Pos -> Nat] /\ \A p \in Pos : incoming'[p] = InDegree(p)
  BY <1>1
<1>3. TypeOK'
  BY <1>0, <1>2 DEF TypeOK, Phases
<1>4. Taken' = {}
  BY <1>0 DEF Taken
<1>5. Looping'
  <2>1. depth = [p \in Pos |-> 0] /\ taken = 0
    BY DEF Sorted
  <2>2. \A p \in Pos : incoming'[p] = Cardinality(Predecessors(p) \ {})
    BY <1>2 DEF InDegree
  <2>3. \A p \in ready' : incoming'[p] = 0
    OBVIOUS
  <2>4. taken = Cardinality({})
    BY <2>1, FS_EmptySet
  <2>5. QED
    BY <1>0, <1>4, <2>1, <2>2, <2>3, <2>4 DEF Looping
<1>6. Sorted' /\ Selecting'
  BY DEF Sorted, Selecting
<1>7. QED
  BY <1>3, <1>5, <1>6

(* The heart of the loop: taking p adds exactly p to the positions taken.  *)
LEMMA TakeFacts ==
    ASSUME Inductive, Take
    PROVE  \E p \in ready :
            /\ p \in Pos /\ p \notin Taken /\ incoming[p] = 0
            /\ Pos' = Pos
            /\ \A x : Predecessors(x)' = Predecessors(x)
            /\ \A q \in Dependents(p) : incoming[q] >= 1
            /\ ready' = (ready \ {p}) \union Released(p)
            /\ incoming' = [q \in Pos |-> IF q \in Dependents(p)
                                 THEN Greater(incoming[q] - 1, 0)
                                 ELSE incoming[q]]
            /\ depth' = [q \in Pos |-> IF q \in Dependents(p)
                                 THEN Deepened(p, q) ELSE depth[q]]
            /\ Taken' = Taken \union {p}
<1> USE DEF Inductive, Take
<1> DEFINE p == CHOOSE p \in ready : \A q \in ready : p <= q
<1>1. p \in ready
  <2>1. ready \subseteq Nat /\ ready # {}
    BY PosFinite DEF TypeOK
  <2>2. \E x \in ready : \A q \in ready : x <= q
    BY <2>1, LeastNatural
  <2>3. QED
    BY <2>2
<1>2. /\ ready' = (ready \ {p}) \union Released(p)
      /\ incoming' = [q \in Pos |-> IF q \in Dependents(p)
                           THEN Greater(incoming[q] - 1, 0)
                           ELSE incoming[q]]
      /\ depth' = [q \in Pos |-> IF q \in Dependents(p)
                           THEN Deepened(p, q) ELSE depth[q]]
  OBVIOUS
<1> HIDE DEF p
<1>3. p \in Pos /\ p \notin Taken /\ incoming[p] = 0
  BY <1>1 DEF TypeOK, Looping, Taken
<1>4. Pos' = Pos /\ \A x : Predecessors(x)' = Predecessors(x)
  BY DEF Pos, Predecessors
<1>5. ASSUME NEW q \in Dependents(p) PROVE q \in Pos /\ incoming[q] >= 1
  <2>1. q \in Pos /\ p \in Predecessors(q) \ Taken
    BY <1>3 DEF Dependents, Predecessors
  <2>2. incoming[q] = Cardinality(Predecessors(q) \ Taken)
    BY <2>1 DEF Looping
  <2>3. IsFiniteSet(Predecessors(q) \ Taken)
        /\ Cardinality(Predecessors(q) \ Taken) \in Nat
    BY PredecessorsFinite
  <2>4. Cardinality(Predecessors(q) \ Taken) # 0
    BY <2>1, <2>3, FS_EmptySet
  <2>5. QED
    BY <2>1, <2>2, <2>3, <2>4
<1>6. p \notin Dependents(p)
  BY <1>3, <1>5
<1>7. ASSUME NEW r \in Pos
      PROVE  r \in Taken' <=> r \in Taken \/ r = p
  <2>0. incoming[r] \in Nat
    BY DEF TypeOK
  <2>1. CASE r = p
    BY <1>2, <1>3, <1>4, <1>6, <2>1 DEF Taken, Released
  <2>2. CASE r # p /\ r \in Dependents(p)
    <3>1. incoming[r] >= 1
      BY <1>5, <2>2
    <3>2. incoming'[r] = incoming[r] - 1
      BY <1>2, <2>0, <2>2, <3>1 DEF Greater
    <3>3. incoming'[r] = 0 => r \in ready'
      BY <1>2, <2>0, <2>2, <3>2 DEF Released
    <3>4. QED
      BY <2>0, <2>2, <3>1, <3>3 DEF Taken
  <2>3. CASE r # p /\ r \notin Dependents(p)
    BY <1>2, <1>4, <2>3 DEF Taken, Released
  <2>4. QED
    BY <2>1, <2>2, <2>3
<1>8. Taken' = Taken \union {p}
  BY <1>3, <1>4, <1>7 DEF Taken
<1>9. QED
  BY <1>1, <1>2, <1>3, <1>4, <1>5, <1>8

LEMMA TakeStep ==
    ASSUME Inductive, Take
    PROVE  Inductive'
<1>1. PICK p \in ready :
            /\ p \in Pos /\ p \notin Taken /\ incoming[p] = 0
            /\ Pos' = Pos
            /\ \A x : Predecessors(x)' = Predecessors(x)
            /\ \A q \in Dependents(p) : incoming[q] >= 1
            /\ ready' = (ready \ {p}) \union Released(p)
            /\ incoming' = [q \in Pos |-> IF q \in Dependents(p)
                                 THEN Greater(incoming[q] - 1, 0)
                                 ELSE incoming[q]]
            /\ depth' = [q \in Pos |-> IF q \in Dependents(p)
                                 THEN Deepened(p, q) ELSE depth[q]]
            /\ Taken' = Taken \union {p}
  BY TakeFacts
<1>2. /\ TypeOK /\ Looping /\ Sorted /\ Selecting /\ phase = "order"
      /\ taken' = taken + 1
      /\ UNCHANGED <<schedule, phase, rank, left, cuts>>
  BY DEF Inductive, Take
<1>3. /\ \A x \in Pos : incoming[x] = Cardinality(Predecessors(x) \ Taken)
      /\ \A x \in ready : incoming[x] = 0
      /\ taken = Cardinality(Taken)
      /\ \A x \in Pos : \A q \in Predecessors(x) \intersect Taken :
             depth[q] < depth[x]
      /\ \A x \in Pos :
             \/ depth[x] = 0
             \/ \E q \in Predecessors(x) \intersect Taken :
                    depth[x] = depth[q] + 1
  BY <1>2 DEF Looping
<1>4. \A x \in Pos : incoming[x] \in Nat /\ depth[x] \in Nat
  BY <1>2 DEF TypeOK
<1>5. ASSUME NEW q \in Pos
      PROVE  incoming'[q] = IF q \in Dependents(p) THEN incoming[q] - 1
                            ELSE incoming[q]
  BY <1>1, <1>4 DEF Greater
<1>6. TypeOK'
  <2>1. incoming' \in [Pos -> Nat] /\ depth' \in [Pos -> Nat]
    BY <1>1, <1>4 DEF Greater, Deepened
  <2>2. ready' \subseteq Pos
    BY <1>1, <1>2 DEF TypeOK, Released, Dependents
  <2>3. QED
    BY <1>1, <1>2, <2>1, <2>2 DEF TypeOK
<1>7. ASSUME NEW x \in Pos
      PROVE  incoming'[x] = Cardinality(Predecessors(x) \ Taken')
  <2> DEFINE W == Predecessors(x) \ Taken
  <2>1. IsFiniteSet(W)
    BY <1>2, PredecessorsFinite
  <2>2. Predecessors(x) \ Taken' = W \ {p}
    BY <1>1
  <2>3. p \in W <=> x \in Dependents(p)
    BY <1>1 DEF Predecessors, Dependents
  <2>4. incoming[x] = Cardinality(W)
    BY <1>3
  <2> HIDE DEF W
  <2>5. Cardinality(W \ {p}) =
            IF p \in W THEN Cardinality(W) - 1 ELSE Cardinality(W)
    BY <2>1, FS_RemoveElement
  <2>6. QED
    BY <1>5, <2>2, <2>3, <2>4, <2>5
<1>8. ASSUME NEW x \in ready' PROVE incoming'[x] = 0
  <2>1. CASE x \in ready \ {p}
    <3>1. x \in Pos /\ incoming[x] = 0
      BY <1>2, <1>3, <2>1 DEF TypeOK
    <3>2. x \notin Dependents(p)
      BY <1>1, <3>1
    <3>3. QED
      BY <1>5, <3>1, <3>2
  <2>2. CASE x \in Released(p)
    <3>1. x \in Pos /\ x \in Dependents(p) /\ incoming[x] <= 1
      BY <2>2 DEF Released, Dependents
    <3>2. incoming[x] >= 1 /\ incoming[x] \in Nat
      BY <1>1, <1>4, <3>1
    <3>3. QED
      BY <1>5, <3>1, <3>2
  <2>3. QED
    BY <1>1, <2>1, <2>2
<1>9. taken' = Cardinality(Taken')
  <2>1. IsFiniteSet(Taken)
    <3>1. Taken \in SUBSET Pos
      BY DEF Taken
    <3>2. QED
      BY <1>2, <3>1, PosFinite, FS_Subset
  <2>2. Cardinality(Taken \union {p}) = Cardinality(Taken) + 1
    BY <1>1, <2>1, FS_AddElement
  <2>3. QED
    BY <1>1, <1>2, <1>3, <2>2
(* What has been taken keeps its depth: nothing it depends on is left.     *)
<1>10. ASSUME NEW q \in Taken' PROVE q \in Pos /\ depth'[q] = depth[q]
  <2>1. q \in Pos
    BY <1>1 DEF Taken
  <2>2. incoming[q] = 0
    BY <1>1 DEF Taken
  <2>3. q \notin Dependents(p)
    BY <1>1, <2>2
  <2>4. QED
    BY <1>1, <2>1, <2>3
<1>11. ASSUME NEW x \in Pos
       PROVE  /\ depth'[x] \in Nat
              /\ depth'[x] >= depth[x]
              /\ x \in Dependents(p) => depth'[x] >= depth[p] + 1
              /\ depth'[x] = depth[x]
                 \/ (x \in Dependents(p) /\ depth'[x] = depth[p] + 1)
  BY <1>1, <1>4 DEF Deepened, Greater
<1>12. ASSUME NEW x \in Pos, NEW q \in Predecessors(x) \intersect Taken'
       PROVE  depth'[q] < depth'[x]
  <2>1. q \in Pos /\ depth'[q] = depth[q]
    BY <1>10
  <2>2. CASE q \in Taken
    <3>1. depth[q] < depth[x]
      BY <1>3, <2>2
    <3>2. QED
      BY <1>4, <1>11, <2>1, <3>1
  <2>3. CASE q = p
    <3>1. x \in Dependents(p)
      BY <2>3 DEF Dependents, Predecessors
    <3>2. QED
      BY <1>4, <1>11, <2>1, <2>3, <3>1
  <2>4. QED
    BY <1>1, <2>2, <2>3
<1>13. ASSUME NEW x \in Pos
       PROVE  \/ depth'[x] = 0
              \/ \E q \in Predecessors(x) \intersect Taken' :
                     depth'[x] = depth'[q] + 1
  <2>1. CASE depth'[x] = depth[x]
    <3>1. CASE depth[x] = 0
      BY <2>1, <3>1
    <3>2. CASE \E q \in Predecessors(x) \intersect Taken :
                  depth[x] = depth[q] + 1
      <4>1. PICK q \in Predecessors(x) \intersect Taken :
                  depth[x] = depth[q] + 1
        BY <3>2
      <4>2. q \in Predecessors(x) \intersect Taken' /\ depth'[q] = depth[q]
        BY <1>1, <1>10
      <4>3. QED
        BY <2>1, <4>1, <4>2
    <3>3. QED
      BY <1>3, <3>1, <3>2
  <2>2. CASE x \in Dependents(p) /\ depth'[x] = depth[p] + 1
    <3>1. p \in Predecessors(x) /\ p \in Taken' /\ depth'[p] = depth[p]
      BY <1>1, <1>10, <2>2 DEF Dependents, Predecessors
    <3>2. QED
      BY <2>2, <3>1
  <2>3. QED
    BY <1>11, <2>1, <2>2
<1>14. Looping'
  <2>1. \A x \in Pos : incoming'[x] = Cardinality(Predecessors(x) \ Taken')
    BY <1>7
  <2>2. \A x \in ready' : incoming'[x] = 0
    BY <1>8
  <2>3. \A x \in Pos : \A q \in Predecessors(x) \intersect Taken' :
            depth'[q] < depth'[x]
    BY <1>12
  <2>4. \A x \in Pos :
             \/ depth'[x] = 0
             \/ \E q \in Predecessors(x) \intersect Taken' :
                    depth'[x] = depth'[q] + 1
    BY <1>13
  <2>5. QED
    BY <1>1, <1>9, <2>1, <2>2, <2>3, <2>4 DEF Looping
<1>15. Sorted' /\ Selecting'
  BY <1>2 DEF Sorted, Selecting
<1>16. QED
  BY <1>6, <1>14, <1>15 DEF Inductive

LEMMA RejectCycleStep ==
    ASSUME Inductive, RejectCycle
    PROVE  Inductive'
<1> USE DEF Inductive, RejectCycle
<1>0. Pos' = Pos /\ Taken' = Taken /\ \A p : Predecessors(p)' = Predecessors(p)
  BY DEF Pos, Taken, Predecessors
<1>1. TypeOK'
  BY <1>0 DEF TypeOK, Phases
<1>2. Looping'
  BY <1>0 DEF Looping
<1>3. Sorted' /\ Selecting'
  BY DEF Sorted, Selecting
<1>4. QED
  BY <1>1, <1>2, <1>3

(* With every position taken, the depths increase along every edge.        *)
LEMMA DepthsIncrease ==
    ASSUME TypeOK, Looping, Taken = Pos,
           phase \in {"order", "select", "planned", "uncovered"}
    PROVE  \A e \in Edges(schedule) : depth[e[1]] < depth[e[2]]
<1>1. TAKE e \in Edges(schedule)
<1>2. e[1] \in Pos /\ e[2] \in Pos
  BY PosFinite, EdgesTyped DEF Pos
<1>3. e = <<e[1], e[2]>>
  BY DEF Edges
<1>4. e[1] \in Predecessors(e[2]) \intersect Taken
  BY <1>2, <1>3 DEF Predecessors
<1>5. QED
  BY <1>2, <1>4 DEF Looping

LEMMA OrderStep ==
    ASSUME Inductive, Order
    PROVE  Inductive'
<1> USE DEF Inductive, Order
<1>0. Pos' = Pos /\ Taken' = Taken /\ \A p : Predecessors(p)' = Predecessors(p)
  BY DEF Pos, Taken, Predecessors
<1>1. Taken = Pos
  <2>1. Taken \in SUBSET Pos
    BY DEF Taken
  <2>2. Cardinality(Pos) = Cardinality(Taken)
    BY PosFinite DEF Looping
  <2>3. QED
    BY <2>1, <2>2, PosFinite, FS_Subset
<1>2. rank' \in [Pos -> Nat]
  <2>1. depth \in [Positions(schedule) -> Nat]
    BY DEF TypeOK, Pos
  <2>2. QED
    BY <1>1, <2>1, PosFinite, DepthsIncrease, SortKeepsPrecedence DEF Pos
<1>3. TypeOK'
  BY <1>0, <1>2 DEF TypeOK, Phases
<1>4. Looping'
  BY <1>0 DEF Looping
<1>5. Sorted'
  BY <1>0, <1>1 DEF Sorted
<1>6. Selecting'
  BY DEF Selecting
<1>7. QED
  BY <1>3, <1>4, <1>5, <1>6

(* From then on the ranks keep the precedences and the obligations leave   *)
(* room for a cut.                                                         *)
LEMMA RanksKept ==
    ASSUME Inductive, phase \in {"select", "planned", "uncovered"}
    PROVE  /\ \A e \in Edges(schedule) : rank[e[1]] < rank[e[2]]
           /\ \A p, q \in Pos : rank[p] = rank[q] => p = q
           /\ \A p \in Pos : rank[p] \in Nat /\ rank[p] < schedule.size
           /\ \A o \in Obligations(schedule, rank) :
                  /\ o.producer \in Nat
                  /\ o.deadline \in 1..schedule.size
                  /\ o.producer < o.deadline
<1>1. /\ TypeOK /\ Taken = Pos /\ rank = RankBy(schedule, depth)
      /\ depth \in [Positions(schedule) -> Nat]
  BY DEF Inductive, Sorted, TypeOK, Pos
<1>2. \A e \in Edges(schedule) : depth[e[1]] < depth[e[2]]
  BY <1>1, DepthsIncrease DEF Inductive
<1>3. /\ rank \in [Positions(schedule) -> Nat]
      /\ \A e \in Edges(schedule) : rank[e[1]] < rank[e[2]]
      /\ \A p, q \in Positions(schedule) : rank[p] = rank[q] => p = q
      /\ \A p \in Positions(schedule) : rank[p] < schedule.size
  BY <1>1, <1>2, PosFinite, SortKeepsPrecedence
<1>4. \A o \in Obligations(schedule, rank) :
          /\ o.producer \in Nat
          /\ o.deadline \in 1..schedule.size
          /\ o.producer < o.deadline
  BY <1>1, <1>3, PosFinite, ObligationsTyped
<1>5. QED
  BY <1>3, <1>4 DEF Pos

LEMMA SelectStep ==
    ASSUME Inductive, Select
    PROVE  Inductive'
<1> DEFINE obligations == Obligations(schedule, rank)
<1>1. PICK o \in left : Due(o) /\ cuts' = CutsWith(o) /\ left' = left \ {o}
  BY DEF Select
<1>2. /\ phase = "select"
      /\ UNCHANGED <<schedule, phase, incoming, ready, depth, taken, rank>>
  BY DEF Select
<1>3. TypeOK /\ Looping /\ Sorted /\ Selecting /\ left \subseteq obligations
      /\ cuts \subseteq 1..schedule.size /\ schedule.size \in Nat
  BY PosFinite DEF Inductive, TypeOK
<1>4. \A x \in obligations :
          /\ x.producer \in Nat
          /\ x.deadline \in 1..schedule.size
          /\ x.producer < x.deadline
  BY <1>2, RanksKept
<1>5. /\ \A x \in obligations \ left : Hits(cuts, x)
      /\ \A x \in left : \A c \in cuts : c <= x.deadline
      /\ \A c \in cuts :
            \E x \in obligations :
                /\ x.deadline = c
                /\ \A b \in cuts : b < c => b <= x.producer
  BY <1>2, <1>3 DEF Selecting
<1>6. o \in obligations /\ \A x \in left : o.deadline <= x.deadline
  BY <1>1, <1>3 DEF Due
<1>7. cuts \subseteq cuts' /\ cuts' \subseteq cuts \union {o.deadline}
  BY <1>1 DEF CutsWith
<1>8. cuts' \subseteq 1..schedule.size
  BY <1>3, <1>4, <1>6, <1>7
<1> HIDE DEF obligations
<1>9. ASSUME NEW x \in obligations \ left' PROVE Hits(cuts', x)
  <2>1. CASE x \in obligations \ left
    BY <1>5, <1>7, <2>1 DEF Hits
  <2>2. CASE x = o
    <3>1. o.deadline \in cuts' \/ Hits(cuts, o)
      BY <1>1 DEF CutsWith
    <3>2. Covers(o.deadline, o)
      BY <1>4, <1>6 DEF Covers
    <3>3. QED
      BY <1>7, <2>2, <3>1, <3>2 DEF Hits
  <2>3. QED
    BY <1>1, <2>1, <2>2
<1>10. ASSUME NEW x \in left', NEW c \in cuts' PROVE c <= x.deadline
  BY <1>1, <1>5, <1>6, <1>7
<1>11. ASSUME NEW c \in cuts'
       PROVE  \E x \in obligations :
                  x.deadline = c /\ \A b \in cuts' : b < c => b <= x.producer
  <2>1. CASE c \in cuts
    <3>1. PICK x \in obligations :
                  x.deadline = c /\ \A b \in cuts : b < c => b <= x.producer
      BY <1>5, <2>1
    <3>2. c <= o.deadline /\ c \in Int /\ o.deadline \in Int
      BY <1>3, <1>4, <1>5, <1>6, <2>1
    <3>3. \A b \in cuts' : b < c => b <= x.producer
      BY <1>7, <3>1, <3>2
    <3>4. QED
      BY <3>1, <3>3
  <2>2. CASE c \notin cuts
    <3>1. c = o.deadline /\ ~ Hits(cuts, o)
      BY <1>1, <1>7, <2>2 DEF CutsWith
    <3>2. ASSUME NEW b \in cuts', b < c PROVE b <= o.producer
      <4>0. c \in Int /\ o.producer \in Int
        BY <1>4, <1>6, <3>1
      <4>1. b \in cuts
        BY <1>7, <3>1, <3>2, <4>0
      <4>2. b \in Int
        BY <1>3, <4>1
      <4>3. ~ Covers(b, o) /\ b <= o.deadline
        BY <1>5, <1>6, <3>1, <4>1 DEF Hits
      <4>4. QED
        BY <4>0, <4>2, <4>3 DEF Covers
    <3>3. QED
      BY <1>6, <3>1, <3>2
  <2>3. QED
    BY <2>1, <2>2
<1>12. TypeOK'
  BY <1>1, <1>2, <1>3, <1>8 DEF TypeOK, Phases, Pos
<1>13. Looping' /\ Sorted'
  <2>1. Pos' = Pos /\ Taken' = Taken
        /\ \A p : Predecessors(p)' = Predecessors(p)
    BY <1>2 DEF Pos, Taken, Predecessors
  <2>2. QED
    BY <1>2, <1>3, <2>1 DEF Looping, Sorted
<1>14. Selecting'
  <2>1. Obligations(schedule, rank)' = obligations
    BY <1>2 DEF obligations
  <2>2. QED
    BY <1>2, <1>9, <1>10, <1>11, <2>1 DEF Selecting
<1>15. QED
  BY <1>12, <1>13, <1>14 DEF Inductive

LEMMA AssignStep ==
    ASSUME Inductive, Assign
    PROVE  Inductive'
<1> USE DEF Inductive, Assign
<1>0. Pos' = Pos /\ Taken' = Taken /\ \A p : Predecessors(p)' = Predecessors(p)
  BY DEF Pos, Taken, Predecessors
<1>1. phase' = "planned"
  BY DEF Selecting
<1>2. TypeOK'
  BY <1>0, <1>1 DEF TypeOK, Phases
<1>3. Looping' /\ Sorted'
  BY <1>0, <1>1 DEF Looping, Sorted
<1>4. Selecting'
  BY <1>1 DEF Selecting
<1>5. QED
  BY <1>2, <1>3, <1>4

LEMMA StutterStep ==
    ASSUME Inductive, UNCHANGED vars
    PROVE  Inductive'
<1>0. Pos' = Pos /\ Taken' = Taken /\ \A p : Predecessors(p)' = Predecessors(p)
  BY DEF Pos, Taken, Predecessors, vars
<1>1. TypeOK' /\ Looping'
  BY <1>0 DEF Inductive, TypeOK, Looping, vars
<1>2. Sorted' /\ Selecting'
  BY <1>0 DEF Inductive, Sorted, Selecting, vars
<1>3. QED
  BY <1>1, <1>2 DEF Inductive

LEMMA NextInductive ==
    ASSUME Inductive, [Next]_vars
    PROVE  Inductive'
BY RejectUnresolvedStep, ResolveStep, TakeStep, RejectCycleStep, OrderStep,
   SelectStep, AssignStep, StutterStep DEF Next

(* Every reachable state of the planner satisfies the invariant.           *)
THEOREM InductiveInvariant == Spec => []Inductive
<1>1. Init => Inductive
  BY InitInductive
<1>2. Inductive /\ [Next]_vars => Inductive'
  BY NextInductive
<1>3. QED
  BY <1>1, <1>2, PTL DEF Spec

THEOREM TypeCorrect == Spec => []TypeOK
BY InductiveInvariant, PTL DEF Inductive

(* The reference order respects every declared precedence.                 *)
THEOREM PrecedenceTheorem == Spec => []PrecedenceKept
<1>1. Inductive => PrecedenceKept
  BY RanksKept DEF PrecedenceKept, Ordered
<1>2. QED
  BY <1>1, InductiveInvariant, PTL

(* Depths are longest chains.                                              *)
THEOREM DepthTheorem == Spec => []DepthIsLongestChain
<1>1. Inductive => DepthIsLongestChain
  BY DEF Inductive, Looping, Sorted, DepthIsLongestChain, Ordered, Predecessors
<1>2. QED
  BY <1>1, InductiveInvariant, PTL

(* The verdict on cycles is exact.  What the loop could not take is a set  *)
(* of systems waiting for one another; and where there is an order, the    *)
(* first of any set of systems waits for nobody in it.                     *)
THEOREM CycleTheorem == Spec => []CycleExact
<1>1. ASSUME Inductive, phase = "cycle"
      PROVE  \E S \in SUBSET Pos : Knot(S)
  <2> DEFINE S == Pos \ Taken
  <2>1. TypeOK /\ Looping /\ taken # schedule.size /\ ready = {}
    BY <1>1 DEF Inductive, Sorted
  <2>2. S # {}
    <3>1. Taken \subseteq Pos /\ taken = Cardinality(Taken)
      BY <1>1, <2>1 DEF Taken, Looping
    <3>2. QED
      BY <2>1, <3>1, PosFinite
  <2>3. ASSUME NEW p \in S PROVE \E q \in S : <<q, p>> \in Edges(schedule)
    <3>1. p \in Pos /\ incoming[p] # 0
      BY <2>1 DEF Taken
    <3>2. Cardinality(Predecessors(p) \ Taken) # 0
      BY <1>1, <2>1, <3>1 DEF Looping
    <3>3. Predecessors(p) \ Taken # {}
      BY <3>2, FS_EmptySet
    <3>4. QED
      BY <3>3 DEF Predecessors
  <2>4. Knot(S) /\ S \in SUBSET Pos
    BY <2>2, <2>3 DEF Knot
  <2>5. QED
    BY <2>4
<1>2. ASSUME Inductive, Ordered, NEW S \in SUBSET Pos, Knot(S)
      PROVE  FALSE
  <2>1. /\ \A e \in Edges(schedule) : rank[e[1]] < rank[e[2]]
        /\ \A p \in Pos : rank[p] \in Nat
    BY <1>2, RanksKept DEF Ordered
  <2> DEFINE R == {rank[p] : p \in S}
  <2>2. R \in SUBSET Nat /\ R # {}
    BY <1>2, <2>1 DEF Knot
  <2>3. PICK x \in R : \A y \in R : x <= y
    BY <2>2, LeastNatural
  <2>4. PICK p \in S : x = rank[p]
    OBVIOUS
  <2>5. PICK q \in S : <<q, p>> \in Edges(schedule)
    BY <1>2 DEF Knot
  <2>6. rank[q] < rank[p]
    BY <2>1, <2>5
  <2>7. rank[p] <= rank[q]
    BY <2>3, <2>4
  <2>8. rank[p] \in Nat /\ rank[q] \in Nat
    BY <2>1
  <2>9. QED
    BY <2>6, <2>7, <2>8
<1>3. Inductive => CycleExact
  BY <1>1, <1>2 DEF CycleExact
<1>4. QED
  BY <1>3, InductiveInvariant, PTL

(* Deferred commands are published in time.                                *)
THEOREM PublicationTheorem == Spec => []CommandsPublishedInTime
<1>1. ASSUME Inductive PROVE CommandsPublishedInTime
  <2>1. phase # "uncovered"
    BY <1>1 DEF Inductive, Selecting
  <2>2. ASSUME phase = "planned", NEW o \in Obligations(schedule, rank)
        PROVE  \E c \in cuts : Covers(c, o)
    BY <1>1, <2>2 DEF Inductive, Selecting, Hits
  <2>3. ASSUME phase = "planned", NEW e \in Edges(schedule),
               e[1] \in schedule.deferred
        PROVE  \E c \in cuts : rank[e[1]] < c /\ c <= rank[e[2]]
    <3> DEFINE o == [producer |-> rank[e[1]], deadline |-> rank[e[2]]]
    <3>1. o \in Obligations(schedule, rank)
      BY <2>3 DEF Obligations
    <3>2. QED
      BY <2>2, <2>3, <3>1 DEF Covers
  <2>4. ASSUME phase = "planned", NEW p \in schedule.deferred
        PROVE  \E c \in cuts : rank[p] < c
    <3> DEFINE o == [producer |-> rank[p], deadline |-> schedule.size]
    <3>1. o \in Obligations(schedule, rank)
      BY DEF Obligations
    <3>2. QED
      BY <2>2, <2>4, <3>1 DEF Covers
  <2>5. QED
    BY <2>1, <2>3, <2>4 DEF CommandsPublishedInTime
<1>2. QED
  BY <1>1, InductiveInvariant, PTL

(* With the fewest frontiers.                                              *)
THEOREM MinimalityTheorem == Spec => []FewestFrontiers
<1>1. ASSUME Inductive, phase = "planned", NEW H \in SUBSET (1..schedule.size),
             \A o \in Obligations(schedule, rank) : Hits(H, o)
      PROVE  Cardinality(cuts) <= Cardinality(H)
  <2> DEFINE O == Obligations(schedule, rank)
             n == schedule.size
  <2>1. n \in Nat /\ cuts \in SUBSET (1..n)
    BY <1>1, PosFinite DEF Inductive, TypeOK
  <2>2. \A o \in O : o.producer \in Nat /\ o.deadline \in Nat
    <3>1. ASSUME NEW o \in O PROVE o.producer \in Nat /\ o.deadline \in Nat
      <4>1. o.producer \in Nat /\ o.deadline \in 1..n
        BY <1>1, RanksKept
      <4>2. QED
        BY <2>1, <4>1
    <3>2. QED
      BY <3>1
  <2>3. \A c \in cuts : \E o \in O :
            o.deadline = c /\ \A b \in cuts : b < c => b <= o.producer
    BY <1>1 DEF Inductive, Selecting
  <2>4. H \in SUBSET (1..n) /\ \A o \in O : Hits(H, o)
    BY <1>1
  <2> HIDE DEF O, n
  <2>5. QED
    BY <2>1, <2>2, <2>3, <2>4, DisjointNeedAsMany
<1>2. Inductive => FewestFrontiers
  BY <1>1 DEF FewestFrontiers
<1>3. QED
  BY <1>2, InductiveInvariant, PTL

(* What a rule adds at a deadline that looks at earlier cuts only: the     *)
(* recursive function of ScheduleOrder is defined, and gives the one set   *)
(* of cuts each of which an obligation asks for when no earlier one hits.  *)
Selection(O, size) ==
    CHOOSE upTo : upTo = [d \in 0..size |->
        IF d = 0 THEN {}
        ELSE upTo[d - 1] \union
             {o.deadline : o \in {o \in O : o.deadline = d /\ ~ Hits(upTo[d - 1], o)}}]

LEMMA SelectedByRule ==
    ASSUME NEW size \in Nat, NEW C \in SUBSET (1..size), NEW O,
           \A o \in O : o.producer \in Nat /\ o.deadline \in 1..size,
           \A c \in C : \E o \in O :
               o.deadline = c /\ \A b \in C : b < c => b <= o.producer,
           \A o \in O : Hits(C, o)
    PROVE  C = SelectedCuts(O, size)
<1> DEFINE Below(d) == {c \in C : c <= d}
           Asked(S, d) == {o.deadline : o \in {o \in O : o.deadline = d /\ ~ Hits(S, o)}}
           f == [d \in 0..size |-> Below(d)]
           upTo == Selection(O, size)
<1>1. Below(0) = {}
  <2>1. \A c \in C : ~ (c <= 0)
    OBVIOUS
  <2> QED BY <2>1
<1>2. ASSUME NEW d \in 1..size
      PROVE  Below(d) = Below(d - 1) \union Asked(Below(d - 1), d)
  <2>1. \A c \in C : c \in 1..size
    OBVIOUS
  <2>2. ASSUME NEW o \in O, o.deadline = d
        PROVE  Hits(Below(d - 1), o) <=> \E b \in C : b < d /\ o.producer < b
    <3>1. \A b \in C : b \in Below(d - 1) <=> b < d
      BY <2>1
    <3>2. \A b \in C : b < d => b <= o.deadline
      BY <2>1, <2>2
    <3> HIDE DEF Below
    <3>3. Below(d - 1) \subseteq C
      BY DEF Below
    <3> QED BY <3>1, <3>2, <3>3 DEF Hits, Covers
  <2>3. ASSUME d \in C PROVE d \in Asked(Below(d - 1), d)
    <3>1. PICK o \in O : o.deadline = d /\ \A b \in C : b < d => b <= o.producer
      BY <2>3
    <3>2. \A b \in C : b < d => ~ (o.producer < b)
      BY <2>1, <3>1
    <3>3. ~ Hits(Below(d - 1), o)
      BY <2>2, <3>1, <3>2
    <3> QED BY <3>1, <3>3
  <2>4. ASSUME NEW o \in O, o.deadline = d, ~ Hits(Below(d - 1), o) PROVE d \in C
    <3>1. PICK c \in C : o.producer < c /\ c <= d
      BY <2>4 DEF Hits, Covers
    <3>2. ~ (c < d)
      BY <2>2, <2>4, <3>1
    <3> QED BY <2>1, <3>1, <3>2
  <2>5. \A x \in Asked(Below(d - 1), d) : x = d /\ d \in C
    BY <2>4
  <2>6. \A c \in C : c <= d <=> c <= d - 1 \/ c = d
    BY <2>1
  <2>7. ASSUME NEW x PROVE x \in Below(d) <=> x \in Below(d - 1) \/ x \in Asked(Below(d - 1), d)
    <3>1. x \in Below(d) <=> x \in Below(d - 1) \/ (x = d /\ d \in C)
      BY <2>6
    <3> QED BY <2>3, <2>5, <3>1
  <2> HIDE DEF Below, Asked
  <2> QED BY <2>7
<1>3. \A d \in 1..size : d # 0 /\ d - 1 \in 0..size
  OBVIOUS
<1>4. \A d \in 0..size : d = 0 \/ d \in 1..size
  OBVIOUS
<1>5. ASSUME NEW d \in 0..size
      PROVE  f[d] = IF d = 0 THEN {} ELSE f[d - 1] \union Asked(f[d - 1], d)
  <2>1. CASE d = 0
    BY <1>1, <2>1
  <2>2. CASE d # 0
    <3>1. d \in 1..size /\ d - 1 \in 0..size
      BY <1>3, <1>4, <2>2
    <3>2. Below(d) = Below(d - 1) \union Asked(Below(d - 1), d)
      BY <1>2, <3>1
    <3>3. f[d] = Below(d) /\ f[d - 1] = Below(d - 1)
      BY <3>1
    <3> HIDE DEF f, Below, Asked
    <3> QED BY <2>2, <3>2, <3>3
  <2> QED BY <2>1, <2>2
<1>6. f = [d \in 0..size |-> IF d = 0 THEN {} ELSE f[d - 1] \union Asked(f[d - 1], d)]
  BY <1>5
<1>7. upTo = [d \in 0..size |-> IF d = 0 THEN {} ELSE upTo[d - 1] \union Asked(upTo[d - 1], d)]
  BY <1>6 DEF Selection
<1>8. SelectedCuts(O, size) = upTo[size]
  BY DEF SelectedCuts, Selection
<1>9. \A d \in 0..size :
         upTo[d] = IF d = 0 THEN {} ELSE upTo[d - 1] \union Asked(upTo[d - 1], d)
  <2> HIDE DEF upTo, Asked
  <2> QED BY <1>7
<1>10. \A d \in 0..size : upTo[d] = f[d]
  <2> DEFINE T == {d \in 0..size : upTo[d] # f[d]}
  <2> SUFFICES ASSUME T # {} PROVE FALSE
    OBVIOUS
  <2>1. PICK d \in T : \A e \in T : d <= e
    <3>1. T \in SUBSET Nat
      OBVIOUS
    <3> HIDE DEF T
    <3> QED BY <3>1, LeastNatural
  <2>2. d \in 0..size /\ upTo[d] # f[d]
    OBVIOUS
  <2>3. CASE d = 0
    BY <1>5, <1>9, <2>2, <2>3
  <2>4. CASE d # 0
    <3>1. d - 1 \in 0..size /\ ~ (d <= d - 1)
      BY <2>2, <2>4
    <3>2. upTo[d - 1] = f[d - 1]
      BY <2>1, <3>1
    <3> HIDE DEF upTo, f, Asked, T
    <3> QED BY <1>5, <1>9, <2>2, <2>4, <3>2, ZenonT(30)
  <2> QED BY <2>3, <2>4
<1>11. f[size] = C
  <2>1. \A c \in C : c <= size
    OBVIOUS
  <2>2. size \in 0..size
    OBVIOUS
  <2> QED BY <2>1, <2>2
<1>12. upTo[size] = C
  <2>1. size \in 0..size
    OBVIOUS
  <2> HIDE DEF upTo, f
  <2> QED BY <1>10, <1>11, <2>1
<1> QED BY <1>8, <1>12

(* The frontiers are those of the deadlines, taken one by one: no name     *)
(* decides between them.                                                   *)
THEOREM CanonicityTheorem == Spec => []FrontiersCanonical
<1>1. ASSUME Inductive, phase = "planned"
      PROVE  cuts = SelectedCuts(Obligations(schedule, rank), schedule.size)
  <2> DEFINE O == Obligations(schedule, rank)
             n == schedule.size
  <2>1. n \in Nat /\ cuts \in SUBSET (1..n)
    BY <1>1, PosFinite DEF Inductive, TypeOK
  <2>2. \A o \in O : o.producer \in Nat /\ o.deadline \in 1..n
    BY <1>1, RanksKept
  <2>3. \A c \in cuts : \E o \in O :
            o.deadline = c /\ \A b \in cuts : b < c => b <= o.producer
    BY <1>1 DEF Inductive, Selecting
  <2>4. \A o \in O : Hits(cuts, o)
    BY <1>1 DEF Inductive, Selecting
  <2> HIDE DEF O, n
  <2>5. cuts = SelectedCuts(O, n)
    BY <2>1, <2>2, <2>3, <2>4, SelectedByRule
  <2> QED BY <2>5 DEF O, n
<1>2. Inductive => FrontiersCanonical
  BY <1>1 DEF FrontiersCanonical
<1> QED BY <1>2, InductiveInvariant, PTL

-----------------------------------------------------------------------------
(* Registration.                                                           *)


(* The next identities follow the number of systems, up to the largest.    *)
LEMMA IdentityFollows ==
    ASSUME IdentitiesExact, registered \in Seq(System), NEW k \in Nat
    PROVE  Identity(k) = IF Len(registered) + 1 + k <= IdentityMax
                         THEN Len(registered) + 1 + k ELSE None
BY RegistryAssumption DEF IdentitiesExact, Identity, None

(* A call is admitted exactly if enough identities are left.               *)
LEMMA PreflightExact ==
    ASSUME IdentitiesExact, registered \in Seq(System), NEW n \in Nat \ {0}
    PROVE  Preflighted(n) <=> Len(registered) + n <= IdentityMax
<1>1. \A k \in 0..(n - 1) :
         Identity(k) # None <=> Len(registered) + 1 + k <= IdentityMax
  <2> SUFFICES ASSUME NEW k \in 0..(n - 1)
               PROVE  Identity(k) # None <=> Len(registered) + 1 + k <= IdentityMax
    OBVIOUS
  <2> k \in Nat /\ Len(registered) \in Nat
    BY LenProperties
  <2>1. Identity(k) = IF Len(registered) + 1 + k <= IdentityMax
                      THEN Len(registered) + 1 + k ELSE None
    BY IdentityFollows
  <2>2. Len(registered) + 1 + k # 0
    OBVIOUS
  <2> QED BY <2>1, <2>2 DEF None
<1>2. n - 1 \in 0..(n - 1)
  OBVIOUS
<1> QED BY <1>1, <1>2, RegistryAssumption DEF Preflighted

(* A call that claims its identities registers its systems under the       *)
(* numbers that follow.                                                    *)
LEMMA Appended ==
    ASSUME RegistryInductive, NEW l \in Labels, NEW kinds \in Requests,
           AddSystems(l, kinds)
    PROVE  /\ Register(l, kinds)
           /\ registered' \in Seq(System)
           /\ Len(registered') = Len(registered) + Len(kinds)
           /\ \A i \in DOMAIN registered' : registered'[i].id = i
<1> DEFINE added == [k \in 1..Len(kinds) |->
              [label |-> l, kind |-> kinds[k], id |-> Len(registered) + k]]
<1>1. /\ kinds \in Seq(Kinds \union {Refused}) /\ Len(kinds) \in Nat \ {0}
      /\ registered \in Seq(System) /\ IdentitiesExact
  BY RegistryAssumption DEF RegistryInductive, RegistryTypeOK
<1>2. Len(registered) + Len(kinds) <= IdentityMax
  BY <1>1, PreflightExact DEF AddSystems
<1>3. \A k \in 1..Len(kinds) : Identity(k - 1) = Len(registered) + k
  <2> SUFFICES ASSUME NEW k \in 1..Len(kinds)
               PROVE  Identity(k - 1) = Len(registered) + k
    OBVIOUS
  <2>1. k - 1 \in Nat /\ Len(registered) \in Nat
    BY <1>1
  <2>2. Identity(k - 1) = IF Len(registered) + 1 + (k - 1) <= IdentityMax
                          THEN Len(registered) + 1 + (k - 1) ELSE None
    BY <1>1, <2>1, IdentityFollows
  <2> QED BY <1>1, <1>2, <2>1, <2>2, RegistryAssumption
<1>4. registered' = registered \o added
  BY <1>3 DEF AddSystems
<1>5. added \in Seq(System) /\ Len(added) = Len(kinds)
  <2>1. \A k \in 1..Len(kinds) : kinds[k] \in Kinds
    BY <1>1 DEF AddSystems
  <2>2. \A k \in 1..Len(kinds) : Len(registered) + k \in 1..IdentityMax
    BY <1>1, <1>2, RegistryAssumption
  <2>3. \A k \in 1..Len(kinds) : added[k] \in System
    BY <2>1, <2>2 DEF System
  <2>4. Len(kinds) \in Nat
    BY <1>1
  <2>5. added \in [1..Len(kinds) -> System]
    BY <2>3
  <2> HIDE DEF added
  <2> QED BY <2>4, <2>5, SeqDef
<1>6. \A k \in 1..Len(kinds) : added[k].id = Len(registered) + k
  OBVIOUS
<1> HIDE DEF added
<1>7. /\ registered' \in Seq(System)
      /\ Len(registered') = Len(registered) + Len(kinds)
      /\ \A i \in 1..Len(registered) : registered'[i] = registered[i]
      /\ \A i \in (Len(registered) + 1)..(Len(registered) + Len(kinds)) :
            registered'[i] = added[i - Len(registered)]
  <2> DEFINE all == registered \o added
  <2>1. /\ all \in Seq(System)
        /\ Len(all) = Len(registered) + Len(added)
        /\ \A i \in 1..Len(registered) + Len(added) :
              all[i] = IF i <= Len(registered) THEN registered[i]
                       ELSE added[i - Len(registered)]
    BY <1>1, <1>5, ConcatProperties
  <2>2. registered' = all /\ Len(added) = Len(kinds)
    BY <1>4, <1>5
  <2>3. Len(registered) \in Nat /\ Len(kinds) \in Nat
    BY <1>1
  <2> HIDE DEF all
  <2> QED BY <2>1, <2>2, <2>3
<1>8. ASSUME NEW i \in DOMAIN registered' PROVE registered'[i].id = i
  <2>1. CASE i <= Len(registered)
    BY <1>1, <1>7, <2>1 DEF IdentitiesExact
  <2>2. CASE i > Len(registered)
    <3>1. i - Len(registered) \in 1..Len(kinds)
      BY <1>1, <1>7, <2>2
    <3>2. registered'[i] = added[i - Len(registered)]
      BY <1>1, <1>7, <2>2
    <3>3. added[i - Len(registered)].id = Len(registered) + (i - Len(registered))
      BY <1>6, <3>1
    <3> QED BY <1>1, <1>7, <3>2, <3>3
  <2> QED BY <1>1, <1>7, <2>1, <2>2
<1>9. Register(l, kinds)
  BY <1>2, <1>4 DEF Register, AddSystems, added
<1> QED BY <1>7, <1>8, <1>9

-----------------------------------------------------------------------------
LEMMA NamedAreLabels ==
    ASSUME registered \in Seq(System)
    PROVE  /\ Named(registered) \subseteq Labels
           /\ \A l \in Labels : Members(registered, l) \subseteq DOMAIN registered
<1>1. \A i \in DOMAIN registered : registered[i] \in System
  OBVIOUS
<1>2. \A i \in DOMAIN registered : registered[i].label \in Labels
  BY <1>1 DEF System
<1> QED BY <1>2 DEF Named, Members

LEMMA InductiveAtFirst == RegistryInit => RegistryInductive
BY RegistryAssumption
   DEF RegistryInit, RegistrationInit, RegistryInductive, RegistryTypeOK, IdentitiesExact, PlansCurrent, None

LEMMA AddSystemsKeeps ==
    ASSUME RegistryInductive, NEW l \in Labels, NEW kinds \in Requests,
           AddSystems(l, kinds)
    PROVE  RegistryInductive'
<1>1. /\ Len(kinds) \in Nat \ {0}
      /\ registered \in Seq(System) /\ IdentitiesExact
  BY RegistryAssumption DEF RegistryInductive, RegistryTypeOK
<1>2. /\ registered' \in Seq(System)
      /\ Len(registered') = Len(registered) + Len(kinds)
      /\ \A i \in DOMAIN registered' : registered'[i].id = i
  BY Appended
<1>3. nextId' = IF Len(registered) + 1 + Len(kinds) <= IdentityMax
                THEN Len(registered) + 1 + Len(kinds) ELSE None
  BY <1>1, IdentityFollows DEF AddSystems
<1>4. Len(registered) + Len(kinds) <= IdentityMax
  BY <1>1, PreflightExact DEF AddSystems
<1>5. RegistryTypeOK'
  <2>1. DOMAIN registered \subseteq DOMAIN registered'
    BY <1>1, <1>2
  <2>2. nextId' \in 0..IdentityMax
    BY <1>1, <1>3, RegistryAssumption DEF None
  <2> QED BY <1>2, <2>1, <2>2 DEF RegistryInductive, RegistryTypeOK, AddSystems
<1>6. IdentitiesExact'
  BY <1>1, <1>2, <1>3, <1>4, RegistryAssumption DEF IdentitiesExact
<1>7. PlansCurrent'
  BY DEF PlansCurrent, AddSystems
<1> QED BY <1>5, <1>6, <1>7 DEF RegistryInductive

LEMMA RebuildKeeps ==
    ASSUME RegistryInductive, Rebuild
    PROVE  /\ RegistryInductive'
           /\ Broken(registered) = {}
           /\ plans' = [l \in Named(registered) |-> Members(registered, l)]
<1>1. registered \in Seq(System)
  BY DEF RegistryInductive, RegistryTypeOK
<1>2. Named(registered) \subseteq Labels
  BY <1>1, NamedAreLabels
<1>3. \A l \in Labels : Members(registered, l) \subseteq DOMAIN registered
  BY <1>1, NamedAreLabels
<1>4. /\ Broken(registered) = {}
      /\ plans' = [l \in Named(registered) |-> Members(registered, l)]
  BY DEF Rebuild, RegistryInductive, PlansCurrent
<1>5. /\ DOMAIN plans' \subseteq Labels
      /\ \A l \in DOMAIN plans' : plans'[l] \subseteq DOMAIN registered
  BY <1>2, <1>3, <1>4
<1>6. dirty' \in BOOLEAN
  BY DEF Rebuild, RegistryInductive, RegistryTypeOK
<1>7. RegistryTypeOK'
  BY <1>5, <1>6 DEF RegistryTypeOK, RegistryInductive, Rebuild
<1>8. IdentitiesExact'
  BY DEF IdentitiesExact, RegistryInductive, Rebuild
<1>9. PlansCurrent'
  BY <1>4 DEF PlansCurrent, Rebuild
<1> QED BY <1>4, <1>7, <1>8, <1>9 DEF RegistryInductive

(* What changes nothing but the answer keeps the invariant.                *)
LEMMA AnswerKeeps ==
    ASSUME RegistryInductive, UNCHANGED <<registered, nextId, plans, dirty>>
    PROVE  RegistryInductive'
<1>1. RegistryTypeOK'
  BY DEF RegistryInductive, RegistryTypeOK
<1>2. IdentitiesExact'
  BY DEF RegistryInductive, IdentitiesExact
<1>3. PlansCurrent'
  BY DEF RegistryInductive, PlansCurrent
<1> QED BY <1>1, <1>2, <1>3 DEF RegistryInductive

LEMMA InductiveKept == RegistryInductive /\ [RegistryNext]_registryVars => RegistryInductive'
<1> SUFFICES ASSUME RegistryInductive, [RegistryNext]_registryVars PROVE RegistryInductive'
  OBVIOUS
<1>1. ASSUME NEW kinds \in Requests, SetupFails(kinds) PROVE RegistryInductive'
  BY <1>1, AnswerKeeps DEF SetupFails, RefuseSetup
<1>2. ASSUME NEW kinds \in Requests, IdentitiesRunOut(kinds) PROVE RegistryInductive'
  BY <1>2, AnswerKeeps DEF IdentitiesRunOut
<1>3. ASSUME NEW kinds \in Requests, NEW l \in Labels, AddSystems(l, kinds)
      PROVE  RegistryInductive'
  BY <1>3, AddSystemsKeeps
<1>4. CASE RebuildFails
  BY <1>4, AnswerKeeps DEF RebuildFails
<1>5. CASE Validate
  BY <1>5, RebuildKeeps DEF Validate
<1>6. ASSUME NEW l \in Labels, PlanFor(l) PROVE RegistryInductive'
  BY <1>6, RebuildKeeps DEF PlanFor
<1>7. CASE UNCHANGED registryVars
  BY <1>7, AnswerKeeps DEF registryVars
<1> QED BY <1>1, <1>2, <1>3, <1>4, <1>5, <1>6, <1>7 DEF RegistryNext

(* Every reachable registry satisfies the invariant: identities are        *)
(* exact and plans that are not marked dirty are those of the systems.     *)
THEOREM RegistryInvariant == RegistrySpec => []RegistryInductive
BY InductiveAtFirst, InductiveKept, PTL DEF RegistrySpec

(* The identities claimed are valid ones and the plans point at systems.   *)
THEOREM RegistryTypeCorrect == RegistrySpec => []RegistryTypeOK
<1>1. RegistryInductive => RegistryTypeOK
  BY DEF RegistryInductive
<1> QED BY <1>1, RegistryInvariant, PTL

(* No identity is given twice, and a failed call of add_systems consumes   *)
(* none.                                                                   *)
THEOREM IdentitiesTheorem == RegistrySpec => []IdentitiesExact
<1>1. RegistryInductive => IdentitiesExact
  BY DEF RegistryInductive
<1> QED BY <1>1, RegistryInvariant, PTL

-----------------------------------------------------------------------------
LEMMA StepImplements ==
    RegistryInductive /\ [RegistryNext]_registryVars => [RegistrationNext]_requestVars
<1> SUFFICES ASSUME RegistryInductive, [RegistryNext]_registryVars
             PROVE  [RegistrationNext]_requestVars
  OBVIOUS
<1>1. ASSUME NEW kinds \in Requests, SetupFails(kinds) PROVE RegistrationNext
  BY <1>1 DEF SetupFails, RegistrationNext
<1>2. ASSUME NEW kinds \in Requests, IdentitiesRunOut(kinds)
      PROVE  RegistrationNext
  <2>1. /\ Len(kinds) \in Nat \ {0}
        /\ registered \in Seq(System) /\ IdentitiesExact
    BY RegistryAssumption DEF RegistryInductive, RegistryTypeOK
  <2>2. ~ (Len(registered) + Len(kinds) <= IdentityMax)
    BY <1>2, <2>1, PreflightExact DEF IdentitiesRunOut
  <2>3. Len(registered) + Len(kinds) > IdentityMax
    BY <2>1, <2>2, RegistryAssumption
  <2>4. RefuseExhausted(kinds)
    BY <1>2, <2>3 DEF IdentitiesRunOut, RefuseExhausted
  <2> QED BY <2>4 DEF RegistrationNext
<1>3. ASSUME NEW kinds \in Requests, NEW l \in Labels, AddSystems(l, kinds)
      PROVE  RegistrationNext
  BY <1>3, Appended DEF RegistrationNext
<1>4. CASE RebuildFails
  BY <1>4 DEF RebuildFails, ReportInvalid, RegistrationNext
<1>5. CASE Validate
  <2>1. Broken(registered) = {} /\ UNCHANGED registered
    BY <1>5, RebuildKeeps DEF Validate, Rebuild
  <2> QED BY <1>5, <2>1 DEF Validate, ReportValid, RegistrationNext
<1>6. ASSUME NEW l \in Labels, PlanFor(l) PROVE RegistrationNext
  <2>1. /\ Broken(registered) = {} /\ UNCHANGED registered
        /\ plans' = [m \in Named(registered) |-> Members(registered, m)]
    BY <1>6, RebuildKeeps DEF PlanFor, Rebuild
  <2>2. Provide(l)
    BY <1>6, <2>1 DEF PlanFor, Provide, Planned
  <2> QED BY <2>2 DEF RegistrationNext
<1>7. CASE UNCHANGED registryVars
  BY <1>7 DEF registryVars, requestVars
<1> QED BY <1>1, <1>2, <1>3, <1>4, <1>5, <1>6, <1>7 DEF RegistryNext

(* Registration and requests look as if no plan were kept: a run gets the  *)
(* systems as they are registered when it asks, for every schedule.        *)
THEOREM RegistrationTheorem == RegistrySpec => ImplementsRegistration
<1>1. RegistryInit => RegistrationInit
  BY DEF RegistryInit
<1>2. RegistrationInit /\ [][RegistrationNext]_requestVars => ImplementsRegistration
  BY DEF ImplementsRegistration, RegistrationSpec
<1> QED BY <1>1, <1>2, RegistryInvariant, StepImplements, PTL DEF RegistrySpec

=============================================================================
