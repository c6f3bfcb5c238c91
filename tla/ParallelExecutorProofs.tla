------------------------ MODULE ParallelExecutorProofs ------------------------
(***************************************************************************)
(* For every plan, every set of components and every cursor bound: a run   *)
(* of cohorts leaves the world a serial run leaves, its workers never race,*)
(* it publishes and calls back in the serial order, fails as a serial run  *)
(* does, and accounts for every change.                                    *)
(*                                                                         *)
(* The argument: between cohorts the world agrees with the state of the    *)
(* serial run at the same system (Between).  While a cohort runs, the world*)
(* is the one it started from except for the payloads its members have     *)
(* mutated (Payloads), and each member that has begun has seen what the    *)
(* serial run shows it (Sighted).  Along the serial run the members of a   *)
(* cohort do not disturb one another (CohortProgress), so replaying their  *)
(* journals in order leads to the serial state behind the cohort.          *)
(***************************************************************************)
EXTENDS ParallelExecutor, TLAPS, WellFoundedInduction, SequenceTheorems

-----------------------------------------------------------------------------
(* Recursion along an interval.                                            *)

(* What holds at the first number and carries over to the next holds of    *)
(* the whole interval.                                                     *)
LEMMA IntervalInduction ==
    ASSUME NEW lo \in Int, NEW hi \in Int, NEW S, lo \in S,
           \A k \in lo..(hi - 1) : k \in S => k + 1 \in S
    PROVE  lo..hi \subseteq S
<1> DEFINE T == {n \in Nat : lo + n <= hi /\ lo + n \notin S}
           R == {x \in Nat \X Nat : x[1] < x[2]}
<1>1. IsWellFoundedOn(R, Nat)
  BY NatLessThanWellFounded DEF OpToRel
<1>2. T = {}
  <2> SUFFICES ASSUME T # {} PROVE FALSE
    OBVIOUS
  <2>1. PICK n \in T : \A m \in T : ~ (<<m, n>> \in R)
    BY <1>1, WFMin
  <2>2. n # 0
    BY <2>1
  <2>3. n - 1 \in Nat /\ <<n - 1, n>> \in R
    BY <2>1, <2>2
  <2>4. lo + (n - 1) \in S
    BY <2>1, <2>3
  <2>5. lo + (n - 1) \in lo..(hi - 1) /\ lo + (n - 1) + 1 = lo + n
    BY <2>1, <2>3
  <2> QED BY <2>1, <2>4, <2>5
<1>3. ASSUME NEW k \in lo..hi PROVE k \in S
  <2>1. k - lo \in Nat /\ lo + (k - lo) = k /\ k <= hi
    OBVIOUS
  <2>2. k - lo \notin T
    BY <1>2
  <2> QED BY <2>1, <2>2
<1> QED BY <1>3

(* The same along the numbers from zero.                                   *)
LEMMA InductionFromZero ==
    ASSUME NEW hi \in Nat, NEW S, 0 \in S,
           \A k \in 0..(hi - 1) : k \in S => k + 1 \in S
    PROVE  \A k \in 0..hi : k \in S
<1> DEFINE lo == 0
<1>1. lo \in Int /\ lo \in S /\ \A k \in lo..(hi - 1) : k \in S => k + 1 \in S
  OBVIOUS
<1>2. lo..hi \subseteq S
  <2> HIDE DEF lo
  <2> QED BY <1>1, IntervalInduction
<1> QED BY <1>2

(* A function whose every value is typed if the one before is.             *)
LEMMA TypedByRecursion ==
    ASSUME NEW lo \in Int, NEW hi \in Int, NEW V, NEW f, f[lo] \in V,
           \A k \in (lo + 1)..hi : f[k - 1] \in V => f[k] \in V
    PROVE  \A k \in lo..hi : f[k] \in V
<1> DEFINE S == {k \in Int : f[k] \in V}
<1>1. lo \in S
  OBVIOUS
<1>2. \A k \in lo..(hi - 1) : k \in S => k + 1 \in S
  <2> SUFFICES ASSUME NEW k \in lo..(hi - 1), k \in S PROVE k + 1 \in S
    OBVIOUS
  <2>1. k + 1 \in (lo + 1)..hi /\ (k + 1) - 1 = k
    OBVIOUS
  <2> QED BY <2>1
<1> HIDE DEF S
<1>3. lo..hi \subseteq S
  BY <1>1, <1>2, IntervalInduction
<1> QED BY <1>3 DEF S

Recursion(f, lo, hi, zero, step) ==
    f[lo] = zero /\ \A k \in (lo + 1)..hi : f[k] = step[k][f[k - 1]]

(* Every step on a set of values defines such a function.                  *)
LEMMA FunctionByRecursion ==
    ASSUME NEW lo \in Int, NEW hi \in Int, lo <= hi, NEW V, NEW zero \in V,
           NEW step \in [(lo + 1)..hi -> [V -> V]]
    PROVE  \E f \in [lo..hi -> V] : Recursion(f, lo, hi, zero, step)
<1> DEFINE Good(f, m) ==
              f[lo] = zero /\ \A k \in (lo + 1)..m : f[k] = step[k][f[k - 1]]
           S == {m \in lo..hi : \E f \in [lo..m -> V] : Good(f, m)}
<1>1. lo \in S
  <2> DEFINE f == [k \in lo..lo |-> zero]
  <2>1. f \in [lo..lo -> V] /\ Good(f, lo)
    OBVIOUS
  <2> HIDE DEF f
  <2> QED BY <2>1
<1>2. ASSUME NEW m \in lo..(hi - 1), m \in S PROVE m + 1 \in S
  <2>1. PICK f \in [lo..m -> V] : Good(f, m)
    BY <1>2
  <2> DEFINE g == [k \in lo..(m + 1) |-> IF k = m + 1 THEN step[m + 1][f[m]] ELSE f[k]]
  <2>2. m \in lo..m /\ m + 1 \in (lo + 1)..hi /\ f[m] \in V
    OBVIOUS
  <2>3. step[m + 1][f[m]] \in V
    BY <2>2
  <2>4. g \in [lo..(m + 1) -> V]
    BY <2>3
  <2>5. (\A k \in lo..m : g[k] = f[k]) /\ g[m + 1] = step[m + 1][f[m]]
    OBVIOUS
  <2> HIDE DEF g
  <2>6. ASSUME NEW k \in (lo + 1)..(m + 1)
        PROVE g[k] = step[k][g[k - 1]]
    <3>1. CASE k = m + 1
      BY <2>2, <2>5, <3>1
    <3>2. CASE k # m + 1
      <4>1. k \in (lo + 1)..m /\ k \in lo..m /\ k - 1 \in lo..m
        BY <3>2
      <4>2. f[k] = step[k][f[k - 1]]
        BY <2>1, <4>1
      <4> QED BY <2>5, <4>1, <4>2
    <3> QED BY <3>1, <3>2
  <2>7. g[lo] = zero
    BY <2>1, <2>5
  <2>8. Good(g, m + 1)
    BY <2>6, <2>7
  <2>9. m + 1 \in lo..hi
    OBVIOUS
  <2> QED BY <2>4, <2>8, <2>9
<1>3. hi \in S
  <2> HIDE DEF S
  <2>1. \A k \in lo..(hi - 1) : k \in S => k + 1 \in S
    BY <1>2
  <2>2. lo..hi \subseteq S
    BY <1>1, <2>1, IntervalInduction
  <2> QED BY <2>2
<1>4. PICK f \in [lo..hi -> V] : Good(f, hi)
  BY <1>3
<1>5. Recursion(f, lo, hi, zero, step)
  BY <1>4 DEF Recursion
<1> QED BY <1>5

-----------------------------------------------------------------------------
(* Sequences, one behind the other.                                        *)

Concatenations(part, lo, hi) ==
    CHOOSE below : below = [k \in lo..hi |->
        IF k = lo THEN <<>> ELSE below[k - 1] \o part[k - 1]]

Chained(below, part, lo, hi) ==
    below[lo] = <<>> /\ \A k \in (lo + 1)..hi : below[k] = below[k - 1] \o part[k - 1]

(* The recursive function Concatenations is defined: each value is the one *)
(* before it with one part appended.                                       *)
LEMMA ConcatenationsAre ==
    ASSUME NEW lo \in Int, NEW hi \in Int, lo <= hi, NEW V, NEW part,
           \A r \in lo..(hi - 1) : part[r] \in Seq(V)
    PROVE  /\ Concatenations(part, lo, hi) \in [lo..hi -> Seq(V)]
           /\ Chained(Concatenations(part, lo, hi), part, lo, hi)
           /\ Concatenation(part, lo, hi) = Concatenations(part, lo, hi)[hi]
<1> DEFINE below == Concatenations(part, lo, hi)
           W == Seq(V)
           step == [k \in (lo + 1)..hi |-> [s \in W |-> s \o part[k - 1]]]
<1>1. Concatenation(part, lo, hi) = below[hi]
  BY DEF Concatenation, Concatenations
<1>2. step \in [(lo + 1)..hi -> [W -> W]]
  <2>1. \A k \in (lo + 1)..hi : part[k - 1] \in Seq(V)
    OBVIOUS
  <2> QED BY <2>1
<1>3. <<>> \in W
  OBVIOUS
<1>4. \A k \in (lo + 1)..hi : \A s \in W : step[k][s] = s \o part[k - 1]
  OBVIOUS
<1> HIDE DEF step, W
<1>5. PICK f \in [lo..hi -> W] : Recursion(f, lo, hi, <<>>, step)
  BY <1>2, <1>3, FunctionByRecursion
<1>6. ASSUME NEW k \in lo..hi
      PROVE  f[k] = IF k = lo THEN <<>> ELSE f[k - 1] \o part[k - 1]
  <2>1. CASE k # lo
    <3>1. k \in (lo + 1)..hi /\ k - 1 \in lo..hi
      BY <2>1
    <3>2. f[k - 1] \in W
      BY <3>1
    <3> QED BY <1>4, <1>5, <2>1, <3>1, <3>2 DEF Recursion
  <2> QED BY <1>5, <2>1 DEF Recursion
<1>7. f = [k \in lo..hi |-> IF k = lo THEN <<>> ELSE f[k - 1] \o part[k - 1]]
  BY <1>6
<1>8. below = [k \in lo..hi |-> IF k = lo THEN <<>> ELSE below[k - 1] \o part[k - 1]]
  BY <1>7 DEF Concatenations
<1> HIDE DEF below
<1>9. \A k \in lo..hi : below[k] = IF k = lo THEN <<>> ELSE below[k - 1] \o part[k - 1]
  BY <1>8
<1>10. below[lo] = <<>> /\ \A k \in (lo + 1)..hi : below[k] = below[k - 1] \o part[k - 1]
  <2>1. lo \in lo..hi /\ \A k \in (lo + 1)..hi : k \in lo..hi /\ k # lo
    OBVIOUS
  <2> QED BY <1>9, <2>1, Zenon
<1>11. \A k \in lo..hi : below[k] \in W
  <2>1. ASSUME NEW k \in (lo + 1)..hi, below[k - 1] \in W PROVE below[k] \in W
    <3>1. below[k] = below[k - 1] \o part[k - 1]
      BY <1>10
    <3>2. k - 1 \in lo..(hi - 1)
      OBVIOUS
    <3>3. below[k - 1] \in Seq(V) /\ part[k - 1] \in Seq(V)
      BY <2>1, <3>2 DEF W
    <3> QED BY <3>1, <3>3 DEF W
  <2>2. below[lo] \in W
    BY <1>3, <1>10
  <2> QED BY <2>1, <2>2, TypedByRecursion
<1>12. below \in [lo..hi -> W]
  BY <1>8, <1>11
<1> QED BY <1>1, <1>10, <1>12 DEF below, W, Chained

-----------------------------------------------------------------------------
(* Worlds, and what happens to them.                                       *)

Stamps == Nat \X Nat

Observations ==
    [run : Nat, values : UNION {[D -> Stamps] : D \in SUBSET Components},
     fresh : SUBSET Components, applied : Seq(Stamps)]

WorldStates(p) ==
    [value : [Components -> Stamps], changed : [Components -> Nat],
     cursor : Nat, applied : Seq(Stamps), callbacks : Seq(Nat),
     lastRun : [Ranks(p) -> Nat], seen : [Ranks(p) -> Observations]]

SerialStates(p) == [state : WorldStates(p), queue : Seq(Stamps)]

(* What is common to the fields of a world state.                          *)
LEMMA PlanIs ==
    ASSUME NEW p \in Plans
    PROVE  /\ p.size \in Nat
           /\ p.capacity \in Nat
           /\ p.start \in 0..CursorMax
           /\ CursorMax \in Nat
           /\ p.cuts \subseteq 1..p.size
           /\ p.deferred \subseteq Ranks(p)
           /\ \A r \in p.deferred : \E c \in p.cuts : r < c
           /\ \A r \in Ranks(p) : /\ r \in Nat
                                  /\ p.reads[r] \subseteq Components
                                  /\ p.writes[r] \in Seq(Components)
                                  /\ Written(p, r) \subseteq Components
           /\ \A f \in p.faults : f.system \in [Ranks(p) -> Fates]
<1> USE ExecutorAssumption
<1>1. \A r \in Ranks(p) : r \in Nat
  BY DEF Ranks
<1>2. ASSUME NEW r \in Ranks(p)
      PROVE  /\ p.reads[r] \subseteq Components
             /\ p.writes[r] \in Seq(Components)
             /\ Written(p, r) \subseteq Components
  <2>1. p.reads[r] \subseteq Components
    OBVIOUS
  <2>2. p.writes[r] \in Seq(Components)
    OBVIOUS
  <2>3. \A i \in DOMAIN p.writes[r] : p.writes[r][i] \in Components
    BY <2>2
  <2> QED BY <2>1, <2>2, <2>3 DEF Written
<1> QED BY <1>1, <1>2

(* What a system can observe is an observation.                            *)
LEMMA ObservationTyped ==
    ASSUME NEW p \in Plans, NEW s \in WorldStates(p), NEW r \in Ranks(p),
           NEW n \in Nat
    PROVE  Observation(p, s, r, n) \in Observations
<1>1. p.reads[r] \subseteq Components
  BY PlanIs
<1>2. /\ s.value \in [Components -> Stamps] /\ s.applied \in Seq(Stamps)
  BY DEF WorldStates
<1>3. [c \in p.reads[r] |-> s.value[c]] \in [p.reads[r] -> Stamps]
  BY <1>1, <1>2
<1>4. [c \in p.reads[r] |-> s.value[c]]
        \in UNION {[D -> Stamps] : D \in SUBSET Components}
  BY <1>1, <1>3
<1>5. {c \in p.reads[r] : s.changed[c] > s.lastRun[r]} \in SUBSET Components
  BY <1>1
<1> QED BY <1>2, <1>4, <1>5 DEF Observation, Observations

(* Observing leaves everything but what the system has seen and its last   *)
(* run.                                                                    *)
LEMMA ObservedIs ==
    ASSUME NEW p \in Plans, NEW s \in WorldStates(p), NEW r \in Ranks(p),
           NEW n \in Nat
    PROVE  LET t == Observed(p, s, r, n)
           IN  /\ t \in WorldStates(p)
               /\ t.value = s.value /\ t.changed = s.changed
               /\ t.cursor = s.cursor /\ t.applied = s.applied
               /\ t.callbacks = s.callbacks
               /\ t.lastRun = [s.lastRun EXCEPT ![r] = s.cursor]
               /\ t.seen = [s.seen EXCEPT ![r] = Observation(p, s, r, n)]
<1>1. Observation(p, s, r, n) \in Observations
  BY ObservationTyped
<1> QED BY <1>1 DEF Observed, WorldStates

(* Mutating a payload leaves everything but that payload.                  *)
LEMMA MutatedIs ==
    ASSUME NEW p \in Plans, NEW s \in WorldStates(p), NEW c \in Components,
           NEW r \in Ranks(p), NEW n \in Nat
    PROVE  LET t == Mutated(s, c, r, n)
           IN  /\ t \in WorldStates(p)
               /\ t.value = [s.value EXCEPT ![c] = <<n, r>>]
               /\ t.changed = s.changed
               /\ t.cursor = s.cursor /\ t.applied = s.applied
               /\ t.callbacks = s.callbacks
               /\ t.lastRun = s.lastRun /\ t.seen = s.seen
<1>1. <<n, r>> \in Stamps
  BY PlanIs DEF Stamps
<1> QED BY <1>1 DEF Mutated, WorldStates

(* Publishing appends the queue to what is applied and moves the cursor as *)
(* much.                                                                   *)
LEMMA PublishedIs ==
    ASSUME NEW p \in Plans, NEW s \in WorldStates(p), NEW q \in Seq(Stamps)
    PROVE  LET t == Published(s, q)
           IN  /\ t \in WorldStates(p)
               /\ t.value = s.value /\ t.changed = s.changed
               /\ t.cursor = s.cursor + Len(q) /\ t.applied = s.applied \o q
               /\ t.callbacks = s.callbacks
               /\ t.lastRun = s.lastRun /\ t.seen = s.seen
<1>1. s.applied \in Seq(Stamps) /\ s.cursor \in Nat /\ Len(q) \in Nat
  BY DEF WorldStates
<1>2. s.applied \o q \in Seq(Stamps) /\ s.cursor + Len(q) \in Nat
  BY <1>1
<1> QED BY <1>2 DEF Published, WorldStates

(* A callback leaves what is recorded.                                     *)
LEMMA CalledBackIs ==
    ASSUME NEW p \in Plans, NEW s \in WorldStates(p), NEW k \in Nat
    PROVE  LET t == CalledBack(s, k)
           IN  /\ t \in WorldStates(p)
               /\ t.value = s.value /\ t.changed = s.changed
               /\ t.cursor = s.cursor /\ t.applied = s.applied
               /\ t.callbacks = Append(s.callbacks, k)
               /\ t.lastRun = s.lastRun /\ t.seen = s.seen
<1>1. s.callbacks \in Seq(Nat)
  BY DEF WorldStates
<1>2. Append(s.callbacks, k) \in Seq(Nat)
  BY <1>1
<1> QED BY <1>2 DEF CalledBack, WorldStates

(* The last event of a component that has one.                             *)
LEMMA LastEvent ==
    ASSUME NEW j \in Seq(Components), NEW c, NEW k \in DOMAIN j, j[k] = c
    PROVE  LET events == {i \in DOMAIN j : j[i] = c}
               last == CHOOSE i \in events : \A m \in events : m <= i
           IN  /\ last \in DOMAIN j /\ j[last] = c
               /\ \A m \in DOMAIN j : j[m] = c => m <= last
<1> DEFINE events == {i \in DOMAIN j : j[i] = c}
<1>1. Len(j) \in Nat /\ DOMAIN j = 1..Len(j)
  OBVIOUS
<1>2. \E i \in events : \A m \in events : m <= i
  <2> SUFFICES ASSUME \A i \in events : \E m \in events : ~ (m <= i)
               PROVE  FALSE
    OBVIOUS
  <2> DEFINE Above == {i \in Int : \E m \in events : i <= m}
             hi == Len(j) + 1
  <2>1. k \in Above
    BY <1>1
  <2>2. \A i \in k..(hi - 1) : i \in Above => i + 1 \in Above
    <3> SUFFICES ASSUME NEW i \in k..Len(j), i \in Above PROVE i + 1 \in Above
      OBVIOUS
    <3>1. PICK m \in events : i <= m
      OBVIOUS
    <3>2. PICK o \in events : ~ (o <= m)
      OBVIOUS
    <3> QED BY <1>1, <3>1, <3>2
  <2>3. k..hi \subseteq Above
    <3>1. k \in Int /\ hi \in Int
      BY <1>1
    <3> HIDE DEF Above, hi
    <3> QED BY <2>1, <2>2, <3>1, IntervalInduction
  <2>4. Len(j) + 1 \in Above
    BY <1>1, <2>3
  <2> QED BY <1>1, <2>4
<1> QED BY <1>2

(* Replaying a journal moves the cursor by its length and marks what it    *)
(* touches.                                                                *)
LEMMA ReplayedIs ==
    ASSUME NEW p \in Plans, NEW s \in WorldStates(p), NEW j \in Seq(Components)
    PROVE  LET t == Replayed(s, j)
           IN  /\ t \in WorldStates(p)
               /\ t.value = s.value
               /\ t.cursor = s.cursor + Len(j) /\ t.applied = s.applied
               /\ t.callbacks = s.callbacks
               /\ t.lastRun = s.lastRun /\ t.seen = s.seen
               /\ \A c \in Components :
                     \/ /\ \A i \in DOMAIN j : j[i] # c
                        /\ t.changed[c] = s.changed[c]
                     \/ \E i \in DOMAIN j :
                           /\ j[i] = c /\ t.changed[c] = s.cursor + i
                           /\ \A m \in DOMAIN j : j[m] = c => m <= i
<1> DEFINE t == Replayed(s, j)
           events(c) == {i \in DOMAIN j : j[i] = c}
           last(c) == CHOOSE i \in events(c) : \A m \in events(c) : m <= i
           after == [c \in DOMAIN s.changed |->
                       IF events(c) = {} THEN s.changed[c] ELSE s.cursor + last(c)]
<1>1. DOMAIN s.changed = Components /\ s.changed \in [Components -> Nat]
      /\ s.cursor \in Nat /\ Len(j) \in Nat
  BY DEF WorldStates
<1>2. t = [s EXCEPT !.cursor = s.cursor + Len(j), !.changed = after]
  BY DEF Replayed
<1>3. ASSUME NEW c \in Components
      PROVE  /\ after[c] \in Nat
             /\ \/ /\ \A i \in DOMAIN j : j[i] # c
                   /\ after[c] = s.changed[c]
                \/ \E i \in DOMAIN j :
                      /\ j[i] = c /\ after[c] = s.cursor + i
                      /\ \A m \in DOMAIN j : j[m] = c => m <= i
  <2>1. CASE events(c) = {}
    BY <1>1, <2>1
  <2>2. CASE events(c) # {}
    <3>1. PICK k \in DOMAIN j : j[k] = c
      BY <2>2
    <3>2. /\ last(c) \in DOMAIN j /\ j[last(c)] = c
          /\ \A m \in DOMAIN j : j[m] = c => m <= last(c)
      BY <3>1, LastEvent
    <3>3. after[c] = s.cursor + last(c)
      BY <1>1, <2>2
    <3>4. last(c) \in Nat
      BY <3>2
    <3> HIDE DEF last, after
    <3> QED BY <1>1, <3>2, <3>3, <3>4
  <2> QED BY <2>1, <2>2
<1>4. after \in [Components -> Nat]
  <2>1. after = [c \in Components |-> after[c]]
    BY <1>1
  <2> HIDE DEF after
  <2> QED BY <1>3, <2>1
<1> HIDE DEF after
<1>5. /\ t \in WorldStates(p)
      /\ t.value = s.value
      /\ t.cursor = s.cursor + Len(j) /\ t.applied = s.applied
      /\ t.callbacks = s.callbacks
      /\ t.lastRun = s.lastRun /\ t.seen = s.seen
      /\ t.changed = after
  <2>1. s.cursor + Len(j) \in Nat
    BY <1>1
  <2> HIDE DEF t
  <2> QED BY <1>2, <1>4, <2>1 DEF WorldStates
<1> QED BY <1>3, <1>5

(* What is marked depends on the marks and the cursor alone.               *)
LEMMA ReplayedChanges ==
    ASSUME NEW p \in Plans, NEW s \in WorldStates(p), NEW u \in WorldStates(p),
           NEW j \in Seq(Components), s.changed = u.changed, s.cursor = u.cursor
    PROVE  Replayed(s, j).changed = Replayed(u, j).changed
<1> DEFINE after(v) == [c \in DOMAIN v.changed |->
            LET events == {i \in DOMAIN j : j[i] = c}
            IN  IF events = {} THEN v.changed[c]
                ELSE v.cursor
                     + CHOOSE i \in events : \A k \in events : k <= i]
<1>1. /\ Replayed(s, j) = [s EXCEPT !.cursor = @ + Len(j), !.changed = after(s)]
      /\ Replayed(u, j) = [u EXCEPT !.cursor = @ + Len(j), !.changed = after(u)]
  BY DEF Replayed
<1>2. after(s) = after(u)
  OBVIOUS
<1> HIDE DEF after
<1>3. Replayed(s, j).changed = after(s) /\ Replayed(u, j).changed = after(u)
  BY <1>1 DEF WorldStates
<1> QED BY <1>2, <1>3

(* The components a sequence of events is about.                           *)
Touched(j) == {j[i] : i \in DOMAIN j}

(* What a system that runs with events j makes of world s.                 *)
HasRun(t, p, s, r, n, j) ==
    /\ \A c \in Components :
          t.value[c] = IF c \in Touched(j) THEN <<n, r>> ELSE s.value[c]
    /\ t.cursor = s.cursor + Len(j)
    /\ t.applied = s.applied
    /\ t.callbacks = s.callbacks
    /\ t.lastRun = [s.lastRun EXCEPT ![r] = s.cursor]
    /\ t.seen = [s.seen EXCEPT ![r] = Observation(p, s, r, n)]
    /\ t.changed = Replayed(s, j).changed

(* A system body that runs to its end.                                     *)
LEMMA RanBodyIs ==
    ASSUME NEW p \in Plans, NEW s \in WorldStates(p), NEW r \in Ranks(p),
           NEW n \in Nat, NEW j \in Seq(Components)
    PROVE  /\ RanBody(p, s, r, n, j) \in WorldStates(p)
           /\ HasRun(RanBody(p, s, r, n, j), p, s, r, n, j)
<1> DEFINE o == Observed(p, s, r, n)
           v == [c \in Components |->
                   IF c \in Touched(j) THEN <<n, r>> ELSE s.value[c]]
           u == [o EXCEPT !.value = v]
<1>1. /\ o \in WorldStates(p)
      /\ o.value = s.value /\ o.changed = s.changed
      /\ o.cursor = s.cursor /\ o.applied = s.applied
      /\ o.callbacks = s.callbacks
      /\ o.lastRun = [s.lastRun EXCEPT ![r] = s.cursor]
      /\ o.seen = [s.seen EXCEPT ![r] = Observation(p, s, r, n)]
  BY ObservedIs
<1>2. RanBody(p, s, r, n, j) = Replayed(u, j)
  <2>1. DOMAIN o.value = Components
    BY <1>1 DEF WorldStates
  <2>2. [c \in DOMAIN o.value |->
           IF c \in {j[i] : i \in DOMAIN j} THEN <<n, r>> ELSE o.value[c]] = v
    BY <1>1, <2>1 DEF Touched
  <2> HIDE DEF o, v
  <2> QED BY <2>2 DEF RanBody, o
<1>3. v \in [Components -> Stamps]
  <2>1. <<n, r>> \in Stamps
    BY PlanIs DEF Stamps
  <2>2. s.value \in [Components -> Stamps]
    BY DEF WorldStates
  <2> QED BY <2>1, <2>2
<1> HIDE DEF o, v
<1>4. /\ u \in WorldStates(p) /\ u.value = v /\ u.changed = o.changed
      /\ u.cursor = o.cursor /\ u.applied = o.applied
      /\ u.callbacks = o.callbacks /\ u.lastRun = o.lastRun /\ u.seen = o.seen
  BY <1>1, <1>3 DEF WorldStates
<1> HIDE DEF u
<1>5. /\ Replayed(u, j) \in WorldStates(p)
      /\ Replayed(u, j).value = v
      /\ Replayed(u, j).cursor = s.cursor + Len(j)
      /\ Replayed(u, j).applied = s.applied
      /\ Replayed(u, j).callbacks = s.callbacks
      /\ Replayed(u, j).lastRun = o.lastRun /\ Replayed(u, j).seen = o.seen
  BY <1>1, <1>4, ReplayedIs
<1>6. Replayed(u, j).changed = Replayed(s, j).changed
  BY <1>1, <1>4, ReplayedChanges
<1> QED BY <1>1, <1>2, <1>5, <1>6 DEF v, HasRun

(* The serial run behind one more system.                                  *)
LEMMA AfterSystemIs ==
    ASSUME NEW p \in Plans, NEW b \in SerialStates(p), NEW r \in Ranks(p),
           NEW n \in Nat
    PROVE  LET t == AfterSystem(p, b, r, n)
           IN  /\ t \in SerialStates(p)
               /\ t.state = RanBody(p, b.state, r, n, p.writes[r])
               /\ t.queue = IF r \in p.deferred THEN Append(b.queue, <<n, r>>)
                            ELSE b.queue
<1>1. b.state \in WorldStates(p) /\ b.queue \in Seq(Stamps)
  BY DEF SerialStates
<1>2. RanBody(p, b.state, r, n, p.writes[r]) \in WorldStates(p)
  BY <1>1, RanBodyIs, PlanIs
<1>3. <<n, r>> \in Stamps
  BY PlanIs DEF Stamps
<1>4. Append(b.queue, <<n, r>>) \in Seq(Stamps)
  BY <1>1, <1>3
<1> QED BY <1>1, <1>2, <1>4 DEF AfterSystem, SerialStates

(* The serial run behind a frontier.                                       *)
LEMMA AfterFrontierIs ==
    ASSUME NEW p \in Plans, NEW b \in SerialStates(p), NEW k \in Nat
    PROVE  LET t == AfterFrontier(b, k)
           IN  /\ t \in SerialStates(p)
               /\ t.queue = <<>>
               /\ t.state.value = b.state.value
               /\ t.state.changed = b.state.changed
               /\ t.state.cursor = b.state.cursor + Len(b.queue)
               /\ t.state.applied = b.state.applied \o b.queue
               /\ t.state.callbacks = Append(b.state.callbacks, k)
               /\ t.state.lastRun = b.state.lastRun
               /\ t.state.seen = b.state.seen
<1>1. b.state \in WorldStates(p) /\ b.queue \in Seq(Stamps)
  BY DEF SerialStates
<1> DEFINE u == Published(b.state, b.queue)
<1>2. /\ u \in WorldStates(p)
      /\ u.value = b.state.value /\ u.changed = b.state.changed
      /\ u.cursor = b.state.cursor + Len(b.queue)
      /\ u.applied = b.state.applied \o b.queue
      /\ u.callbacks = b.state.callbacks
      /\ u.lastRun = b.state.lastRun /\ u.seen = b.state.seen
  BY <1>1, PublishedIs
<1>3. AfterFrontier(b, k) = [state |-> CalledBack(u, k), queue |-> <<>>]
  BY DEF AfterFrontier
<1> HIDE DEF u
<1>4. CalledBack(u, k) \in WorldStates(p)
  BY <1>2, CalledBackIs
<1>5. AfterFrontier(b, k) \in SerialStates(p)
  BY <1>3, <1>4 DEF SerialStates
<1>6. AfterFrontier(b, k).state = CalledBack(u, k)
  BY <1>3
<1>7. /\ CalledBack(u, k).value = u.value
      /\ CalledBack(u, k).changed = u.changed
      /\ CalledBack(u, k).cursor = u.cursor
      /\ CalledBack(u, k).applied = u.applied
      /\ CalledBack(u, k).callbacks = Append(u.callbacks, k)
      /\ CalledBack(u, k).lastRun = u.lastRun
      /\ CalledBack(u, k).seen = u.seen
  BY <1>2, CalledBackIs
<1>8. AfterFrontier(b, k).queue = <<>>
  BY <1>3
<1> QED BY <1>2, <1>5, <1>6, <1>7, <1>8

-----------------------------------------------------------------------------
(* The serial run.                                                         *)

(* A step of the serial run leads to one of its states.                    *)
LEMMA SerialStepTyped ==
    ASSUME NEW p \in Plans, NEW b \in SerialStates(p), NEW k \in 1..p.size,
           NEW n \in Nat
    PROVE  SerialStep(p, b, k, n) \in SerialStates(p)
<1>1. k - 1 \in Ranks(p) /\ k \in Nat
  BY PlanIs DEF Ranks
<1>2. AfterSystem(p, b, k - 1, n) \in SerialStates(p)
  BY <1>1, AfterSystemIs
<1>3. AfterFrontier(AfterSystem(p, b, k - 1, n), k) \in SerialStates(p)
  BY <1>1, <1>2, AfterFrontierIs
<1> QED BY <1>2, <1>3 DEF SerialStep

(* The recursive function of the serial run is defined: each state is one  *)
(* step behind the one before.                                             *)
LEMMA SerialRunIs ==
    ASSUME NEW p \in Plans, NEW start \in WorldStates(p), NEW n \in Nat
    PROVE  LET after == SerialRun(p, start, n)
           IN  /\ after \in [0..p.size -> SerialStates(p)]
               /\ after[0] = [state |-> start, queue |-> <<>>]
               /\ \A k \in 1..p.size : after[k] = SerialStep(p, after[k - 1], k, n)
<1> DEFINE after == SerialRun(p, start, n)
           zero == [state |-> start, queue |-> <<>>]
           V == SerialStates(p)
           step == [k \in (0 + 1)..p.size |-> [b \in V |-> SerialStep(p, b, k, n)]]
<1>1. after = CHOOSE f : f = [k \in 0..p.size |-> IF k = 0 THEN zero
                                  ELSE SerialStep(p, f[k - 1], k, n)]
  BY DEF SerialRun
<1>2. step \in [(0 + 1)..p.size -> [V -> V]]
  <2>1. \A k \in (0 + 1)..p.size : \A b \in V : SerialStep(p, b, k, n) \in V
    BY SerialStepTyped
  <2> HIDE DEF V
  <2> QED BY <2>1
<1>3. zero \in V
  BY DEF SerialStates
<1>4. \A k \in (0 + 1)..p.size : \A b \in V : step[k][b] = SerialStep(p, b, k, n)
  OBVIOUS
<1>5. p.size \in Int /\ 0 <= p.size
  BY PlanIs
<1> HIDE DEF step, V, zero
<1>6. PICK f \in [0..p.size -> V] : Recursion(f, 0, p.size, zero, step)
  <2> DEFINE lo == 0
             hi == p.size
  <2>1. lo \in Int /\ hi \in Int /\ lo <= hi
    BY <1>5
  <2>2. step \in [(lo + 1)..hi -> [V -> V]]
    BY <1>2
  <2> HIDE DEF lo, hi
  <2>3. \E f \in [lo..hi -> V] : Recursion(f, lo, hi, zero, step)
    BY <1>3, <2>1, <2>2, FunctionByRecursion
  <2> QED BY <2>3 DEF lo, hi
<1>7. ASSUME NEW k \in 0..p.size
      PROVE  f[k] = IF k = 0 THEN zero ELSE SerialStep(p, f[k - 1], k, n)
  <2>1. CASE k # 0
    <3>1. k \in (0 + 1)..p.size /\ k - 1 \in 0..p.size
      BY <1>5, <2>1
    <3>2. f[k - 1] \in V
      BY <3>1
    <3> QED BY <1>4, <1>6, <2>1, <3>1, <3>2 DEF Recursion
  <2> QED BY <1>6, <2>1 DEF Recursion
<1>8. f = [k \in 0..p.size |-> IF k = 0 THEN zero ELSE SerialStep(p, f[k - 1], k, n)]
  BY <1>7
<1>9. after = [k \in 0..p.size |-> IF k = 0 THEN zero
                                   ELSE SerialStep(p, after[k - 1], k, n)]
  BY <1>1, <1>8
<1> HIDE DEF after
<1>10. \A k \in 0..p.size : after[k] = IF k = 0 THEN zero
                                       ELSE SerialStep(p, after[k - 1], k, n)
  BY <1>9
<1>11. after[0] = zero /\ \A k \in 1..p.size : after[k] = SerialStep(p, after[k - 1], k, n)
  <2>1. 0 \in 0..p.size /\ \A k \in 1..p.size : k \in 0..p.size /\ k # 0
    BY <1>5
  <2> QED BY <1>10, <2>1, Zenon
<1>12. \A k \in 0..p.size : after[k] \in V
  <2>1. ASSUME NEW k \in (0 + 1)..p.size, after[k - 1] \in V PROVE after[k] \in V
    <3>1. k \in 1..p.size
      OBVIOUS
    <3> QED BY <1>11, <2>1, <3>1, SerialStepTyped DEF V
  <2>2. after[0] \in V
    BY <1>3, <1>11
  <2>3. \A hi \in Int :
           (\A k \in (0 + 1)..hi : after[k - 1] \in V => after[k] \in V) =>
              \A k \in 0..hi : after[k] \in V
    BY <2>2, TypedByRecursion
  <2> QED BY <1>5, <2>1, <2>3
<1>13. after \in [0..p.size -> V]
  BY <1>9, <1>12
<1> QED BY <1>11, <1>13 DEF after, V, zero

(* No change is ahead of the cursor, and no stamp of a later run.          *)
Settled(s, n) ==
    /\ \A c \in Components : s.changed[c] <= s.cursor /\ s.value[c][1] <= n
    /\ \A r \in DOMAIN s.lastRun : s.lastRun[r] <= s.cursor

(* ... and what run n has written has changed since position base.         *)
Advanced(s, base, n) ==
    /\ Settled(s, n)
    /\ s.cursor >= base
    /\ \A c \in Components : s.value[c][1] = n => s.changed[c] > base

(* The fields of a world state.                                            *)
LEMMA WorldIs ==
    ASSUME NEW p \in Plans, NEW s \in WorldStates(p)
    PROVE  /\ s.cursor \in Nat
           /\ s.applied \in Seq(Stamps) /\ s.callbacks \in Seq(Nat)
           /\ DOMAIN s.lastRun = Ranks(p) /\ DOMAIN s.seen = Ranks(p)
           /\ \A r \in Ranks(p) : s.lastRun[r] \in Nat
           /\ \A c \in Components : s.changed[c] \in Nat /\ s.value[c] \in Stamps
                                    /\ s.value[c][1] \in Nat
BY DEF WorldStates, Stamps

(* A system body only moves a world on.                                    *)
LEMMA RanAdvances ==
    ASSUME NEW p \in Plans, NEW s \in WorldStates(p), NEW r \in Ranks(p),
           NEW n \in Nat, NEW j \in Seq(Components), NEW base \in Nat,
           Advanced(s, base, n)
    PROVE  Advanced(RanBody(p, s, r, n, j), base, n)
<1> DEFINE t == RanBody(p, s, r, n, j)
<1>1. /\ t \in WorldStates(p)
      /\ \A c \in Components :
            t.value[c] = IF c \in Touched(j) THEN <<n, r>> ELSE s.value[c]
      /\ t.cursor = s.cursor + Len(j)
      /\ t.lastRun = [s.lastRun EXCEPT ![r] = s.cursor]
      /\ t.changed = Replayed(s, j).changed
  <2>1. t \in WorldStates(p) /\ HasRun(t, p, s, r, n, j)
    BY RanBodyIs
  <2> HIDE DEF t
  <2> QED BY <2>1 DEF HasRun
<1> HIDE DEF t
<1>2. /\ s.cursor \in Nat /\ Len(j) \in Nat /\ t.cursor >= s.cursor
      /\ DOMAIN s.lastRun = Ranks(p) /\ DOMAIN t.lastRun = Ranks(p)
  BY <1>1, WorldIs
<1>3. ASSUME NEW c \in Components
      PROVE  /\ t.changed[c] <= t.cursor /\ t.value[c][1] <= n
             /\ t.value[c][1] = n => t.changed[c] > base
  <2>1. /\ s.changed[c] \in Nat /\ s.value[c][1] \in Nat
        /\ s.changed[c] <= s.cursor /\ s.value[c][1] <= n /\ s.cursor >= base
        /\ s.value[c][1] = n => s.changed[c] > base
    BY WorldIs DEF Advanced, Settled
  <2>2. CASE \A i \in DOMAIN j : j[i] # c
    <3>1. t.changed[c] = s.changed[c]
      BY <1>1, <2>2, ReplayedIs
    <3>2. t.value[c] = s.value[c]
      BY <1>1, <2>2 DEF Touched
    <3> QED BY <1>1, <1>2, <2>1, <3>1, <3>2
  <2>3. CASE \E i \in DOMAIN j : j[i] = c
    <3>1. PICK i \in DOMAIN j : t.changed[c] = s.cursor + i
      BY <1>1, <2>3, ReplayedIs
    <3>2. t.value[c] = <<n, r>>
      BY <1>1, <2>3 DEF Touched
    <3>3. i \in 1..Len(j)
      OBVIOUS
    <3> QED BY <1>1, <1>2, <2>1, <3>1, <3>2, <3>3
  <2> QED BY <2>2, <2>3
<1>4. ASSUME NEW q \in Ranks(p) PROVE t.lastRun[q] <= t.cursor
  <2>1. s.lastRun[q] \in Nat /\ s.lastRun[q] <= s.cursor
    BY WorldIs DEF Advanced, Settled
  <2>2. t.lastRun[q] = IF q = r THEN s.cursor ELSE s.lastRun[q]
    BY <1>1, <1>2
  <2> QED BY <1>1, <1>2, <2>1, <2>2
<1>5. t.cursor >= base
  BY <1>1, <1>2 DEF Advanced
<1> QED BY <1>2, <1>3, <1>4, <1>5 DEF Advanced, Settled, t

(* So does publication at a frontier.                                      *)
LEMMA FrontierAdvances ==
    ASSUME NEW p \in Plans, NEW b \in SerialStates(p), NEW k \in Nat,
           NEW n \in Nat, NEW base \in Nat, Advanced(b.state, base, n)
    PROVE  Advanced(AfterFrontier(b, k).state, base, n)
<1> DEFINE t == AfterFrontier(b, k).state
           s == b.state
<1>1. /\ t.value = s.value /\ t.changed = s.changed
      /\ t.cursor = s.cursor + Len(b.queue) /\ t.lastRun = s.lastRun
  BY AfterFrontierIs
<1>2. s \in WorldStates(p) /\ Len(b.queue) \in Nat
  BY DEF SerialStates
<1> HIDE DEF t, s
<1>3. /\ s.cursor \in Nat
      /\ \A c \in Components : s.changed[c] \in Nat
      /\ \A r \in DOMAIN s.lastRun : s.lastRun[r] \in Nat
  BY <1>2, WorldIs
<1> QED BY <1>1, <1>2, <1>3, SMTT(30) DEF Advanced, Settled, t, s

(* What holds all through a serial run.                                    *)
Kept(b, base, n) ==
    Advanced(b.state, base, n) /\ \A i \in DOMAIN b.queue : b.queue[i][1] = n

(* A system keeps the world advanced and every waiting buffer of this run. *)
LEMMA SystemKeeps ==
    ASSUME NEW p \in Plans, NEW b \in SerialStates(p), NEW r \in Ranks(p),
           NEW n \in Nat, NEW base \in Nat, Kept(b, base, n)
    PROVE  Kept(AfterSystem(p, b, r, n), base, n)
<1> DEFINE t == AfterSystem(p, b, r, n)
<1>1. /\ t.state = RanBody(p, b.state, r, n, p.writes[r])
      /\ t.queue = IF r \in p.deferred THEN Append(b.queue, <<n, r>>) ELSE b.queue
  BY AfterSystemIs
<1>2. b.state \in WorldStates(p) /\ b.queue \in Seq(Stamps)
  BY DEF SerialStates
<1>3. Advanced(t.state, base, n)
  BY <1>1, <1>2, RanAdvances, PlanIs DEF Kept
<1>4. \A i \in DOMAIN t.queue : t.queue[i][1] = n
  BY <1>1, <1>2 DEF Kept
<1> QED BY <1>3, <1>4 DEF Kept

(* So does a step of the serial run,                                       *)
LEMMA SerialStepKeeps ==
    ASSUME NEW p \in Plans, NEW b \in SerialStates(p), NEW k \in 1..p.size,
           NEW n \in Nat, NEW base \in Nat, Kept(b, base, n)
    PROVE  Kept(SerialStep(p, b, k, n), base, n)
<1> DEFINE ran == AfterSystem(p, b, k - 1, n)
<1>1. k - 1 \in Ranks(p) /\ k \in Nat
  BY PlanIs DEF Ranks
<1>2. ran \in SerialStates(p) /\ Kept(ran, base, n)
  BY <1>1, AfterSystemIs, SystemKeeps
<1> HIDE DEF ran
<1>3. Kept(AfterFrontier(ran, k), base, n)
  <2>1. AfterFrontier(ran, k).queue = <<>>
    BY <1>1, <1>2, AfterFrontierIs
  <2> QED BY <1>1, <1>2, <2>1, FrontierAdvances DEF Kept
<1> QED BY <1>2, <1>3 DEF SerialStep, ran

(* and therefore the whole of it.                                          *)
LEMMA SerialKeeps ==
    ASSUME NEW p \in Plans, NEW start \in WorldStates(p), NEW n \in Nat,
           \A c \in Components : start.value[c][1] < n, Settled(start, n)
    PROVE  \A k \in 0..p.size : Kept(SerialRun(p, start, n)[k], start.cursor, n)
<1> DEFINE after == SerialRun(p, start, n)
           S == {k \in 0..p.size : Kept(after[k], start.cursor, n)}
<1>1. /\ after \in [0..p.size -> SerialStates(p)]
      /\ after[0] = [state |-> start, queue |-> <<>>]
      /\ \A k \in 1..p.size : after[k] = SerialStep(p, after[k - 1], k, n)
  BY SerialRunIs
<1> HIDE DEF after
<1>2. p.size \in Nat /\ start.cursor \in Nat
  BY PlanIs, WorldIs
<1>3. Kept(after[0], start.cursor, n)
  <2>1. \A c \in Components : start.value[c][1] \in Nat
    BY WorldIs
  <2> QED BY <1>1, <1>2, <2>1 DEF Kept, Advanced
<1>4. ASSUME NEW k \in 0..(p.size - 1), k \in S PROVE k + 1 \in S
  <2>1. k + 1 \in 1..p.size /\ (k + 1) - 1 = k /\ k \in 0..p.size
    BY <1>2
  <2>2. after[k] \in SerialStates(p) /\ after[k + 1] = SerialStep(p, after[k], k + 1, n)
    BY <1>1, <2>1
  <2> QED BY <1>2, <1>4, <2>1, <2>2, SerialStepKeeps
<1>5. \A k \in 0..p.size : k \in S
  <2>1. 0 \in S
    BY <1>2, <1>3
  <2> HIDE DEF S
  <2> QED BY <1>2, <1>4, <2>1, InductionFromZero
<1> QED BY <1>5 DEF after
-----------------------------------------------------------------------------
(* Sequences behind one another.                                           *)

(* The elements of two joined sequences.                                   *)
LEMMA JoinIs ==
    ASSUME NEW S, NEW a \in Seq(S), NEW b \in Seq(S)
    PROVE  /\ a \o b \in Seq(S)
           /\ Len(a) \in Nat /\ Len(b) \in Nat /\ Len(a \o b) = Len(a) + Len(b)
           /\ DOMAIN a = 1..Len(a) /\ DOMAIN b = 1..Len(b)
           /\ DOMAIN (a \o b) = 1..(Len(a) + Len(b))
           /\ \A i \in 1..Len(a) : (a \o b)[i] = a[i]
           /\ \A i \in 1..Len(b) : (a \o b)[Len(a) + i] = b[i]
           /\ \A i \in 1..(Len(a) + Len(b)) :
                 i > Len(a) => i - Len(a) \in 1..Len(b) /\ (a \o b)[i] = b[i - Len(a)]
OBVIOUS

(* Joined sequences touch what either one touches.                         *)
LEMMA JoinTouches ==
    ASSUME NEW S, NEW a \in Seq(S), NEW b \in Seq(S)
    PROVE  Touched(a \o b) = Touched(a) \union Touched(b)
<1>1. ASSUME NEW x \in Touched(a \o b) PROVE x \in Touched(a) \union Touched(b)
  <2>1. PICK i \in DOMAIN (a \o b) : (a \o b)[i] = x
    BY DEF Touched
  <2>2. CASE i <= Len(a)
    <3>1. i \in DOMAIN a /\ a[i] = x
      BY <2>1, <2>2, JoinIs
    <3> QED BY <3>1 DEF Touched
  <2>3. CASE i > Len(a)
    <3>1. i - Len(a) \in DOMAIN b /\ b[i - Len(a)] = x
      BY <2>1, <2>3, JoinIs
    <3> QED BY <3>1 DEF Touched
  <2>4. i \in Nat /\ Len(a) \in Nat
    BY <2>1, JoinIs
  <2> QED BY <2>2, <2>3, <2>4
<1>2. ASSUME NEW x \in Touched(a) PROVE x \in Touched(a \o b)
  <2>1. PICK i \in DOMAIN a : a[i] = x
    BY DEF Touched
  <2>2. i \in DOMAIN (a \o b) /\ (a \o b)[i] = x
    BY <2>1, JoinIs
  <2> QED BY <2>2 DEF Touched
<1>3. ASSUME NEW x \in Touched(b) PROVE x \in Touched(a \o b)
  <2>1. PICK i \in DOMAIN b : b[i] = x
    BY DEF Touched
  <2>2. Len(a) + i \in DOMAIN (a \o b) /\ (a \o b)[Len(a) + i] = x
    BY <2>1, JoinIs
  <2> QED BY <2>2 DEF Touched
<1> QED BY <1>1, <1>2, <1>3

(* Replaying one journal behind another is replaying the two joined.       *)
LEMMA ReplayedTwice ==
    ASSUME NEW p \in Plans, NEW s \in WorldStates(p), NEW a \in Seq(Components),
           NEW b \in Seq(Components)
    PROVE  Replayed(Replayed(s, a), b).changed = Replayed(s, a \o b).changed
<1> DEFINE u == Replayed(s, a)
           x == Replayed(u, b)
           y == Replayed(s, a \o b)
           j == a \o b
<1>1. j \in Seq(Components)
  OBVIOUS
<1>2. /\ u \in WorldStates(p)
      /\ u.cursor = s.cursor + Len(a)
      /\ \A c \in Components :
            \/ /\ \A i \in DOMAIN a : a[i] # c
               /\ u.changed[c] = s.changed[c]
            \/ \E i \in DOMAIN a :
                  /\ a[i] = c /\ u.changed[c] = s.cursor + i
                  /\ \A m \in DOMAIN a : a[m] = c => m <= i
  BY ReplayedIs
<1> HIDE DEF u
<1>3. /\ x \in WorldStates(p)
      /\ \A c \in Components :
            \/ /\ \A i \in DOMAIN b : b[i] # c
               /\ x.changed[c] = u.changed[c]
            \/ \E i \in DOMAIN b :
                  /\ b[i] = c /\ x.changed[c] = u.cursor + i
                  /\ \A m \in DOMAIN b : b[m] = c => m <= i
  BY <1>2, ReplayedIs
<1> HIDE DEF x, j
<1>4. /\ y \in WorldStates(p)
      /\ \A c \in Components :
            \/ /\ \A i \in DOMAIN j : j[i] # c
               /\ y.changed[c] = s.changed[c]
            \/ \E i \in DOMAIN j :
                  /\ j[i] = c /\ y.changed[c] = s.cursor + i
                  /\ \A m \in DOMAIN j : j[m] = c => m <= i
  <2> SUFFICES /\ Replayed(s, j) \in WorldStates(p)
               /\ \A c \in Components :
                     \/ /\ \A i \in DOMAIN j : j[i] # c
                        /\ Replayed(s, j).changed[c] = s.changed[c]
                     \/ \E i \in DOMAIN j :
                           /\ j[i] = c /\ Replayed(s, j).changed[c] = s.cursor + i
                           /\ \A m \in DOMAIN j : j[m] = c => m <= i
    BY DEF j
  <2> QED BY <1>1, ReplayedIs
<1> HIDE DEF y
<1>5. s.cursor \in Nat
  BY WorldIs
<1>6. /\ Len(a) \in Nat /\ Len(b) \in Nat
      /\ DOMAIN a = 1..Len(a) /\ DOMAIN b = 1..Len(b)
      /\ DOMAIN j = 1..(Len(a) + Len(b))
      /\ \A i \in 1..Len(a) : j[i] = a[i]
      /\ \A i \in 1..Len(b) : j[Len(a) + i] = b[i]
      /\ \A i \in 1..(Len(a) + Len(b)) :
            i > Len(a) => i - Len(a) \in 1..Len(b) /\ j[i] = b[i - Len(a)]
  BY JoinIs DEF j
<1>7. ASSUME NEW c \in Components PROVE x.changed[c] = y.changed[c]
  <2>1. CASE \E i \in DOMAIN b : b[i] = c
    <3>1. PICK i \in DOMAIN b : /\ b[i] = c /\ x.changed[c] = u.cursor + i
                                /\ \A m \in DOMAIN b : b[m] = c => m <= i
      BY <1>3, <2>1
    <3>2. Len(a) + i \in DOMAIN j /\ j[Len(a) + i] = c
      BY <1>6, <3>1
    <3>3. PICK k \in DOMAIN j : /\ j[k] = c /\ y.changed[c] = s.cursor + k
                                /\ \A m \in DOMAIN j : j[m] = c => m <= k
      BY <1>4, <3>2
    <3>4. Len(a) + i <= k
      BY <3>2, <3>3
    <3>5. k - Len(a) \in DOMAIN b /\ b[k - Len(a)] = c
      BY <1>6, <3>1, <3>3, <3>4
    <3>6. k - Len(a) <= i
      BY <3>1, <3>5
    <3>7. k = Len(a) + i /\ i \in Nat
      <4>1. i \in 1..Len(b) /\ k \in 1..(Len(a) + Len(b))
        BY <1>6, <3>1, <3>3
      <4>2. i \in Int /\ k \in Int /\ Len(a) \in Int /\ i \in Nat
        BY <1>6, <4>1
      <4>3. \A l, m, n \in Int : l + m <= n /\ n - l <= m => n = l + m
        OBVIOUS
      <4> QED BY <3>4, <3>6, <4>2, <4>3
    <3>8. y.changed[c] = s.cursor + (Len(a) + i)
      BY <3>3, <3>7
    <3>9. x.changed[c] = (s.cursor + Len(a)) + i
      BY <1>2, <3>1
    <3> QED BY <1>5, <1>6, <3>7, <3>8, <3>9
  <2>2. CASE (\A i \in DOMAIN b : b[i] # c) /\ \E i \in DOMAIN a : a[i] = c
    <3>1. PICK i \in DOMAIN a : /\ a[i] = c /\ u.changed[c] = s.cursor + i
                                /\ \A m \in DOMAIN a : a[m] = c => m <= i
      BY <1>2, <2>2
    <3>2. i \in DOMAIN j /\ j[i] = c
      BY <1>6, <3>1
    <3>3. PICK k \in DOMAIN j : /\ j[k] = c /\ y.changed[c] = s.cursor + k
                                /\ \A m \in DOMAIN j : j[m] = c => m <= k
      BY <1>4, <3>2
    <3>4. i <= k
      BY <3>2, <3>3
    <3>5. k <= Len(a)
      <4>1. k > Len(a) => k - Len(a) \in DOMAIN b /\ b[k - Len(a)] = c
        BY <1>6, <3>3
      <4> QED BY <1>6, <2>2, <3>3, <4>1
    <3>6. k \in DOMAIN a /\ a[k] = c
      BY <1>6, <3>3, <3>5
    <3>7. k = i
      BY <1>6, <3>1, <3>4, <3>6
    <3>8. x.changed[c] = u.changed[c]
      BY <1>3, <2>2
    <3> QED BY <3>1, <3>3, <3>7, <3>8
  <2>3. CASE (\A i \in DOMAIN b : b[i] # c) /\ (\A i \in DOMAIN a : a[i] # c)
    <3>1. x.changed[c] = u.changed[c] /\ u.changed[c] = s.changed[c]
      BY <1>2, <1>3, <2>3
    <3>2. ASSUME NEW i \in DOMAIN j PROVE j[i] # c
      <4>1. CASE i > Len(a)
        BY <1>6, <2>3, <4>1
      <4>2. CASE ~ (i > Len(a))
        BY <1>6, <2>3, <4>2
      <4> QED BY <4>1, <4>2
    <3>3. y.changed[c] = s.changed[c]
      BY <1>4, <3>2
    <3> QED BY <3>1, <3>3
  <2> QED BY <2>1, <2>2, <2>3
<1>8. x.changed \in [Components -> Nat] /\ y.changed \in [Components -> Nat]
  BY <1>3, <1>4 DEF WorldStates
<1>9. x.changed = y.changed
  BY <1>7, <1>8
<1> QED BY <1>9 DEF x, y, u, j
-----------------------------------------------------------------------------
(* Parts that change.                                                      *)

(* From a to b part r grows by d; the others stay.                         *)
PartGrows(V, a, b, lo, hi, r, d) ==
    /\ r \in lo..(hi - 1)
    /\ \A q \in lo..(hi - 1) : a[q] \in Seq(V) /\ b[q] \in Seq(V)
    /\ \A q \in lo..(hi - 1) : q # r => b[q] = a[q]
    /\ Len(b[r]) = Len(a[r]) + d

(* Then the whole grows as much.                                           *)
LEMMA ConcatenationGrows ==
    ASSUME NEW lo \in Int, NEW hi \in Int, lo <= hi, NEW V, NEW a, NEW b,
           NEW r, NEW d \in Int, PartGrows(V, a, b, lo, hi, r, d)
    PROVE  Len(Concatenation(b, lo, hi)) = Len(Concatenation(a, lo, hi)) + d
<1>1. /\ r \in lo..(hi - 1)
      /\ \A q \in lo..(hi - 1) : a[q] \in Seq(V) /\ b[q] \in Seq(V)
      /\ \A q \in lo..(hi - 1) : q # r => b[q] = a[q]
      /\ Len(b[r]) = Len(a[r]) + d
  BY DEF PartGrows
<1> DEFINE A == Concatenations(a, lo, hi)
           B == Concatenations(b, lo, hi)
           S == {k \in lo..hi : Len(B[k]) = Len(A[k]) + (IF k > r THEN d ELSE 0)}
<1>2. /\ A \in [lo..hi -> Seq(V)] /\ Chained(A, a, lo, hi)
      /\ Concatenation(a, lo, hi) = A[hi]
  BY <1>1, ConcatenationsAre
<1>3. /\ B \in [lo..hi -> Seq(V)] /\ Chained(B, b, lo, hi)
      /\ Concatenation(b, lo, hi) = B[hi]
  BY <1>1, ConcatenationsAre
<1> HIDE DEF A, B
<1>4. lo \in S
  BY <1>1, <1>2, <1>3 DEF Chained
<1>5. \A k \in lo..(hi - 1) : k \in S => k + 1 \in S
  <2> SUFFICES ASSUME NEW k \in lo..(hi - 1), k \in S PROVE k + 1 \in S
    OBVIOUS
  <2>1. k + 1 \in (lo + 1)..hi /\ (k + 1) - 1 = k /\ k \in lo..hi /\ k + 1 \in lo..hi
    OBVIOUS
  <2>2. A[k + 1] = A[k] \o a[k] /\ B[k + 1] = B[k] \o b[k]
    BY <1>2, <1>3, <2>1 DEF Chained
  <2>3. A[k] \in Seq(V) /\ B[k] \in Seq(V) /\ a[k] \in Seq(V) /\ b[k] \in Seq(V)
    BY <1>1, <1>2, <1>3, <2>1
  <2>4. /\ Len(A[k + 1]) = Len(A[k]) + Len(a[k]) /\ Len(B[k + 1]) = Len(B[k]) + Len(b[k])
        /\ Len(A[k]) \in Nat /\ Len(B[k]) \in Nat /\ Len(a[k]) \in Nat /\ Len(b[k]) \in Nat
    BY <2>2, <2>3
  <2>5. Len(B[k]) = Len(A[k]) + (IF k > r THEN d ELSE 0)
    OBVIOUS
  <2>6. Len(b[k]) = Len(a[k]) + (IF k = r THEN d ELSE 0)
    BY <1>1, <2>3, <2>4
  <2> DEFINE more == IF k > r THEN d ELSE 0
             own == IF k = r THEN d ELSE 0
  <2>7. more \in Int /\ own \in Int
    OBVIOUS
  <2>8. (IF k + 1 > r THEN d ELSE 0) = more + own
    BY <1>1
  <2>9. Len(B[k]) = Len(A[k]) + more /\ Len(b[k]) = Len(a[k]) + own
    BY <2>5, <2>6
  <2> HIDE DEF more, own
  <2>10. Len(B[k + 1]) = Len(A[k + 1]) + (more + own)
    <3> DEFINE x == Len(A[k])
               y == Len(a[k])
    <3>1. x \in Int /\ y \in Int
      BY <2>4
    <3>2. Len(A[k + 1]) = x + y /\ Len(B[k + 1]) = (x + more) + (y + own)
      BY <2>4, <2>9, Zenon
    <3> HIDE DEF x, y
    <3>3. (x + more) + (y + own) = (x + y) + (more + own)
      BY <2>7, <3>1
    <3> QED BY <3>2, <3>3, Zenon
  <2>11. Len(B[k + 1]) = Len(A[k + 1]) + (IF k + 1 > r THEN d ELSE 0)
    BY <2>8, <2>10, Zenon
  <2> QED BY <2>1, <2>11
<1>6. hi \in S
  <2> HIDE DEF S
  <2>1. lo..hi \subseteq S
    BY <1>4, <1>5, IntervalInduction
  <2> QED BY <2>1
<1> QED BY <1>1, <1>2, <1>3, <1>6

(* Equal parts make equal wholes.                                          *)
LEMMA ConcatenationsEqual ==
    ASSUME NEW lo \in Int, NEW hi \in Int, lo <= hi, NEW V, NEW a, NEW b,
           \A q \in lo..(hi - 1) : a[q] \in Seq(V) /\ b[q] = a[q]
    PROVE  Concatenation(b, lo, hi) = Concatenation(a, lo, hi)
<1> DEFINE A == Concatenations(a, lo, hi)
           B == Concatenations(b, lo, hi)
           S == {k \in lo..hi : B[k] = A[k]}
<1>1. Chained(A, a, lo, hi) /\ Concatenation(a, lo, hi) = A[hi]
  BY ConcatenationsAre
<1>2. Chained(B, b, lo, hi) /\ Concatenation(b, lo, hi) = B[hi]
  <2>1. \A q \in lo..(hi - 1) : b[q] \in Seq(V)
    OBVIOUS
  <2> QED BY <2>1, ConcatenationsAre
<1> HIDE DEF A, B
<1>3. lo \in S
  BY <1>1, <1>2 DEF Chained
<1>4. \A k \in lo..(hi - 1) : k \in S => k + 1 \in S
  <2> SUFFICES ASSUME NEW k \in lo..(hi - 1), k \in S PROVE k + 1 \in S
    OBVIOUS
  <2>1. k + 1 \in (lo + 1)..hi /\ (k + 1) - 1 = k /\ k \in lo..hi /\ k + 1 \in lo..hi
    OBVIOUS
  <2>2. A[k + 1] = A[k] \o a[k] /\ B[k + 1] = B[k] \o b[k]
    BY <1>1, <1>2, <2>1 DEF Chained
  <2> QED BY <2>1, <2>2
<1>5. hi \in S
  <2> HIDE DEF S
  <2>1. lo..hi \subseteq S
    BY <1>3, <1>4, IntervalInduction
  <2> QED BY <2>1
<1> QED BY <1>1, <1>2, <1>5

(* Empty parts make an empty whole.                                        *)
LEMMA ConcatenationEmpty ==
    ASSUME NEW lo \in Int, NEW hi \in Int, lo <= hi, NEW a,
           \A q \in lo..(hi - 1) : a[q] = <<>>
    PROVE  Concatenation(a, lo, hi) = <<>>
<1> DEFINE A == Concatenations(a, lo, hi)
           S == {k \in lo..hi : A[k] = <<>>}
<1>1. Chained(A, a, lo, hi) /\ Concatenation(a, lo, hi) = A[hi]
  <2>1. \A q \in lo..(hi - 1) : a[q] \in Seq({})
    BY EmptySeq
  <2> QED BY <2>1, ConcatenationsAre
<1> HIDE DEF A
<1>2. lo \in S
  BY <1>1 DEF Chained
<1>3. \A k \in lo..(hi - 1) : k \in S => k + 1 \in S
  <2> SUFFICES ASSUME NEW k \in lo..(hi - 1), k \in S PROVE k + 1 \in S
    OBVIOUS
  <2>1. k + 1 \in (lo + 1)..hi /\ (k + 1) - 1 = k /\ k + 1 \in lo..hi
    OBVIOUS
  <2>2. A[k + 1] = A[k] \o a[k] /\ a[k] = <<>> /\ A[k] = <<>>
    BY <1>1, <2>1 DEF Chained
  <2> QED BY <2>1, <2>2
<1>4. hi \in S
  <2> HIDE DEF S
  <2>1. lo..hi \subseteq S
    BY <1>2, <1>3, IntervalInduction
  <2> QED BY <2>1
<1> QED BY <1>1, <1>4

(* The whole touches what its parts touch.                                 *)
LEMMA ConcatenationTouches ==
    ASSUME NEW lo \in Int, NEW hi \in Int, lo <= hi, NEW V, NEW a,
           \A q \in lo..(hi - 1) : a[q] \in Seq(V)
    PROVE  /\ Concatenation(a, lo, hi) \in Seq(V)
           /\ \A x : x \in Touched(Concatenation(a, lo, hi)) <=>
                        \E q \in lo..(hi - 1) : x \in Touched(a[q])
<1> DEFINE A == Concatenations(a, lo, hi)
           Good(k) == \A x : x \in Touched(A[k]) <=> \E q \in lo..(k - 1) : x \in Touched(a[q])
           S == {k \in lo..hi : Good(k)}
<1>1. /\ A \in [lo..hi -> Seq(V)] /\ Chained(A, a, lo, hi)
      /\ Concatenation(a, lo, hi) = A[hi]
  BY ConcatenationsAre
<1> HIDE DEF A
<1>2. lo \in S
  BY <1>1 DEF Chained, Touched
<1>3. \A k \in lo..(hi - 1) : k \in S => k + 1 \in S
  <2> SUFFICES ASSUME NEW k \in lo..(hi - 1), k \in S PROVE k + 1 \in S
    OBVIOUS
  <2>1. k + 1 \in (lo + 1)..hi /\ (k + 1) - 1 = k /\ k \in lo..hi /\ k + 1 \in lo..hi
    OBVIOUS
  <2>2. A[k + 1] = A[k] \o a[k]
    BY <1>1, <2>1 DEF Chained
  <2>3. A[k] \in Seq(V) /\ a[k] \in Seq(V)
    BY <1>1, <2>1
  <2>4. Touched(A[k + 1]) = Touched(A[k]) \union Touched(a[k])
    BY <2>2, <2>3, JoinTouches
  <2>5. \A q \in lo..((k + 1) - 1) : q \in lo..(k - 1) \/ q = k
    OBVIOUS
  <2>6. Good(k)
    OBVIOUS
  <2>7. k \in lo..((k + 1) - 1) /\ lo..(k - 1) \subseteq lo..((k + 1) - 1)
    OBVIOUS
  <2>8. Good(k + 1)
    BY <2>4, <2>5, <2>6, <2>7, Zenon
  <2> QED BY <2>1, <2>8
<1>4. hi \in S
  <2> HIDE DEF S
  <2>1. lo..hi \subseteq S
    BY <1>2, <1>3, IntervalInduction
  <2> QED BY <2>1
<1>5. hi \in lo..hi
  OBVIOUS
<1> QED BY <1>1, <1>4, <1>5
-----------------------------------------------------------------------------
(* What a system observes, and what it leaves.                             *)

(* The last change of a component that is replayed lies behind the cursor  *)
(* the replay starts at; the others stay.                                  *)
LEMMA ReplayedBounds ==
    ASSUME NEW p \in Plans, NEW s \in WorldStates(p), NEW j \in Seq(Components),
           NEW c \in Components
    PROVE  /\ c \notin Touched(j) => Replayed(s, j).changed[c] = s.changed[c]
           /\ c \in Touched(j) => /\ Replayed(s, j).changed[c] > s.cursor
                                  /\ Replayed(s, j).changed[c] <= s.cursor + Len(j)
<1> DEFINE t == Replayed(s, j)
<1>1. \/ /\ \A i \in DOMAIN j : j[i] # c
         /\ t.changed[c] = s.changed[c]
      \/ \E i \in DOMAIN j :
            /\ j[i] = c /\ t.changed[c] = s.cursor + i
            /\ \A m \in DOMAIN j : j[m] = c => m <= i
  BY ReplayedIs
<1> HIDE DEF t
<1>2. CASE \A i \in DOMAIN j : j[i] # c
  <2>1. c \notin Touched(j) /\ t.changed[c] = s.changed[c]
    BY <1>1, <1>2 DEF Touched
  <2> QED BY <2>1 DEF t
<1>3. CASE \E i \in DOMAIN j : j[i] = c
  <2>1. PICK i \in DOMAIN j : t.changed[c] = s.cursor + i
    BY <1>1, <1>3
  <2>2. i \in 1..Len(j) /\ Len(j) \in Nat /\ s.cursor \in Nat
    BY WorldIs
  <2>3. c \in Touched(j) /\ t.changed[c] > s.cursor /\ t.changed[c] <= s.cursor + Len(j)
    BY <1>3, <2>1, <2>2 DEF Touched
  <2> QED BY <2>3 DEF t
<1> QED BY <1>2, <1>3

(* Change filters see the same in both worlds.                             *)
SameFilters(p, s, t, r) ==
    \A c \in p.reads[r] :
        s.changed[c] > s.lastRun[r] <=> t.changed[c] > t.lastRun[r]

(* Equal payloads, filters and publications are observed as equal.         *)
LEMMA SameObservation ==
    ASSUME NEW p \in Plans, NEW s, NEW t, NEW r \in Ranks(p), NEW n,
           \A c \in p.reads[r] : s.value[c] = t.value[c],
           SameFilters(p, s, t, r), s.applied = t.applied
    PROVE  Observation(p, s, r, n) = Observation(p, t, r, n)
<1>1. [c \in p.reads[r] |-> s.value[c]] = [c \in p.reads[r] |-> t.value[c]]
  OBVIOUS
<1>2. {c \in p.reads[r] : s.changed[c] > s.lastRun[r]}
        = {c \in p.reads[r] : t.changed[c] > t.lastRun[r]}
  BY DEF SameFilters
<1> QED BY <1>1, <1>2, Zenon DEF Observation

(* Two worlds that no system can tell apart, and in which those of the     *)
(* first n ranks have observed the same.                                   *)
Agrees(p, s, t, n) ==
    /\ s.value = t.value
    /\ s.changed = t.changed
    /\ s.cursor = t.cursor
    /\ s.applied = t.applied
    /\ s.callbacks = t.callbacks
    /\ \A r \in 0..(n - 1) : s.seen[r] = t.seen[r]
    /\ \A r \in Ranks(p) : SameFilters(p, s, t, r)

(* A system that runs in two such worlds leaves two such worlds.           *)
LEMMA RanAgrees ==
    ASSUME NEW p \in Plans, NEW s \in WorldStates(p), NEW t \in WorldStates(p),
           NEW r \in Ranks(p), NEW n \in Nat, NEW j \in Seq(Components),
           Agrees(p, s, t, r), Settled(s, n), Settled(t, n)
    PROVE  Agrees(p, RanBody(p, s, r, n, j), RanBody(p, t, r, n, j), r + 1)
<1> DEFINE u == RanBody(p, s, r, n, j)
           v == RanBody(p, t, r, n, j)
<1>1. u \in WorldStates(p) /\ HasRun(u, p, s, r, n, j)
  BY RanBodyIs
<1>2. v \in WorldStates(p) /\ HasRun(v, p, t, r, n, j)
  BY RanBodyIs
<1> HIDE DEF u, v
<1>3. u.changed = v.changed
  <2>1. s.changed = t.changed /\ s.cursor = t.cursor
    BY DEF Agrees
  <2>2. Replayed(s, j).changed = Replayed(t, j).changed
    BY <2>1, ReplayedChanges
  <2> QED BY <1>1, <1>2, <2>2 DEF HasRun
<1>4. u.value = v.value
  <2>1. \A c \in Components : u.value[c] = v.value[c]
    BY <1>1, <1>2 DEF HasRun, Agrees
  <2>2. u.value \in [Components -> Stamps] /\ v.value \in [Components -> Stamps]
    BY <1>1, <1>2 DEF WorldStates
  <2> QED BY <2>1, <2>2
<1>5. u.cursor = v.cursor /\ u.applied = v.applied /\ u.callbacks = v.callbacks
  BY <1>1, <1>2 DEF HasRun, Agrees
<1>6. Observation(p, s, r, n) = Observation(p, t, r, n)
  <2>1. /\ \A c \in p.reads[r] : s.value[c] = t.value[c]
        /\ SameFilters(p, s, t, r) /\ s.applied = t.applied
    BY DEF Agrees
  <2> QED BY <2>1, SameObservation
<1>7. /\ u.seen = [s.seen EXCEPT ![r] = Observation(p, s, r, n)]
      /\ v.seen = [t.seen EXCEPT ![r] = Observation(p, t, r, n)]
      /\ u.lastRun = [s.lastRun EXCEPT ![r] = s.cursor]
      /\ v.lastRun = [t.lastRun EXCEPT ![r] = t.cursor]
  BY <1>1, <1>2 DEF HasRun
<1>8. /\ DOMAIN s.seen = Ranks(p) /\ DOMAIN t.seen = Ranks(p)
      /\ DOMAIN s.lastRun = Ranks(p) /\ DOMAIN t.lastRun = Ranks(p)
      /\ s.cursor \in Nat /\ s.cursor = t.cursor
  BY WorldIs DEF Agrees
<1>9. ASSUME NEW q \in 0..((r + 1) - 1) PROVE u.seen[q] = v.seen[q]
  <2>1. q \in Ranks(p) /\ (q # r => q \in 0..(r - 1)) /\ r \in Nat
    BY PlanIs DEF Ranks
  <2>2. CASE q = r
    BY <1>6, <1>7, <1>8, <2>2
  <2>3. CASE q # r
    <3>1. s.seen[q] = t.seen[q]
      BY <2>1, <2>3 DEF Agrees
    <3> QED BY <1>7, <1>8, <2>1, <2>3, <3>1
  <2> QED BY <2>2, <2>3
<1>10. ASSUME NEW q \in Ranks(p) PROVE SameFilters(p, u, v, q)
  <2> SUFFICES ASSUME NEW c \in p.reads[q]
               PROVE  u.changed[c] > u.lastRun[q] <=> v.changed[c] > v.lastRun[q]
    BY DEF SameFilters
  <2>1. CASE q = r
    BY <1>3, <1>7, <1>8, <2>1
  <2>2. CASE q # r
    <3>1. u.lastRun[q] = s.lastRun[q] /\ v.lastRun[q] = t.lastRun[q]
      BY <1>7, <1>8, <2>2
    <3>2. c \in Components
      BY PlanIs
    <3>3. CASE c \in Touched(j)
      <4>1. u.changed[c] > s.cursor
        <5>1. u.changed = Replayed(s, j).changed
          BY <1>1 DEF HasRun
        <5> QED BY <3>2, <3>3, <5>1, ReplayedBounds
      <4>2. s.lastRun[q] <= s.cursor /\ t.lastRun[q] <= s.cursor
        BY <1>8 DEF Settled
      <4>3. /\ s.lastRun[q] \in Nat /\ t.lastRun[q] \in Nat
            /\ u.changed[c] \in Nat
        BY <1>1, <3>2, WorldIs
      <4> QED BY <1>3, <1>8, <3>1, <4>1, <4>2, <4>3
    <3>4. CASE c \notin Touched(j)
      <4>1. u.changed[c] = s.changed[c]
        <5>1. u.changed = Replayed(s, j).changed
          BY <1>1 DEF HasRun
        <5> QED BY <3>2, <3>4, <5>1, ReplayedBounds
      <4>2. s.changed[c] > s.lastRun[q] <=> t.changed[c] > t.lastRun[q]
        BY DEF Agrees, SameFilters
      <4>3. s.changed = t.changed
        BY DEF Agrees
      <4> QED BY <1>3, <3>1, <4>1, <4>2, <4>3
    <3> QED BY <3>3, <3>4
  <2> QED BY <2>1, <2>2
<1> QED BY <1>3, <1>4, <1>5, <1>9, <1>10 DEF Agrees, u, v

(* So does a frontier.                                                     *)
LEMMA FrontierAgrees ==
    ASSUME NEW p \in Plans, NEW s \in WorldStates(p), NEW b \in SerialStates(p),
           NEW k \in Nat, NEW n, Agrees(p, s, b.state, n)
    PROVE  /\ CalledBack(Published(s, b.queue), k) \in WorldStates(p)
           /\ Agrees(p, CalledBack(Published(s, b.queue), k),
                     AfterFrontier(b, k).state, n)
<1> DEFINE q == b.queue
           u == Published(s, q)
           w == CalledBack(u, k)
           t == b.state
           v == AfterFrontier(b, k).state
<1>1. q \in Seq(Stamps)
  BY DEF SerialStates
<1>2. /\ v.value = t.value /\ v.changed = t.changed
      /\ v.cursor = t.cursor + Len(q) /\ v.applied = t.applied \o q
      /\ v.callbacks = Append(t.callbacks, k)
      /\ v.lastRun = t.lastRun /\ v.seen = t.seen
  BY AfterFrontierIs
<1> HIDE DEF q, t, v
<1>3. /\ u \in WorldStates(p)
      /\ u.value = s.value /\ u.changed = s.changed
      /\ u.cursor = s.cursor + Len(q) /\ u.applied = s.applied \o q
      /\ u.callbacks = s.callbacks
      /\ u.lastRun = s.lastRun /\ u.seen = s.seen
  BY <1>1, PublishedIs
<1> HIDE DEF u
<1>4. /\ w \in WorldStates(p)
      /\ w.value = u.value /\ w.changed = u.changed
      /\ w.cursor = u.cursor /\ w.applied = u.applied
      /\ w.callbacks = Append(u.callbacks, k)
      /\ w.lastRun = u.lastRun /\ w.seen = u.seen
  BY <1>3, CalledBackIs
<1> HIDE DEF w
<1>5. Agrees(p, s, t, n)
  BY DEF t
<1>6. /\ w.value = v.value /\ w.changed = v.changed /\ w.cursor = v.cursor
      /\ w.applied = v.applied /\ w.callbacks = v.callbacks
  BY <1>2, <1>3, <1>4, <1>5, ZenonT(30) DEF Agrees
<1>7. \A r \in 0..(n - 1) : w.seen[r] = v.seen[r]
  <2>1. \A r \in 0..(n - 1) : s.seen[r] = t.seen[r]
    BY <1>5 DEF Agrees
  <2> QED BY <1>2, <1>3, <1>4, <2>1
<1>8. ASSUME NEW r \in Ranks(p) PROVE SameFilters(p, w, v, r)
  <2>1. SameFilters(p, s, t, r)
    BY <1>5, Zenon DEF Agrees
  <2> QED BY <1>2, <1>3, <1>4, <2>1, Zenon DEF SameFilters
<1>9. Agrees(p, w, v, n)
  BY <1>6, <1>7, <1>8, Zenon DEF Agrees
<1> QED BY <1>4, <1>9 DEF w, u, q, v
-----------------------------------------------------------------------------
(* A cohort within the serial run.                                         *)

(* Members of one cohort: none writes what another accesses.               *)
MayOverlap(p, lo, hi) ==
    \A q, r \in lo..(hi - 1) :
        q # r => Written(p, q) \intersect (p.reads[r] \union Written(p, r)) = {}

Buffers(p, n) ==
    [r \in Ranks(p) |-> IF r \in p.deferred THEN <<<<n, r>>>> ELSE <<>>]

(* From b0 to b the events w have been recorded,                           *)
Positions(b0, b, w) ==
    /\ b.state.cursor = b0.state.cursor + Len(w)
    /\ b.state.changed = Replayed(b0.state, w).changed

(* ... by the systems lo..k-1,                                             *)
Writers(p, n, lo, k, w, b0, b) ==
    /\ \A c : c \in Touched(w) <=> \E r \in lo..(k - 1) : c \in Written(p, r)
    /\ \A c \in Components :
          c \notin Touched(w) => b.state.value[c] = b0.state.value[c]
    /\ \A r \in lo..(k - 1) : \A c \in Written(p, r) : b.state.value[c] = <<n, r>>

(* ... the buffers d have been appended,                                   *)
Pending(b0, b, d) ==
    /\ b.state.applied = b0.state.applied
    /\ b.state.callbacks = b0.state.callbacks
    /\ b.queue = b0.queue \o d

(* ... and these systems have seen what the serial run shows them.         *)
Sights(p, after, lo, k, b0, b) ==
    /\ \A r \in Ranks(p) : r \notin lo..(k - 1) =>
          /\ b.state.seen[r] = b0.state.seen[r]
          /\ b.state.lastRun[r] = b0.state.lastRun[r]
    /\ \A r \in lo..(k - 1) :
          /\ b.state.seen[r] = after[r + 1].state.seen[r]
          /\ \A c \in p.reads[r] :
                b.state.changed[c] > b.state.lastRun[r]
                    <=> b.state.changed[c] > b0.state.cursor

(* One more system leaves the cursor behind the events recorded so far.    *)
LEMMA PositionsStep ==
    ASSUME NEW p \in Plans, NEW b0 \in SerialStates(p), NEW b \in SerialStates(p),
           NEW k \in Ranks(p), NEW n \in Nat, NEW w \in Seq(Components),
           Positions(b0, b, w)
    PROVE  Positions(b0, AfterSystem(p, b, k, n), w \o p.writes[k])
<1> DEFINE s == b.state
           o == b0.state
           j == p.writes[k]
           x == AfterSystem(p, b, k, n).state
<1>1. s \in WorldStates(p) /\ o \in WorldStates(p) /\ j \in Seq(Components)
  BY PlanIs DEF SerialStates
<1>2. x = RanBody(p, s, k, n, j)
  BY AfterSystemIs
<1>3. s.cursor = o.cursor + Len(w) /\ s.changed = Replayed(o, w).changed
  BY DEF Positions
<1> HIDE DEF s, o, j, x
<1>4. HasRun(x, p, s, k, n, j)
  BY <1>1, <1>2, RanBodyIs
<1>5. x.changed = Replayed(o, w \o j).changed
  <2>1. Replayed(o, w) \in WorldStates(p) /\ Replayed(o, w).cursor = s.cursor
    BY <1>1, <1>3, ReplayedIs
  <2>2. Replayed(s, j).changed = Replayed(Replayed(o, w), j).changed
    BY <1>1, <1>3, <2>1, ReplayedChanges
  <2>3. Replayed(Replayed(o, w), j).changed = Replayed(o, w \o j).changed
    BY <1>1, ReplayedTwice
  <2> QED BY <1>4, <2>2, <2>3 DEF HasRun
<1>6. x.cursor = o.cursor + Len(w \o j)
  <2>1. x.cursor = (o.cursor + Len(w)) + Len(j)
    BY <1>3, <1>4 DEF HasRun
  <2>2. Len(w) \in Nat /\ Len(j) \in Nat /\ Len(w \o j) = Len(w) + Len(j)
    BY <1>1
  <2>3. o.cursor \in Nat
    BY <1>1, WorldIs
  <2> QED BY <2>1, <2>2, <2>3
<1> QED BY <1>5, <1>6 DEF Positions, x, o, j

(* One more system of a cohort leaves the payloads of the others alone.    *)
LEMMA WritersStep ==
    ASSUME NEW p \in Plans, NEW b0 \in SerialStates(p), NEW b \in SerialStates(p),
           NEW lo \in Nat, NEW hi \in Nat, NEW k \in lo..(hi - 1), k \in Ranks(p),
           NEW n \in Nat, NEW w \in Seq(Components),
           MayOverlap(p, lo, hi), Writers(p, n, lo, k, w, b0, b)
    PROVE  Writers(p, n, lo, k + 1, w \o p.writes[k], b0, AfterSystem(p, b, k, n))
<1> DEFINE s == b.state
           j == p.writes[k]
           x == AfterSystem(p, b, k, n).state
<1>1. s \in WorldStates(p) /\ j \in Seq(Components)
  BY PlanIs DEF SerialStates
<1>2. x = RanBody(p, s, k, n, j)
  BY AfterSystemIs, ZenonT(30)
<1>3. Touched(j) = Written(p, k)
  BY DEF Touched, Written
<1> HIDE DEF s, j, x
<1>4. \A c \in Components :
         x.value[c] = IF c \in Touched(j) THEN <<n, k>> ELSE s.value[c]
  <2>1. HasRun(x, p, s, k, n, j)
    BY <1>1, <1>2, RanBodyIs
  <2> QED BY <2>1 DEF HasRun
<1>5. Touched(w \o j) = Touched(w) \union Written(p, k)
  BY <1>1, <1>3, JoinTouches
<1>6. /\ \A r : r \in lo..((k + 1) - 1) <=> r \in lo..(k - 1) \/ r = k
      /\ \A r \in lo..(k - 1) : r \in lo..(hi - 1) /\ r # k
  OBVIOUS
<1>7. /\ \A c : c \in Touched(w) <=> \E r \in lo..(k - 1) : c \in Written(p, r)
      /\ \A c \in Components : c \notin Touched(w) => s.value[c] = b0.state.value[c]
      /\ \A r \in lo..(k - 1) : \A c \in Written(p, r) : s.value[c] = <<n, r>>
  BY DEF Writers, s
<1>8. \A c : c \in Touched(w \o j) <=>
                \E r \in lo..((k + 1) - 1) : c \in Written(p, r)
  BY <1>5, <1>6, <1>7, Zenon
<1>9. \A c \in Components :
         c \notin Touched(w \o j) => x.value[c] = b0.state.value[c]
  BY <1>3, <1>4, <1>5, <1>7
<1>10. ASSUME NEW r \in lo..((k + 1) - 1), NEW c \in Written(p, r)
       PROVE  x.value[c] = <<n, r>>
  <2>1. CASE r = k
    <3>1. c \in Components
      BY <2>1, PlanIs
    <3> QED BY <1>3, <1>4, <2>1, <3>1
  <2>2. CASE r # k
    <3>1. r \in lo..(k - 1) /\ r \in lo..(hi - 1)
      BY <1>6, <2>2
    <3>2. Written(p, r) \intersect Written(p, k) = {}
      BY <2>2, <3>1 DEF MayOverlap
    <3>3. c \in Touched(w) /\ s.value[c] = <<n, r>>
      BY <1>7, <3>1
    <3>4. c \in Components
      BY <3>3 DEF Touched
    <3> QED BY <1>3, <1>4, <3>2, <3>3, <3>4
  <2> QED BY <2>1, <2>2
<1>11. Writers(p, n, lo, k + 1, w \o j, b0, AfterSystem(p, b, k, n))
  BY <1>8, <1>9, <1>10 DEF Writers, x
<1> QED BY <1>11 DEF j

(* Appending to a joined sequence appends to its second part.              *)
LEMMA AppendedBehind ==
    ASSUME NEW S, NEW a \in Seq(S), NEW d \in Seq(S), NEW e \in S
    PROVE  Append(a \o d, e) = a \o (d \o <<e>>) /\ a \o d = a \o (d \o <<>>)
BY SMTT(30)

(* One more system appends its own buffer and nothing else.                *)
LEMMA PendingStep ==
    ASSUME NEW p \in Plans, NEW b0 \in SerialStates(p), NEW b \in SerialStates(p),
           NEW k \in Ranks(p), NEW n \in Nat, NEW d \in Seq(Stamps),
           Pending(b0, b, d)
    PROVE  Pending(b0, AfterSystem(p, b, k, n), d \o Buffers(p, n)[k])
<1> DEFINE s == b.state
           u == AfterSystem(p, b, k, n)
           x == u.state
<1>1. s \in WorldStates(p) /\ b0.queue \in Seq(Stamps)
  BY DEF SerialStates
<1>2. /\ x = RanBody(p, s, k, n, p.writes[k])
      /\ u.queue = IF k \in p.deferred THEN Append(b.queue, <<n, k>>) ELSE b.queue
  BY AfterSystemIs
<1> HIDE DEF s, u
<1>3. x.applied = s.applied /\ x.callbacks = s.callbacks
  <2>1. HasRun(x, p, s, k, n, p.writes[k])
    BY <1>1, <1>2, RanBodyIs, PlanIs
  <2> QED BY <2>1 DEF HasRun
<1>4. <<n, k>> \in Stamps
  BY PlanIs DEF Stamps
<1>5. u.queue = b0.queue \o (d \o Buffers(p, n)[k])
  <2>1. Buffers(p, n)[k] = IF k \in p.deferred THEN <<<<n, k>>>> ELSE <<>>
    BY DEF Buffers
  <2>2. b.queue = b0.queue \o d
    BY DEF Pending
  <2>3. /\ Append(b0.queue \o d, <<n, k>>) = b0.queue \o (d \o <<<<n, k>>>>)
        /\ b0.queue \o d = b0.queue \o (d \o <<>>)
    BY <1>1, <1>4, AppendedBehind
  <2>4. CASE k \in p.deferred
    BY <1>2, <2>1, <2>2, <2>3, <2>4, Zenon
  <2>5. CASE k \notin p.deferred
    BY <1>2, <2>1, <2>2, <2>3, <2>5, Zenon
  <2> QED BY <2>4, <2>5
<1> QED BY <1>3, <1>5 DEF Pending, s, u

(* One more system sees what it would have seen at the start of its        *)
(* cohort.                                                                 *)
LEMMA SightsStep ==
    ASSUME NEW p \in Plans, NEW b0 \in SerialStates(p), NEW b \in SerialStates(p),
           NEW lo \in Nat, NEW hi \in Nat, NEW k \in lo..(hi - 1), k \in Ranks(p),
           NEW n \in Nat, NEW w \in Seq(Components), NEW after,
           MayOverlap(p, lo, hi), Settled(b0.state, n),
           after[k + 1] = SerialStep(p, b, k + 1, n),
           Positions(b0, b, w), Writers(p, n, lo, k, w, b0, b),
           Sights(p, after, lo, k, b0, b)
    PROVE  Sights(p, after, lo, k + 1, b0, AfterSystem(p, b, k, n))
<1> DEFINE s == b.state
           o == b0.state
           j == p.writes[k]
           u == AfterSystem(p, b, k, n)
           x == u.state
<1>1. s \in WorldStates(p) /\ o \in WorldStates(p) /\ j \in Seq(Components)
  BY PlanIs DEF SerialStates
<1>2. x = RanBody(p, s, k, n, j) /\ u \in SerialStates(p)
  BY AfterSystemIs, ZenonT(30)
<1>3. after[k + 1].state.seen = x.seen
  <2>1. (k + 1) - 1 = k /\ k + 1 \in Nat
    OBVIOUS
  <2>2. after[k + 1] = IF k + 1 \in p.cuts THEN AfterFrontier(u, k + 1) ELSE u
    BY <2>1 DEF SerialStep
  <2> HIDE DEF u
  <2>3. AfterFrontier(u, k + 1).state.seen = u.state.seen
    BY <1>2, <2>1, AfterFrontierIs
  <2> QED BY <2>2, <2>3
<1>4. Touched(j) = Written(p, k)
  BY DEF Touched, Written
<1>5. /\ s.cursor = o.cursor + Len(w)
      /\ s.changed = Replayed(o, w).changed
  BY DEF Positions
<1> HIDE DEF s, o, j, u
<1>6. HasRun(x, p, s, k, n, j) /\ x \in WorldStates(p)
  BY <1>1, <1>2, RanBodyIs
<1> HIDE DEF x
<1>7. /\ x.lastRun = [s.lastRun EXCEPT ![k] = s.cursor]
      /\ x.seen = [s.seen EXCEPT ![k] = Observation(p, s, k, n)]
      /\ x.changed = Replayed(s, j).changed
  BY <1>6 DEF HasRun
<1>8. /\ DOMAIN s.seen = Ranks(p) /\ DOMAIN s.lastRun = Ranks(p)
      /\ s.cursor \in Nat /\ o.cursor \in Nat /\ Len(w) \in Nat
  BY <1>1, WorldIs
<1>9. /\ \A r : r \in lo..((k + 1) - 1) <=> r \in lo..(k - 1) \/ r = k
      /\ \A r \in lo..(k - 1) : r \in lo..(hi - 1) /\ r # k /\ r \in Ranks(p)
  BY PlanIs DEF Ranks
<1>10. /\ \A r \in Ranks(p) : r \notin lo..(k - 1) =>
             s.seen[r] = o.seen[r] /\ s.lastRun[r] = o.lastRun[r]
       /\ \A r \in lo..(k - 1) :
             /\ s.seen[r] = after[r + 1].state.seen[r]
             /\ \A c \in p.reads[r] :
                   s.changed[c] > s.lastRun[r] <=> s.changed[c] > o.cursor
  BY DEF Sights, s, o
<1>11. ASSUME NEW r \in Ranks(p), r \notin lo..((k + 1) - 1)
       PROVE  x.seen[r] = o.seen[r] /\ x.lastRun[r] = o.lastRun[r]
  BY <1>7, <1>8, <1>9, <1>10, <1>11
<1>12. ASSUME NEW r \in lo..((k + 1) - 1)
       PROVE  x.seen[r] = after[r + 1].state.seen[r]
  <2>1. CASE r = k
    BY <1>3, <2>1
  <2>2. CASE r # k
    BY <1>7, <1>8, <1>9, <1>10, <2>2
  <2> QED BY <2>1, <2>2
<1>13. ASSUME NEW r \in lo..((k + 1) - 1), NEW c \in p.reads[r]
       PROVE  x.changed[c] > x.lastRun[r] <=> x.changed[c] > o.cursor
  <2>1. r \in Ranks(p) /\ c \in Components
    <3>1. r \in Ranks(p)
      BY <1>9
    <3> QED BY <3>1, PlanIs
  <2>2. x.changed[c] \in Nat /\ s.changed[c] \in Nat /\ o.changed[c] \in Nat
    BY <1>1, <1>6, <2>1, WorldIs
  <2>3. /\ c \notin Touched(j) => x.changed[c] = s.changed[c]
        /\ c \in Touched(j) => x.changed[c] > s.cursor
    BY <1>1, <1>7, <2>1, ReplayedBounds
  <2>4. CASE r = k
    <3>1. x.lastRun[r] = s.cursor
      BY <1>7, <1>8, <2>1, <2>4
    <3>2. c \notin Touched(w)
      <4> SUFFICES ASSUME c \in Touched(w) PROVE FALSE
        OBVIOUS
      <4>1. PICK q \in lo..(k - 1) : c \in Written(p, q)
        BY DEF Writers
      <4>2. q \in lo..(hi - 1) /\ q # k
        BY <1>9
      <4>3. Written(p, q) \intersect p.reads[k] = {}
        BY <4>2 DEF MayOverlap
      <4> QED BY <2>4, <4>1, <4>3
    <3>3. s.changed[c] = o.changed[c]
      BY <1>1, <1>5, <2>1, <3>2, ReplayedBounds
    <3>4. o.changed[c] <= o.cursor
      BY <2>1 DEF Settled, o
    <3> QED BY <1>5, <1>8, <2>2, <2>3, <3>1, <3>3, <3>4, SMTT(30)
  <2>5. CASE r # k
    <3>1. r \in lo..(k - 1) /\ r \in lo..(hi - 1)
      BY <1>9, <2>5
    <3>2. Written(p, k) \intersect p.reads[r] = {}
      BY <2>5, <3>1 DEF MayOverlap
    <3>3. x.changed[c] = s.changed[c]
      BY <1>4, <2>3, <3>2
    <3>4. x.lastRun[r] = s.lastRun[r]
      BY <1>7, <1>8, <2>1, <2>5
    <3> QED BY <1>10, <3>1, <3>3, <3>4
  <2> QED BY <2>4, <2>5
<1> QED BY <1>11, <1>12, <1>13 DEF Sights, x, u, o
(* The serial run at member k of the cohort lo..hi-1, or behind its last   *)
(* system, before a frontier there.                                        *)
Behind(p, n, after, lo, k) ==
    IF k = lo THEN after[lo] ELSE AfterSystem(p, after[k - 1], k - 1, n)

Progress(p, n, after, lo, k, w, d, b) ==
    /\ Positions(after[lo], b, w)
    /\ Writers(p, n, lo, k, w, after[lo], b)
    /\ Pending(after[lo], b, d)
    /\ Sights(p, after, lo, k, after[lo], b)

(* Nothing has happened at the first member.                               *)
LEMMA ProgressStart ==
    ASSUME NEW p \in Plans, NEW n, NEW after, NEW lo \in Nat,
           after[lo] \in SerialStates(p)
    PROVE  Progress(p, n, after, lo, lo, <<>>, <<>>, after[lo])
<1> DEFINE b == after[lo]
           s == b.state
<1>1. s \in WorldStates(p) /\ b.queue \in Seq(Stamps)
  BY DEF SerialStates
<1>2. <<>> \in Seq(Components) /\ Len(<<>>) = 0 /\ Touched(<<>>) = {}
  BY DEF Touched
<1>3. \A r : r \notin lo..(lo - 1)
  OBVIOUS
<1>4. Positions(b, b, <<>>)
  <2> HIDE DEF s
  <2>1. s.cursor = s.cursor + Len(<<>>)
    BY <1>1, <1>2, WorldIs
  <2>2. \A c \in Components : Replayed(s, <<>>).changed[c] = s.changed[c]
    BY <1>1, <1>2, ReplayedBounds
  <2>3. /\ Replayed(s, <<>>).changed \in [Components -> Nat]
        /\ s.changed \in [Components -> Nat]
    <3>1. Replayed(s, <<>>) \in WorldStates(p)
      BY <1>1, <1>2, ReplayedIs
    <3> QED BY <1>1, <3>1 DEF WorldStates
  <2>4. s.changed = Replayed(s, <<>>).changed
    BY <2>2, <2>3
  <2> QED BY <2>1, <2>4 DEF Positions, s
<1>5. Writers(p, n, lo, lo, <<>>, b, b)
  BY <1>2, <1>3 DEF Writers
<1>6. b.queue = b.queue \o <<>>
  BY <1>1
<1> HIDE DEF b
<1>7. Pending(b, b, <<>>)
  BY <1>6 DEF Pending
<1>8. Sights(p, after, lo, lo, b, b)
  BY <1>3 DEF Sights
<1> QED BY <1>4, <1>5, <1>7, <1>8 DEF Progress, b

(* One more member of a cohort.                                            *)
LEMMA ProgressStep ==
    ASSUME NEW p \in Plans, NEW b \in SerialStates(p), NEW n \in Nat, NEW after,
           NEW lo \in Nat, NEW hi \in Nat, NEW k \in lo..(hi - 1), k \in Ranks(p),
           NEW w \in Seq(Components), NEW d \in Seq(Stamps),
           after[lo] \in SerialStates(p), MayOverlap(p, lo, hi),
           Settled(after[lo].state, n), after[k + 1] = SerialStep(p, b, k + 1, n),
           Progress(p, n, after, lo, k, w, d, b)
    PROVE  Progress(p, n, after, lo, k + 1, w \o p.writes[k],
                    d \o Buffers(p, n)[k], AfterSystem(p, b, k, n))
<1> DEFINE b0 == after[lo]
           u == AfterSystem(p, b, k, n)
<1>1. b0 \in SerialStates(p) /\ Settled(b0.state, n)
  OBVIOUS
<1>2. /\ Positions(b0, b, w) /\ Writers(p, n, lo, k, w, b0, b)
      /\ Pending(b0, b, d) /\ Sights(p, after, lo, k, b0, b)
  BY DEF Progress
<1> HIDE DEF b0
<1>3. Positions(b0, AfterSystem(p, b, k, n), w \o p.writes[k])
  BY <1>1, <1>2, PositionsStep
<1>4. Writers(p, n, lo, k + 1, w \o p.writes[k], b0, AfterSystem(p, b, k, n))
  BY <1>1, <1>2, WritersStep
<1>5. Pending(b0, AfterSystem(p, b, k, n), d \o Buffers(p, n)[k])
  BY <1>1, <1>2, PendingStep
<1>6. Sights(p, after, lo, k + 1, b0, AfterSystem(p, b, k, n))
  BY <1>1, <1>2, SightsStep
<1> QED BY <1>3, <1>4, <1>5, <1>6 DEF Progress, b0

(* All along a cohort that no frontier divides.                            *)
LEMMA CohortProgress ==
    ASSUME NEW p \in Plans, NEW start \in WorldStates(p), NEW n \in Nat,
           NEW lo \in Nat, NEW hi \in Nat, lo < hi, hi <= p.size,
           MayOverlap(p, lo, hi), \A k \in p.cuts : ~ (lo < k /\ k < hi),
           Settled(SerialRun(p, start, n)[lo].state, n)
    PROVE  \A k \in lo..hi :
              /\ Behind(p, n, SerialRun(p, start, n), lo, k) \in SerialStates(p)
              /\ Concatenations(p.writes, lo, hi)[k] \in Seq(Components)
              /\ Concatenations(Buffers(p, n), lo, hi)[k] \in Seq(Stamps)
              /\ Progress(p, n, SerialRun(p, start, n), lo, k,
                          Concatenations(p.writes, lo, hi)[k],
                          Concatenations(Buffers(p, n), lo, hi)[k],
                          Behind(p, n, SerialRun(p, start, n), lo, k))
<1> DEFINE after == SerialRun(p, start, n)
           W == Concatenations(p.writes, lo, hi)
           D == Concatenations(Buffers(p, n), lo, hi)
           B(k) == Behind(p, n, after, lo, k)
           S == {k \in lo..hi : /\ B(k) \in SerialStates(p)
                                /\ Progress(p, n, after, lo, k, W[k], D[k], B(k))}
<1>1. /\ after \in [0..p.size -> SerialStates(p)]
      /\ \A k \in 1..p.size : after[k] = SerialStep(p, after[k - 1], k, n)
  BY SerialRunIs
<1>2. /\ p.size \in Nat /\ lo \in Ranks(p) /\ lo \in 0..p.size
      /\ \A k \in lo..(hi - 1) : k \in Ranks(p)
  BY PlanIs DEF Ranks
<1>3. W \in [lo..hi -> Seq(Components)] /\ Chained(W, p.writes, lo, hi)
  <2>1. \A k \in lo..(hi - 1) : p.writes[k] \in Seq(Components)
    BY <1>2, PlanIs
  <2> DEFINE F == p.writes
  <2>2. \A k \in lo..(hi - 1) : F[k] \in Seq(Components)
    BY <2>1
  <2> HIDE DEF F
  <2>3. /\ Concatenations(F, lo, hi) \in [lo..hi -> Seq(Components)]
        /\ Chained(Concatenations(F, lo, hi), F, lo, hi)
    <3> HIDE DEF D, S, W
    <3> QED BY <2>2, ConcatenationsAre
  <2> QED BY <2>3 DEF F
<1>4. D \in [lo..hi -> Seq(Stamps)] /\ Chained(D, Buffers(p, n), lo, hi)
  <2>1. \A k \in lo..(hi - 1) : Buffers(p, n)[k] \in Seq(Stamps)
    <3> SUFFICES ASSUME NEW k \in lo..(hi - 1) PROVE Buffers(p, n)[k] \in Seq(Stamps)
      OBVIOUS
    <3>1. <<n, k>> \in Stamps /\ k \in Ranks(p)
      BY <1>2 DEF Stamps
    <3>2. <<<<n, k>>>> \in Seq(Stamps) /\ <<>> \in Seq(Stamps)
      BY <3>1
    <3> QED BY <3>1, <3>2 DEF Buffers
  <2> DEFINE F == Buffers(p, n)
  <2>2. \A k \in lo..(hi - 1) : F[k] \in Seq(Stamps)
    BY <2>1
  <2> HIDE DEF F
  <2>3. /\ Concatenations(F, lo, hi) \in [lo..hi -> Seq(Stamps)]
        /\ Chained(Concatenations(F, lo, hi), F, lo, hi)
    <3> HIDE DEF D, S, W
    <3> QED BY <2>2, ConcatenationsAre
  <2> QED BY <2>3 DEF F
<1>5. Settled(after[lo].state, n)
  OBVIOUS
<1> HIDE DEF after, W, D
<1>6. after[lo] \in SerialStates(p)
  BY <1>1, <1>2
<1>7. lo \in S
  <2>1. Progress(p, n, after, lo, lo, <<>>, <<>>, after[lo])
    BY <1>6, ProgressStart
  <2>2. W[lo] = <<>> /\ D[lo] = <<>> /\ B(lo) = after[lo] /\ lo \in lo..hi
    BY <1>3, <1>4 DEF Chained, Behind
  <2> QED BY <1>6, <2>1, <2>2
<1>8. \A k \in lo..(hi - 1) : k \in S => k + 1 \in S
  <2> SUFFICES ASSUME NEW k \in lo..(hi - 1), k \in S PROVE k + 1 \in S
    OBVIOUS
  <2>1. /\ k + 1 \in (lo + 1)..hi /\ (k + 1) - 1 = k /\ k \in lo..hi
        /\ k + 1 \in lo..hi /\ k + 1 # lo /\ k \in Ranks(p) /\ k + 1 \in 1..p.size
    BY <1>2 DEF Ranks
  <2>2. B(k) = after[k]
    <3>1. CASE k = lo
      BY <3>1 DEF Behind
    <3>2. CASE k # lo
      <4>1. k \notin p.cuts /\ k \in 1..p.size
        BY <1>2, <3>2
      <4>2. after[k] = SerialStep(p, after[k - 1], k, n)
        BY <1>1, <4>1
      <4> QED BY <3>2, <4>1, <4>2 DEF Behind, SerialStep
    <3> QED BY <3>1, <3>2
  <2>3. /\ after[k] \in SerialStates(p)
        /\ Progress(p, n, after, lo, k, W[k], D[k], after[k])
    BY <2>2
  <2>4. after[k + 1] = SerialStep(p, after[k], k + 1, n)
    BY <1>1, <2>1
  <2>5. W[k] \in Seq(Components) /\ D[k] \in Seq(Stamps)
    BY <1>3, <1>4, <2>1
  <2>6. Progress(p, n, after, lo, k + 1, W[k] \o p.writes[k],
                 D[k] \o Buffers(p, n)[k], AfterSystem(p, after[k], k, n))
    BY <1>5, <1>6, <2>1, <2>3, <2>4, <2>5, ProgressStep
  <2>7. W[k + 1] = W[k] \o p.writes[k] /\ D[k + 1] = D[k] \o Buffers(p, n)[k]
    BY <1>3, <1>4, <2>1 DEF Chained
  <2>8. B(k + 1) = AfterSystem(p, after[k], k, n)
    BY <2>1 DEF Behind
  <2>9. B(k + 1) \in SerialStates(p)
    <3>1. AfterSystem(p, after[k], k, n) \in SerialStates(p)
      BY <2>1, <2>3, AfterSystemIs
    <3> QED BY <2>8, <3>1, Zenon
  <2>10. Progress(p, n, after, lo, k + 1, W[k + 1], D[k + 1], B(k + 1))
    BY <2>6, <2>7, <2>8, Zenon
  <2> HIDE DEF B
  <2> QED BY <2>1, <2>9, <2>10
<1>9. lo..hi \subseteq S
  <2> HIDE DEF S
  <2> QED BY <1>7, <1>8, IntervalInduction
<1>10. \A k \in lo..hi :
          /\ B(k) \in SerialStates(p) /\ W[k] \in Seq(Components)
          /\ D[k] \in Seq(Stamps)
          /\ Progress(p, n, after, lo, k, W[k], D[k], B(k))
  BY <1>3, <1>4, <1>9
<1> QED BY <1>10 DEF after, W, D
-----------------------------------------------------------------------------
(* Prefixes.                                                               *)

(* A prefix in terms of its elements.                                      *)
LEMMA PrefixIs ==
    ASSUME NEW S, NEW a \in Seq(S), NEW b \in Seq(S)
    PROVE  IsPrefixOf(a, b) <=>
              Len(a) <= Len(b) /\ \A i \in 1..Len(a) : a[i] = b[i]
<1>1. Len(a) \in Nat /\ Len(b) \in Nat
  OBVIOUS
<1>2. ASSUME Len(a) <= Len(b)
      PROVE  SubSeq(b, 1, Len(a)) = a <=> \A i \in 1..Len(a) : a[i] = b[i]
  <2>1. /\ SubSeq(b, 1, Len(a)) \in Seq(S) /\ Len(SubSeq(b, 1, Len(a))) = Len(a)
        /\ \A i \in 1..Len(a) : SubSeq(b, 1, Len(a))[i] = b[i]
    BY <1>1, <1>2
  <2> QED BY <1>1, <2>1
<1> QED BY <1>2 DEF IsPrefixOf

(* A sequence is a prefix of what is joined to it.                         *)
LEMMA PrefixOfJoin ==
    ASSUME NEW S, NEW a \in Seq(S), NEW b \in Seq(S)
    PROVE  IsPrefixOf(a, a \o b) /\ IsPrefixOf(a, a)
<1>1. /\ a \o b \in Seq(S) /\ Len(a) <= Len(a \o b)
      /\ \A i \in 1..Len(a) : a[i] = (a \o b)[i]
  BY JoinIs
<1>2. IsPrefixOf(a, a \o b)
  BY <1>1, PrefixIs
<1>3. IsPrefixOf(a, a)
  BY PrefixIs
<1> QED BY <1>2, <1>3

(* A prefix of a prefix is a prefix.                                       *)
LEMMA PrefixTransitive ==
    ASSUME NEW S, NEW a \in Seq(S), NEW b \in Seq(S), NEW c \in Seq(S),
           IsPrefixOf(a, b), IsPrefixOf(b, c)
    PROVE  IsPrefixOf(a, c)
<1>1. Len(a) \in Nat /\ Len(b) \in Nat /\ Len(c) \in Nat
  OBVIOUS
<1>2. Len(a) <= Len(b) /\ \A i \in 1..Len(a) : a[i] = b[i]
  BY PrefixIs
<1>3. Len(b) <= Len(c) /\ \A i \in 1..Len(b) : b[i] = c[i]
  BY PrefixIs
<1>4. Len(a) <= Len(c) /\ \A i \in 1..Len(a) : a[i] = c[i]
  BY <1>1, <1>2, <1>3
<1> QED BY <1>4, PrefixIs

(* A sequence before the first m elements of another.                      *)
LEMMA PrefixOfPart ==
    ASSUME NEW S, NEW a \in Seq(S), NEW b \in Seq(S), NEW m \in 0..Len(b)
    PROVE  /\ SubSeq(b, 1, m) \in Seq(S) /\ Len(SubSeq(b, 1, m)) = m
           /\ IsPrefixOf(a \o SubSeq(b, 1, m), a \o b)
<1> DEFINE h == SubSeq(b, 1, m)
<1>1. /\ h \in Seq(S) /\ Len(h) = m /\ \A i \in 1..m : h[i] = b[i]
  OBVIOUS
<1> HIDE DEF h
<1>2. /\ a \o h \in Seq(S) /\ a \o b \in Seq(S)
      /\ Len(a \o h) = Len(a) + m /\ Len(a \o b) = Len(a) + Len(b)
      /\ Len(a) \in Nat /\ Len(b) \in Nat
  BY <1>1, JoinIs
<1>3. ASSUME NEW i \in 1..(Len(a) + m) PROVE (a \o h)[i] = (a \o b)[i]
  <2>1. CASE i <= Len(a)
    <3>1. i \in 1..Len(a)
      BY <1>2, <2>1
    <3> QED BY <1>1, <3>1, JoinIs
  <2>2. CASE i > Len(a)
    <3>1. /\ i - Len(a) \in 1..m /\ i \in 1..(Len(a) + Len(h))
          /\ i \in 1..(Len(a) + Len(b))
      BY <1>1, <1>2, <2>2
    <3>2. (a \o h)[i] = h[i - Len(a)] /\ (a \o b)[i] = b[i - Len(a)]
      BY <1>1, <2>2, <3>1, JoinIs
    <3> QED BY <1>1, <3>1, <3>2
  <2> QED BY <1>2, <2>1, <2>2
<1>4. IsPrefixOf(a \o h, a \o b)
  <2> DEFINE x == a \o h
             y == a \o b
  <2>1. /\ x \in Seq(S) /\ y \in Seq(S) /\ Len(x) <= Len(y)
        /\ \A i \in 1..Len(x) : x[i] = y[i]
    BY <1>2, <1>3
  <2> HIDE DEF x, y
  <2>2. IsPrefixOf(x, y)
    BY <2>1, PrefixIs
  <2> QED BY <2>2 DEF x, y
<1> QED BY <1>1, <1>4 DEF h

-----------------------------------------------------------------------------
(* What a serial run publishes.                                            *)

(* What has been published, and what is to be.                             *)
Recorded(b) == b.state.applied \o b.queue

(* What is recorded is a sequence of stamps.                               *)
LEMMA RecordedTyped ==
    ASSUME NEW p \in Plans, NEW b \in SerialStates(p)
    PROVE  /\ Recorded(b) \in Seq(Stamps)
           /\ b.state.applied \in Seq(Stamps) /\ b.queue \in Seq(Stamps)
           /\ b.state.callbacks \in Seq(Nat)
<1>1. b.state.applied \in Seq(Stamps) /\ b.queue \in Seq(Stamps)
      /\ b.state.callbacks \in Seq(Nat)
  BY DEF SerialStates, WorldStates
<1> QED BY <1>1 DEF Recorded

(* A frontier publishes what waits, and only calls back one more time.     *)
LEMMA FrontierPublishes ==
    ASSUME NEW p \in Plans, NEW b \in SerialStates(p), NEW k \in Nat
    PROVE  /\ Recorded(AfterFrontier(b, k)) = Recorded(b)
           /\ AfterFrontier(b, k).state.applied = Recorded(b)
           /\ IsPrefixOf(b.state.callbacks, AfterFrontier(b, k).state.callbacks)
<1> DEFINE u == AfterFrontier(b, k)
<1>1. /\ u.queue = <<>> /\ u.state.applied = b.state.applied \o b.queue
      /\ u.state.callbacks = Append(b.state.callbacks, k)
  BY AfterFrontierIs
<1>2. Recorded(b) \in Seq(Stamps) /\ b.state.callbacks \in Seq(Nat)
  BY RecordedTyped
<1> HIDE DEF u
<1>3. u.state.applied = Recorded(b)
  BY <1>1 DEF Recorded
<1>4. Recorded(u) = Recorded(b)
  <2>1. Recorded(b) \o <<>> = Recorded(b)
    BY <1>2
  <2> QED BY <1>1, <1>3, <2>1 DEF Recorded
<1>5. IsPrefixOf(b.state.callbacks, u.state.callbacks)
  <2>1. /\ b.state.callbacks \o <<k>> = Append(b.state.callbacks, k)
        /\ <<k>> \in Seq(Nat)
    BY <1>2
  <2> QED BY <1>1, <1>2, <2>1, PrefixOfJoin
<1> QED BY <1>3, <1>4, <1>5 DEF u

(* A system only adds its buffer to what is recorded.                      *)
LEMMA SystemRecords ==
    ASSUME NEW p \in Plans, NEW b \in SerialStates(p), NEW k \in Ranks(p),
           NEW n \in Nat
    PROVE  /\ Recorded(AfterSystem(p, b, k, n))
                = Recorded(b) \o Buffers(p, n)[k]
           /\ Buffers(p, n)[k] \in Seq(Stamps)
           /\ AfterSystem(p, b, k, n).queue = b.queue \o Buffers(p, n)[k]
           /\ AfterSystem(p, b, k, n).state.applied = b.state.applied
           /\ AfterSystem(p, b, k, n).state.callbacks = b.state.callbacks
<1>1. b.queue \in Seq(Stamps) /\ b.state.applied \in Seq(Stamps)
  BY RecordedTyped
<1>2. Buffers(p, n)[k] \in Seq(Stamps)
  <2>1. <<n, k>> \in Stamps
    BY PlanIs DEF Stamps
  <2>2. <<<<n, k>>>> \in Seq(Stamps) /\ <<>> \in Seq(Stamps)
    BY <2>1
  <2> QED BY <2>2 DEF Buffers
<1>3. Pending(b, b, <<>>)
  BY <1>1 DEF Pending
<1>4. Pending(b, AfterSystem(p, b, k, n), <<>> \o Buffers(p, n)[k])
  <2>1. <<>> \in Seq(Stamps)
    OBVIOUS
  <2> QED BY <1>3, <2>1, PendingStep
<1> DEFINE B == Buffers(p, n)[k]
           u == AfterSystem(p, b, k, n)
<1>5. /\ u.state.applied = b.state.applied /\ u.state.callbacks = b.state.callbacks
      /\ u.queue = b.queue \o (<<>> \o B)
  BY <1>4 DEF Pending
<1> HIDE DEF B, u
<1>6. B \in Seq(Stamps)
  BY <1>2 DEF B
<1>7. <<>> \o B = B
  BY <1>6
<1>8. (b.state.applied \o b.queue) \o B = b.state.applied \o (b.queue \o B)
  <2> DEFINE a == b.state.applied
             q == b.queue
  <2>1. a \in Seq(Stamps) /\ q \in Seq(Stamps)
    BY <1>1
  <2> HIDE DEF a, q
  <2>2. (a \o q) \o B = a \o (q \o B)
    BY <1>6, <2>1, ConcatAssociative
  <2> QED BY <2>2 DEF a, q
<1>9. Recorded(u) = Recorded(b) \o B
  BY <1>5, <1>7, <1>8 DEF Recorded
<1> QED BY <1>5, <1>6, <1>7, <1>9 DEF B, u

(* A step of the serial run only adds to what is recorded.                 *)
LEMMA SerialStepRecords ==
    ASSUME NEW p \in Plans, NEW b \in SerialStates(p), NEW k \in 1..p.size,
           NEW n \in Nat
    PROVE  /\ IsPrefixOf(Recorded(b), Recorded(SerialStep(p, b, k, n)))
           /\ IsPrefixOf(b.state.callbacks, SerialStep(p, b, k, n).state.callbacks)
<1> DEFINE u == AfterSystem(p, b, k - 1, n)
<1>1. k - 1 \in Ranks(p) /\ k \in Nat
  BY PlanIs DEF Ranks
<1>2. /\ Recorded(u) = Recorded(b) \o Buffers(p, n)[k - 1]
      /\ Buffers(p, n)[k - 1] \in Seq(Stamps)
      /\ u.state.callbacks = b.state.callbacks
      /\ u \in SerialStates(p)
  <2>1. u \in SerialStates(p)
    BY <1>1, AfterSystemIs
  <2> QED BY <1>1, <2>1, SystemRecords
<1>3. /\ Recorded(b) \in Seq(Stamps) /\ b.state.callbacks \in Seq(Nat)
  BY RecordedTyped
<1>4. /\ IsPrefixOf(Recorded(b), Recorded(u))
      /\ IsPrefixOf(b.state.callbacks, u.state.callbacks)
  BY <1>2, <1>3, PrefixOfJoin
<1>5. SerialStep(p, b, k, n) = IF k \in p.cuts THEN AfterFrontier(u, k) ELSE u
  BY DEF SerialStep
<1> HIDE DEF u
<1>6. /\ Recorded(AfterFrontier(u, k)) = Recorded(u)
      /\ IsPrefixOf(u.state.callbacks, AfterFrontier(u, k).state.callbacks)
  BY <1>1, <1>2, FrontierPublishes
<1> QED BY <1>2, <1>4, <1>5, <1>6

(* What the serial run has recorded is a prefix of what it records later.  *)
LEMMA SerialPrefix ==
    ASSUME NEW p \in Plans, NEW start \in WorldStates(p), NEW n \in Nat,
           NEW k \in 0..p.size
    PROVE  /\ IsPrefixOf(Recorded(SerialRun(p, start, n)[k]),
                         Recorded(SerialRun(p, start, n)[p.size]))
           /\ IsPrefixOf(SerialRun(p, start, n)[k].state.callbacks,
                         SerialRun(p, start, n)[p.size].state.callbacks)
<1> DEFINE after == SerialRun(p, start, n)
           S == {m \in k..p.size :
                    /\ IsPrefixOf(Recorded(after[k]), Recorded(after[m]))
                    /\ IsPrefixOf(after[k].state.callbacks, after[m].state.callbacks)}
<1>1. /\ after \in [0..p.size -> SerialStates(p)]
      /\ \A m \in 1..p.size : after[m] = SerialStep(p, after[m - 1], m, n)
  BY SerialRunIs
<1> HIDE DEF after
<1>2. p.size \in Nat
  BY PlanIs
<1>3. \A m \in 0..p.size : /\ Recorded(after[m]) \in Seq(Stamps)
                           /\ after[m].state.callbacks \in Seq(Nat)
  BY <1>1, RecordedTyped
<1>4. k \in S
  BY <1>2, <1>3, PrefixOfJoin
<1>5. \A m \in k..(p.size - 1) : m \in S => m + 1 \in S
  <2> SUFFICES ASSUME NEW m \in k..(p.size - 1), m \in S PROVE m + 1 \in S
    OBVIOUS
  <2>1. /\ m + 1 \in 1..p.size /\ (m + 1) - 1 = m /\ m \in 0..p.size
        /\ m + 1 \in 0..p.size /\ m + 1 \in k..p.size
    BY <1>2
  <2>2. after[m] \in SerialStates(p) /\ after[m + 1] = SerialStep(p, after[m], m + 1, n)
    BY <1>1, <2>1
  <2>3. /\ IsPrefixOf(Recorded(after[m]), Recorded(after[m + 1]))
        /\ IsPrefixOf(after[m].state.callbacks, after[m + 1].state.callbacks)
    BY <2>1, <2>2, SerialStepRecords
  <2>4. /\ IsPrefixOf(Recorded(after[k]), Recorded(after[m]))
        /\ IsPrefixOf(after[k].state.callbacks, after[m].state.callbacks)
    OBVIOUS
  <2>5. IsPrefixOf(Recorded(after[k]), Recorded(after[m + 1]))
    BY <1>3, <2>1, <2>3, <2>4, PrefixTransitive
  <2>6. IsPrefixOf(after[k].state.callbacks, after[m + 1].state.callbacks)
    BY <1>3, <2>1, <2>3, <2>4, PrefixTransitive
  <2> QED BY <2>1, <2>5, <2>6
<1>6. p.size \in S
  <2> HIDE DEF S
  <2> DEFINE hi == p.size
  <2>1. hi \in Int /\ \A m \in k..(hi - 1) : m \in S => m + 1 \in S
    BY <1>2, <1>5
  <2> HIDE DEF hi
  <2>2. k..hi \subseteq S
    BY <1>4, <2>1, IntervalInduction
  <2> QED BY <1>2, <2>2 DEF hi
<1> QED BY <1>6 DEF after
(* What is pending after k systems was recorded since the last frontier;   *)
(* all that was recorded is pending or published.                          *)
Queued(p, n, k, b) ==
    /\ \A x \in Touched(b.queue) :
          \E r \in p.deferred : x = <<n, r>> /\ r < k
                                /\ \A c \in p.cuts : ~ (r < c /\ c <= k)
    /\ \A r \in p.deferred : r < k => <<n, r>> \in Touched(Recorded(b))

(* A step of the serial run keeps the waiting buffers those of the systems *)
(* since the last frontier.                                                *)
LEMMA QueuedStep ==
    ASSUME NEW p \in Plans, NEW b \in SerialStates(p), NEW k \in Ranks(p),
           NEW n \in Nat, Queued(p, n, k, b)
    PROVE  Queued(p, n, k + 1, SerialStep(p, b, k + 1, n))
<1> DEFINE u == AfterSystem(p, b, k, n)
           B == Buffers(p, n)[k]
           v == AfterFrontier(u, k + 1)
<1>1. k \in Nat /\ k + 1 \in Nat /\ (k + 1) - 1 = k
  BY PlanIs
<1>2. u \in SerialStates(p)
  BY AfterSystemIs
<1>3. /\ Recorded(u) = Recorded(b) \o B /\ B \in Seq(Stamps)
      /\ u.queue = b.queue \o B
  BY SystemRecords
<1>4. Recorded(b) \in Seq(Stamps) /\ b.queue \in Seq(Stamps)
  BY RecordedTyped
<1>5. /\ k \in p.deferred => <<n, k>> \in Touched(B)
      /\ \A x \in Touched(B) : k \in p.deferred /\ x = <<n, k>>
  BY DEF Buffers, Touched
<1>6. SerialStep(p, b, k + 1, n) = IF k + 1 \in p.cuts THEN v ELSE u
  BY <1>1 DEF SerialStep
<1> HIDE DEF u, B
<1>7. /\ Recorded(v) = Recorded(u) /\ v.queue = <<>>
  BY <1>1, <1>2, FrontierPublishes, AfterFrontierIs
<1> HIDE DEF v
<1>8. /\ Touched(Recorded(u)) = Touched(Recorded(b)) \union Touched(B)
      /\ Touched(u.queue) = Touched(b.queue) \union Touched(B)
  BY <1>3, <1>4, JoinTouches
<1>9. \A r \in p.deferred : r \in Nat /\ (r < k + 1 => r < k \/ r = k)
  BY <1>1, PlanIs
<1>10. \A r \in p.deferred : r < k + 1 => <<n, r>> \in Touched(Recorded(u))
  BY <1>5, <1>8, <1>9 DEF Queued
<1>11. CASE k + 1 \in p.cuts
  <2>1. Touched(v.queue) = {}
    BY <1>7 DEF Touched
  <2> QED BY <1>6, <1>7, <1>10, <1>11, <2>1 DEF Queued
<1>12. CASE k + 1 \notin p.cuts
  <2>1. ASSUME NEW x \in Touched(u.queue)
        PROVE  \E r \in p.deferred : x = <<n, r>> /\ r < k + 1
                                     /\ \A c \in p.cuts : ~ (r < c /\ c <= k + 1)
    <3>1. \A c \in p.cuts : c \in Nat /\ c # k + 1
      BY <1>12, PlanIs
    <3>2. CASE x \in Touched(b.queue)
      <4>1. PICK r \in p.deferred : x = <<n, r>> /\ r < k
                                    /\ \A c \in p.cuts : ~ (r < c /\ c <= k)
        BY <3>2 DEF Queued
      <4>2. \A c \in p.cuts : ~ (r < c /\ c <= k + 1)
        BY <1>1, <3>1, <4>1
      <4>3. r < k + 1
        BY <1>1, <1>9, <4>1
      <4> QED BY <4>1, <4>2, <4>3
    <3>3. CASE x \in Touched(B)
      <4>1. \A c \in p.cuts : ~ (k < c /\ c <= k + 1)
        BY <1>1, <3>1
      <4> QED BY <1>1, <1>5, <3>3, <4>1
    <3> QED BY <1>8, <3>2, <3>3
  <2> QED BY <1>6, <1>10, <1>12, <2>1 DEF Queued
<1> QED BY <1>11, <1>12

(* So does the whole of it.                                                *)
LEMMA SerialQueued ==
    ASSUME NEW p \in Plans, NEW start \in WorldStates(p), NEW n \in Nat
    PROVE  \A k \in 0..p.size : Queued(p, n, k, SerialRun(p, start, n)[k])
<1> DEFINE after == SerialRun(p, start, n)
           S == {k \in 0..p.size : Queued(p, n, k, after[k])}
<1>1. /\ after \in [0..p.size -> SerialStates(p)]
      /\ after[0] = [state |-> start, queue |-> <<>>]
      /\ \A m \in 1..p.size : after[m] = SerialStep(p, after[m - 1], m, n)
  BY SerialRunIs
<1> HIDE DEF after
<1>2. p.size \in Nat /\ \A r \in p.deferred : r \in Nat
  BY PlanIs
<1>3. 0 \in S
  <2>1. Touched(after[0].queue) = {} /\ \A r \in p.deferred : ~ (r < 0)
    BY <1>1, <1>2 DEF Touched
  <2> QED BY <1>2, <2>1 DEF Queued
<1>4. \A k \in 0..(p.size - 1) : k \in S => k + 1 \in S
  <2> SUFFICES ASSUME NEW k \in 0..(p.size - 1), k \in S PROVE k + 1 \in S
    OBVIOUS
  <2>1. /\ k + 1 \in 1..p.size /\ (k + 1) - 1 = k /\ k \in 0..p.size
        /\ k + 1 \in 0..p.size /\ k \in Ranks(p)
    BY <1>2 DEF Ranks
  <2>2. after[k] \in SerialStates(p) /\ after[k + 1] = SerialStep(p, after[k], k + 1, n)
    BY <1>1, <2>1
  <2>3. Queued(p, n, k, after[k])
    OBVIOUS
  <2>4. Queued(p, n, k + 1, after[k + 1])
    BY <2>1, <2>2, <2>3, QueuedStep
  <2> QED BY <2>1, <2>4
<1>5. \A k \in 0..p.size : k \in S
  <2> HIDE DEF S
  <2> QED BY <1>2, <1>3, <1>4, InductionFromZero
<1> QED BY <1>5 DEF after

(* At its end every buffer has been published.                             *)
LEMMA SerialEnd ==
    ASSUME NEW p \in Plans, NEW start \in WorldStates(p), NEW n \in Nat
    PROVE  /\ SerialRun(p, start, n)[p.size].queue = <<>>
           /\ \A r \in p.deferred :
                 <<n, r>> \in Touched(SerialRun(p, start, n)[p.size].state.applied)
<1> DEFINE b == SerialRun(p, start, n)[p.size]
<1>1. p.size \in 0..p.size /\ p.size \in Nat
  BY PlanIs
<1>2. b \in SerialStates(p) /\ Queued(p, n, p.size, b)
  <2>1. SerialRun(p, start, n) \in [0..p.size -> SerialStates(p)]
    BY SerialRunIs
  <2> QED BY <1>1, <2>1, SerialQueued
<1> HIDE DEF b
<1>3. b.queue \in Seq(Stamps) /\ b.state.applied \in Seq(Stamps)
  BY <1>2, RecordedTyped
<1>4. Touched(b.queue) = {}
  <2> SUFFICES ASSUME NEW x \in Touched(b.queue) PROVE FALSE
    OBVIOUS
  <2>1. PICK r \in p.deferred : \A c \in p.cuts : ~ (r < c /\ c <= p.size)
    BY <1>2 DEF Queued
  <2>2. PICK c \in p.cuts : r < c
    BY PlanIs
  <2>3. c <= p.size
    BY <1>1, PlanIs
  <2> QED BY <2>1, <2>2, <2>3
<1>5. b.queue = <<>>
  <2>1. Len(b.queue) = 0
    <3>1. Len(b.queue) \in Nat /\ (Len(b.queue) > 0 => 1 \in DOMAIN b.queue)
      BY <1>3
    <3>2. Len(b.queue) > 0 => b.queue[1] \in Touched(b.queue)
      BY <3>1 DEF Touched
    <3> QED BY <1>4, <3>1, <3>2
  <2> QED BY <1>3, <2>1
<1>6. Recorded(b) = b.state.applied
  BY <1>3, <1>5 DEF Recorded
<1>7. \A r \in p.deferred : r < p.size
  BY <1>1, PlanIs DEF Ranks
<1>8. \A r \in p.deferred : <<n, r>> \in Touched(b.state.applied)
  BY <1>2, <1>6, <1>7 DEF Queued
<1> QED BY <1>5, <1>8 DEF b

(* What is recorded on the way is a prefix of what the serial run has      *)
(* published at its end.                                                   *)
LEMMA SerialPublishesPrefix ==
    ASSUME NEW p \in Plans, NEW start \in WorldStates(p), NEW n \in Nat,
           NEW k \in 0..p.size
    PROVE  /\ IsPrefixOf(Recorded(SerialRun(p, start, n)[k]),
                         SerialRun(p, start, n)[p.size].state.applied)
           /\ IsPrefixOf(SerialRun(p, start, n)[k].state.callbacks,
                         SerialRun(p, start, n)[p.size].state.callbacks)
<1> DEFINE after == SerialRun(p, start, n)
           b == after[p.size]
<1>1. /\ IsPrefixOf(Recorded(after[k]), Recorded(b))
      /\ IsPrefixOf(after[k].state.callbacks, b.state.callbacks)
  BY SerialPrefix
<1>2. b \in SerialStates(p) /\ b.queue = <<>>
  <2>1. p.size \in 0..p.size
    BY PlanIs
  <2> QED BY <2>1, SerialRunIs, SerialEnd, ZenonT(30)
<1> HIDE DEF b
<1>3. Recorded(b) = b.state.applied
  <2>1. b.state.applied \in Seq(Stamps)
    BY <1>2, RecordedTyped
  <2>2. b.state.applied \o <<>> = b.state.applied
    BY <2>1
  <2> QED BY <1>2, <2>2 DEF Recorded
<1> QED BY <1>1, <1>3 DEF b

-----------------------------------------------------------------------------
(* First and last of a set of numbers.                                     *)

(* A nonempty set of numbers bounded below has a least one.                *)
LEMMA LeastExists ==
    ASSUME NEW S \in SUBSET Int, NEW lo \in Int, \A x \in S : lo <= x, S # {}
    PROVE  \E x \in S : \A y \in S : x <= y
<1> SUFFICES ASSUME \A x \in S : \E y \in S : ~ (x <= y) PROVE FALSE
  OBVIOUS
<1>1. PICK z \in S : TRUE
  OBVIOUS
<1> DEFINE Above == {i \in Int : \A x \in S : i <= x}
           hi == z + 1
<1>2. lo \in Above /\ hi \in Int /\ lo \in Int /\ lo <= z /\ z \in Int
  BY <1>1
<1>3. \A i \in lo..(hi - 1) : i \in Above => i + 1 \in Above
  <2> SUFFICES ASSUME NEW i \in lo..(hi - 1), i \in Above PROVE i + 1 \in Above
    OBVIOUS
  <2>1. i \in Int /\ \A x \in S : i <= x
    BY <1>2
  <2>2. i \notin S
    BY <2>1
  <2> QED BY <2>1, <2>2
<1>4. lo..hi \subseteq Above
  <2> HIDE DEF Above, hi
  <2> QED BY <1>2, <1>3, IntervalInduction
<1>5. z + 1 \in Above
  BY <1>2, <1>4
<1> QED BY <1>1, <1>2, <1>5

(* A nonempty set of numbers bounded above has a greatest one.             *)
LEMMA GreatestExists ==
    ASSUME NEW S \in SUBSET Int, NEW hi \in Int, \A x \in S : x <= hi, S # {}
    PROVE  \E x \in S : \A y \in S : y <= x
<1> DEFINE T == {0 - x : x \in S}
<1>1. T \in SUBSET Int /\ T # {}
  <2>1. PICK x \in S : TRUE
    OBVIOUS
  <2>2. 0 - x \in T
    BY <2>1
  <2> QED BY <2>2
<1>2. 0 - hi \in Int /\ \A y \in T : 0 - hi <= y
  OBVIOUS
<1>3. \A x \in S : 0 - x \in T
  OBVIOUS
<1>4. \A y \in T : 0 - y \in S /\ y \in Int
  OBVIOUS
<1> DEFINE l == 0 - hi
<1> HIDE DEF T, l
<1>5. PICK t \in T : \A y \in T : t <= y
  <2>1. l \in Int /\ \A y \in T : l <= y
    BY <1>2 DEF l
  <2> QED BY <1>1, <2>1, LeastExists
<1>6. \A y \in S : y <= 0 - t
  BY <1>3, <1>4, <1>5
<1> QED BY <1>4, <1>5, <1>6

(* First chooses the least.                                                *)
LEMMA FirstIs ==
    ASSUME NEW S \in SUBSET Nat, S # {}
    PROVE  First(S) \in S /\ \A y \in S : First(S) <= y
<1> DEFINE lo == 0
<1>1. S \in SUBSET Int /\ lo \in Int /\ \A x \in S : lo <= x
  OBVIOUS
<1> HIDE DEF lo
<1>2. \E x \in S : \A y \in S : x <= y
  BY <1>1, LeastExists
<1> QED BY <1>2 DEF First
-----------------------------------------------------------------------------
(* The inductive invariant.                                                *)

Phases == {"idle", "boundary", "step", "working"}
Conditions == {"idle"} \union Active \union Over

Types ==
    /\ plan \in Plans
    /\ phase \in Phases
    /\ run \in Nat
    /\ fault.system \in [Systems -> Fates]
    /\ next \in 0..plan.size
    /\ upTo \in 0..plan.size
    /\ passed \subseteq plan.cuts
    /\ state \in WorldStates(plan)
    /\ queue \in Seq(Stamps)
    /\ worker \in [Systems -> Conditions]
    /\ journal \in [Systems -> Seq(Components)]
    /\ admitted \in Nat
    /\ serial \in [0..plan.size -> WorldStates(plan)]

(* The serial run from the same start, of which "serial" keeps the worlds. *)
Serial == SerialRun(plan, serial[0], run)

Linked ==
    /\ run = 0 => /\ phase = "idle"
                  /\ verdict.kind = "ok"
                  /\ state = serial[plan.size]
    /\ run > 0 => /\ \A k \in 0..plan.size : serial[k] = Serial[k].state
                  /\ Settled(serial[0], run - 1)

(* Where the serial run is when the invoking thread is between cohorts:    *)
(* behind system next - 1, and behind the frontier there once it is past.  *)
Here ==
    IF next \in PendingCuts
    THEN AfterSystem(plan, Serial[next - 1], next - 1, run)
    ELSE Serial[next]

Between ==
    phase \in {"boundary", "step"} =>
        /\ Agrees(plan, state, Here.state, next)
        /\ queue = Here.queue

Frontiers ==
    /\ phase # "idle" => /\ \A c \in plan.cuts : c < next => c \in passed
                         /\ \A c \in passed : c <= next
    /\ phase \in {"step", "working"} /\ next \in plan.cuts => next \in passed
    /\ phase = "step" => next < plan.size
    /\ phase = "working" =>
         next < upTo /\ \A c \in plan.cuts : c > next => upTo <= c

(* Those before the cohort have succeeded, those behind it have not begun, *)
(* and its members may overlap.                                            *)
Crew ==
    /\ phase # "working" => \A r \in Systems : worker[r] \notin Active
    /\ phase # "idle" =>
         /\ plan.capacity > 0
         /\ \A r \in Systems : r < next =>
               worker[r] \in {"idle", "success"} /\ fault.system[r] = "none"
         /\ \A r \in Systems : r >= (IF phase = "working" THEN upTo ELSE next) =>
               worker[r] = "idle" /\ journal[r] = <<>>
    /\ phase = "working" =>
         /\ \A r \in Cohort : /\ r \notin plan.invoker
                              /\ fault.system[r] # "unprepared"
                              /\ worker[r] \in Active \union Over
         /\ \A q, r \in Cohort : q < r => ~ Conflict(q, r) /\ <<q, r>> \notin plan.edges

(* What a member has recorded is how its mutations begin.                  *)
Journals ==
    phase = "working" =>
        \A r \in Cohort :
            /\ Len(journal[r]) <= Len(plan.writes[r])
            /\ \A i \in 1..Len(journal[r]) : journal[r][i] = plan.writes[r][i]
            /\ worker[r] = "launched" => journal[r] = <<>>
            /\ worker[r] = "success" => /\ Len(journal[r]) = Len(plan.writes[r])
                                        /\ fault.system[r] = "none"
            /\ worker[r] \in UserFailures \union {"violation"} =>
                  worker[r] = fault.system[r]

(* The world while a cohort runs is the one it started from, except for    *)
(* the payloads mutated; each member that has begun has seen what it sees  *)
(* in the serial run.                                                      *)
Payloads ==
    phase = "working" =>
        /\ \A c \in Components :
              (\A r \in Cohort : c \notin Touched(journal[r]))
                  => state.value[c] = Serial[next].state.value[c]
        /\ \A r \in Cohort : \A c \in Touched(journal[r]) :
              state.value[c] = <<run, r>>

Base ==
    phase = "working" =>
        /\ queue = Serial[next].queue
        /\ state.changed = Serial[next].state.changed
        /\ state.cursor = Serial[next].state.cursor
        /\ state.applied = Serial[next].state.applied
        /\ state.callbacks = Serial[next].state.callbacks

HasBegun(r) == r \in Cohort /\ worker[r] # "launched"

Sighted ==
    phase = "working" =>
        /\ \A r \in Systems : r < next => state.seen[r] = Serial[next].state.seen[r]
        /\ \A r \in Systems : HasBegun(r) =>
              /\ state.seen[r] = Serial[r + 1].state.seen[r]
              /\ state.lastRun[r] = state.cursor
        /\ \A r \in Systems : ~ HasBegun(r) =>
              SameFilters(plan, state, Serial[next].state, r)

(* The cursor has room for what has been admitted, and has moved by what   *)
(* was recorded and published.                                             *)
Taken == IF phase = "working" THEN admitted ELSE 0

Books ==
    /\ Settled(state, run)
    /\ state.cursor + Taken <= CursorMax
    /\ phase = "working" => admitted = Len(JoinedJournal)
    /\ phase # "idle" =>
          /\ state.cursor + Taken
               = serial[0].cursor + JournalTotal
                 + Len(state.applied) - Len(serial[0].applied)
          /\ state.cursor >= serial[0].cursor

(* A run that is over.                                                     *)
AtEnd ==
    phase = "idle" =>
        /\ queue = <<>>
        /\ verdict.kind # "unreached"
        /\ verdict.kind = "ok" /\ run > 0 =>
              next = plan.size /\ Agrees(plan, state, serial[plan.size], plan.size)
        /\ IsPrefixOf(state.applied, serial[plan.size].applied)
        /\ IsPrefixOf(state.callbacks, serial[plan.size].callbacks)

Truthful ==
    (phase = "idle" /\ run > 0 /\ \A r \in Systems : worker[r] # "violation") =>
        /\ \A c \in Components :
              state.value[c][1] = run => state.changed[c] > serial[0].cursor
        /\ state.cursor = serial[0].cursor + JournalTotal
                           + Len(state.applied) - Len(serial[0].applied)

Within == Payloads /\ Base /\ Sighted

IInv ==
    /\ Types /\ Linked /\ Between /\ Frontiers /\ Crew /\ Journals /\ Within
    /\ Books /\ AtEnd /\ Truthful /\ FailureSelection
-----------------------------------------------------------------------------
(* What the invariant says of the serial run.                              *)

(* The ranks of a plan are the numbers below its size.                     *)
LEMMA RanksAre ==
    ASSUME NEW p \in Plans, NEW r
    PROVE  r \in Ranks(p) <=> r \in Nat /\ r < p.size
BY PlanIs DEF Ranks

(* The serial run of the current run, and the worlds kept of it.           *)
LEMMA SerialIs ==
    ASSUME Types, Linked, run > 0
    PROVE  /\ Serial \in [0..plan.size -> SerialStates(plan)]
           /\ Serial[0].state = serial[0] /\ Serial[0].queue = <<>>
           /\ \A k \in 1..plan.size : Serial[k] = SerialStep(plan, Serial[k - 1], k, run)
           /\ \A k \in 0..plan.size : Kept(Serial[k], serial[0].cursor, run)
           /\ \A k \in 0..plan.size : Queued(plan, run, k, Serial[k])
           /\ serial[plan.size] = Serial[plan.size].state
           /\ Serial[plan.size].queue = <<>>
           /\ \A r \in plan.deferred : <<run, r>> \in Touched(serial[plan.size].applied)
           /\ \A k \in 0..plan.size :
                 /\ IsPrefixOf(Recorded(Serial[k]), serial[plan.size].applied)
                 /\ IsPrefixOf(Serial[k].state.callbacks, serial[plan.size].callbacks)
<1> DEFINE start == serial[0]
           after == SerialRun(plan, start, run)
<1>1. /\ plan \in Plans /\ run \in Nat /\ plan.size \in Nat
      /\ start \in WorldStates(plan)
  <2>1. plan \in Plans /\ run \in Nat /\ plan.size \in Nat
    BY PlanIs DEF Types
  <2>2. 0 \in 0..plan.size
    BY <2>1
  <2> QED BY <2>1, <2>2 DEF Types
<1>2. Serial = after
  BY DEF Serial
<1>3. Settled(start, run - 1)
  BY DEF Linked
<1>4. \A k \in 0..plan.size : serial[k] = after[k].state
  BY <1>2 DEF Linked
<1> HIDE DEF start, after
<1>5. /\ after \in [0..plan.size -> SerialStates(plan)]
      /\ after[0] = [state |-> start, queue |-> <<>>]
      /\ \A k \in 1..plan.size : after[k] = SerialStep(plan, after[k - 1], k, run)
  BY <1>1, SerialRunIs DEF after
<1>6. \A k \in 0..plan.size : Kept(after[k], start.cursor, run)
  <2>1. \A c \in Components : start.value[c][1] \in Nat /\ start.value[c][1] <= run - 1
    BY <1>1, <1>3, WorldIs DEF Settled
  <2>2. \A c \in Components : start.value[c][1] < run
    BY <1>1, <2>1
  <2>3. Settled(start, run)
    BY <1>1, <1>3, <2>1 DEF Settled
  <2> QED BY <1>1, <2>2, <2>3, SerialKeeps DEF after
<1>7. \A k \in 0..plan.size : Queued(plan, run, k, after[k])
  BY <1>1, SerialQueued DEF after
<1>8. /\ after[plan.size].queue = <<>>
      /\ \A r \in plan.deferred : <<run, r>> \in Touched(after[plan.size].state.applied)
  BY <1>1, SerialEnd DEF after
<1>9. serial[plan.size] = after[plan.size].state
  BY <1>1, <1>4
<1>10. ASSUME NEW k \in 0..plan.size
       PROVE  /\ IsPrefixOf(Recorded(after[k]), serial[plan.size].applied)
              /\ IsPrefixOf(after[k].state.callbacks, serial[plan.size].callbacks)
  <2>1. /\ IsPrefixOf(Recorded(after[k]), after[plan.size].state.applied)
        /\ IsPrefixOf(after[k].state.callbacks, after[plan.size].state.callbacks)
    BY <1>1, SerialPublishesPrefix DEF after
  <2> QED BY <1>9, <2>1
<1>11. after[0].state = start /\ after[0].queue = <<>>
  BY <1>5
<1>12. start = serial[0]
  BY DEF start
<1> QED BY <1>2, <1>5, <1>6, <1>7, <1>8, <1>9, <1>10, <1>11, <1>12

(* Where it is between cohorts.                                            *)
LEMMA HereIs ==
    ASSUME Types, Linked, Frontiers, run > 0, phase \in {"boundary", "step"}
    PROVE  /\ Here \in SerialStates(plan)
           /\ Kept(Here, serial[0].cursor, run)
           /\ IsPrefixOf(Recorded(Here), serial[plan.size].applied)
           /\ IsPrefixOf(Here.state.callbacks, serial[plan.size].callbacks)
           /\ phase = "step" => Here = Serial[next]
           /\ next \in PendingCuts => Serial[next] = AfterFrontier(Here, next)
<1>1. plan \in Plans /\ run \in Nat /\ plan.size \in Nat /\ next \in 0..plan.size
      /\ serial[0].cursor \in Nat
  BY PlanIs, WorldIs DEF Types
<1>2. CASE next \notin PendingCuts
  <2>1. Here = Serial[next]
    BY <1>2 DEF Here
  <2> QED BY <1>1, <1>2, <2>1, SerialIs
<1>3. CASE next \in PendingCuts
  <2> DEFINE b == Serial[next - 1]
             h == AfterSystem(plan, b, next - 1, run)
  <2>1. /\ next \in 1..plan.size /\ next - 1 \in 0..plan.size /\ next \in plan.cuts
        /\ next - 1 \in Ranks(plan)
    BY <1>1, <1>3, PlanIs DEF PendingCuts, Ranks
  <2>2. Here = h
    BY <1>3 DEF Here
  <2>3. Serial[next] = AfterFrontier(h, next)
    <3>1. Serial[next] = SerialStep(plan, Serial[next - 1], next, run)
      BY <2>1, SerialIs
    <3> QED BY <2>1, <3>1 DEF SerialStep
  <2>4. b \in SerialStates(plan) /\ Kept(b, serial[0].cursor, run)
    BY <2>1, SerialIs
  <2> HIDE DEF b
  <2>5. h \in SerialStates(plan) /\ Kept(h, serial[0].cursor, run)
    BY <1>1, <2>1, <2>4, AfterSystemIs, SystemKeeps
  <2> HIDE DEF h
  <2>6. /\ Recorded(AfterFrontier(h, next)) = Recorded(h)
        /\ IsPrefixOf(h.state.callbacks, AfterFrontier(h, next).state.callbacks)
    BY <1>1, <2>5, FrontierPublishes
  <2>7. /\ IsPrefixOf(Recorded(Serial[next]), serial[plan.size].applied)
        /\ IsPrefixOf(Serial[next].state.callbacks, serial[plan.size].callbacks)
        /\ Serial[next] \in SerialStates(plan)
    BY <1>1, SerialIs
  <2>8. IsPrefixOf(h.state.callbacks, serial[plan.size].callbacks)
    <3>1. /\ h.state.callbacks \in Seq(Nat) /\ Serial[next].state.callbacks \in Seq(Nat)
      BY <1>1, <2>5, <2>7, RecordedTyped
    <3>2. serial[plan.size].callbacks \in Seq(Nat)
      BY <1>1 DEF Types, WorldStates
    <3> QED BY <2>3, <2>6, <2>7, <3>1, <3>2, PrefixTransitive
  <2>9. phase # "step"
    BY <1>3, <2>1 DEF Frontiers, PendingCuts
  <2> QED BY <2>2, <2>3, <2>5, <2>6, <2>7, <2>8, <2>9
<1> QED BY <1>2, <1>3

(* A run is on whenever the invoking thread is not idle.                   *)
LEMMA RunIsOn ==
    ASSUME Types, Linked, phase # "idle"
    PROVE  run \in Nat /\ run > 0
BY DEF Types, Linked

(* Between cohorts the world has advanced as the serial one.               *)
LEMMA HasAdvanced ==
    ASSUME Types, Linked, Frontiers, Between, Books, phase \in {"boundary", "step"}
    PROVE  Advanced(state, serial[0].cursor, run)
<1>1. run > 0
  BY RunIsOn
<1>2. Advanced(Here.state, serial[0].cursor, run)
  BY <1>1, HereIs DEF Kept
<1>3. Agrees(plan, state, Here.state, next)
  BY DEF Between
<1>4. Settled(state, run)
  BY DEF Books
<1> QED BY <1>2, <1>3, <1>4 DEF Advanced, Agrees

-----------------------------------------------------------------------------
(* The invariant implies what the runs check.                              *)

(* A successful run agrees with the serial one.                            *)
LEMMA ImpliesSameAsSerial ==
    ASSUME IInv
    PROVE  SameAsSerial
<1>1. CASE phase = "step"
  <2>1. run > 0 /\ plan \in Plans /\ next \in 0..plan.size
    BY <1>1, RunIsOn DEF IInv, Types
  <2>2. Here = Serial[next]
    BY <1>1, <2>1, HereIs DEF IInv
  <2>3. serial[next] = Serial[next].state
    BY <2>1 DEF IInv, Linked
  <2>4. Agrees(plan, state, serial[next], next)
    BY <1>1, <2>2, <2>3 DEF IInv, Between
  <2> QED BY <1>1, <2>4 DEF SameAsSerial, Agrees
<1>2. CASE phase = "idle" /\ run > 0 /\ verdict.kind \in {"ok", "unreached"}
  <2>1. Agrees(plan, state, serial[next], next)
    BY <1>2 DEF IInv, AtEnd
  <2> QED BY <1>2, <2>1 DEF SameAsSerial, Agrees
<1> QED BY <1>1, <1>2 DEF SameAsSerial

(* Members of a cohort do not conflict.                                    *)
LEMMA ImpliesNoRacingAccess ==
    ASSUME IInv
    PROVE  NoRacingAccess
<1> SUFFICES ASSUME NEW q \in Systems, NEW r \in Systems, phase = "working", q < r,
                    {worker[q], worker[r]} \subseteq Active
             PROVE  /\ ~ Conflict(q, r) /\ <<q, r>> \notin plan.edges
                    /\ {q, r} \intersect plan.invoker = {}
  BY DEF NoRacingAccess
<1>1. plan \in Plans /\ next \in Nat /\ upTo \in Nat
  BY PlanIs DEF IInv, Types
<1>2. \A x \in Systems : worker[x] \in Active => x \in Cohort
  <2> SUFFICES ASSUME NEW x \in Systems, worker[x] \in Active PROVE x \in Cohort
    OBVIOUS
  <2>1. x \in Nat
    BY <1>1, PlanIs DEF Systems
  <2>2. ~ (x < next) /\ ~ (x >= upTo)
    BY DEF IInv, Crew, Active
  <2> QED BY <1>1, <2>1, <2>2 DEF Cohort
<1>3. q \in Cohort /\ r \in Cohort
  BY <1>2
<1> QED BY <1>3 DEF IInv, Crew

(* What is published is a prefix of what is recorded.                      *)
LEMMA PublishedIsPrefix ==
    ASSUME NEW p \in Plans, NEW b \in SerialStates(p), NEW a \in Seq(Stamps),
           IsPrefixOf(Recorded(b), a)
    PROVE  IsPrefixOf(b.state.applied, a)
<1>1. /\ b.state.applied \in Seq(Stamps) /\ b.queue \in Seq(Stamps)
      /\ Recorded(b) \in Seq(Stamps)
  BY RecordedTyped
<1>2. IsPrefixOf(b.state.applied, Recorded(b))
  <2> DEFINE x == b.state.applied
             y == b.queue
  <2>1. x \in Seq(Stamps) /\ y \in Seq(Stamps)
    BY <1>1
  <2> HIDE DEF x, y
  <2>2. IsPrefixOf(x, x \o y)
    BY <2>1, PrefixOfJoin
  <2> QED BY <2>2 DEF x, y, Recorded
<1> QED BY <1>1, <1>2, PrefixTransitive

(* What is published is a prefix of what the serial run publishes.         *)
LEMMA ImpliesPublishedPrefix ==
    ASSUME IInv
    PROVE  PublishedPrefix
<1>1. /\ plan \in Plans /\ plan.size \in Nat /\ next \in 0..plan.size
      /\ serial[plan.size] \in WorldStates(plan)
  <2>1. plan \in Plans /\ plan.size \in Nat /\ next \in 0..plan.size
    BY PlanIs DEF IInv, Types
  <2>2. plan.size \in 0..plan.size
    BY <2>1
  <2> QED BY <2>1, <2>2 DEF IInv, Types
<1>2. serial[plan.size].applied \in Seq(Stamps)
  BY <1>1, WorldIs
<1>3. CASE phase = "idle"
  BY <1>3 DEF IInv, AtEnd, PublishedPrefix
<1>4. CASE phase \in {"boundary", "step"}
  <2>1. run > 0
    BY <1>4, RunIsOn DEF IInv
  <2>2. /\ Here \in SerialStates(plan)
        /\ IsPrefixOf(Recorded(Here), serial[plan.size].applied)
        /\ IsPrefixOf(Here.state.callbacks, serial[plan.size].callbacks)
    BY <1>4, <2>1, HereIs DEF IInv
  <2>3. state.applied = Here.state.applied /\ state.callbacks = Here.state.callbacks
    BY <1>4 DEF IInv, Between, Agrees
  <2>4. IsPrefixOf(Here.state.applied, serial[plan.size].applied)
    BY <1>1, <1>2, <2>2, PublishedIsPrefix
  <2> QED BY <2>2, <2>3, <2>4 DEF PublishedPrefix
<1>5. CASE phase = "working"
  <2>1. run > 0
    BY <1>5, RunIsOn DEF IInv
  <2>2. /\ Serial[next] \in SerialStates(plan)
        /\ IsPrefixOf(Recorded(Serial[next]), serial[plan.size].applied)
        /\ IsPrefixOf(Serial[next].state.callbacks, serial[plan.size].callbacks)
    BY <1>1, <2>1, SerialIs DEF IInv
  <2>3. /\ state.applied = Serial[next].state.applied
        /\ state.callbacks = Serial[next].state.callbacks
    BY <1>5 DEF IInv, Within, Base
  <2>4. IsPrefixOf(Serial[next].state.applied, serial[plan.size].applied)
    BY <1>1, <1>2, <2>2, PublishedIsPrefix
  <2> QED BY <2>2, <2>3, <2>4 DEF PublishedPrefix
<1> QED BY <1>3, <1>4, <1>5 DEF IInv, Types, Phases

(* No buffer waits when the invoking thread is idle.                       *)
LEMMA ImpliesBuffersSettled ==
    ASSUME IInv
    PROVE  BuffersSettled
<1>1. plan \in Plans /\ next \in 0..plan.size
  BY DEF IInv, Types
<1>2. phase = "idle" => queue = <<>>
  BY DEF IInv, AtEnd
<1>3. ASSUME NEW i \in DOMAIN queue PROVE queue[i][1] = run
  <2>1. CASE phase = "idle"
    BY <1>2, <2>1
  <2>2. CASE phase \in {"boundary", "step"}
    <3>1. run > 0
      BY <2>2, RunIsOn DEF IInv
    <3>2. \A m \in DOMAIN Here.queue : Here.queue[m][1] = run
      BY <2>2, <3>1, HereIs DEF IInv, Kept
    <3>3. queue = Here.queue
      BY <2>2 DEF IInv, Between
    <3> QED BY <3>2, <3>3
  <2>3. CASE phase = "working"
    <3>1. run > 0
      BY <2>3, RunIsOn DEF IInv
    <3>2. Kept(Serial[next], serial[0].cursor, run)
      BY <1>1, <3>1, SerialIs DEF IInv
    <3>3. queue = Serial[next].queue
      BY <2>3 DEF IInv, Within, Base
    <3> QED BY <3>2, <3>3 DEF Kept
  <2> QED BY <2>1, <2>2, <2>3 DEF IInv, Types, Phases
<1>4. ASSUME phase = "idle", run > 0, verdict.kind = "ok", NEW r \in plan.deferred
      PROVE  \E i \in DOMAIN state.applied : state.applied[i] = <<run, r>>
  <2>1. <<run, r>> \in Touched(serial[plan.size].applied)
    BY <1>4, SerialIs DEF IInv
  <2>2. state.applied = serial[plan.size].applied
    BY <1>4 DEF IInv, AtEnd, Agrees
  <2> QED BY <2>1, <2>2 DEF Touched
<1> QED BY <1>2, <1>3, <1>4 DEF BuffersSettled

(* The cursor has moved by what was recorded and published.                *)
LEMMA ImpliesTruthfulBookkeeping ==
    ASSUME IInv
    PROVE  TruthfulBookkeeping
<1>1. phase = "working" => state.cursor + admitted <= CursorMax
  BY DEF IInv, Books, Taken
<1>2. (phase = "idle" /\ run > 0 /\ \A r \in Systems : worker[r] # "violation") =>
        /\ \A c \in Components :
              state.value[c][1] = run => state.changed[c] > serial[0].cursor
        /\ state.cursor = serial[0].cursor + JournalTotal
                           + Len(state.applied) - Len(serial[0].applied)
  BY DEF IInv, Truthful
<1> QED BY <1>1, <1>2, Zenon DEF TruthfulBookkeeping
-----------------------------------------------------------------------------
(* The initial states.                                                     *)

(* Init: nothing has run, and the serial run from here has not been        *)
(* computed.                                                               *)
LEMMA InitEstablishes ==
    ASSUME Init
    PROVE  IInv
<1> USE DEF Init
<1>1. /\ plan \in Plans /\ plan.size \in Nat /\ plan.start \in 0..CursorMax
      /\ plan.start \in Nat /\ CursorMax \in Nat
      /\ \A r \in Systems : r \in Nat
  <2>1. plan \in Plans
    OBVIOUS
  <2> QED BY <2>1, PlanIs DEF Systems
<1>2. state \in WorldStates(plan)
  <2>1. NoObservation \in Observations
    <3>1. <<>> \in [{} -> Stamps]
      OBVIOUS
    <3>2. <<>> \in UNION {[D -> Stamps] : D \in SUBSET Components}
      BY <3>1
    <3> DEFINE values == <<>>
               V == UNION {[D -> Stamps] : D \in SUBSET Components}
    <3>3. values \in V
      BY <3>2
    <3> HIDE DEF values, V
    <3>4. [run |-> 0, values |-> values, fresh |-> {}, applied |-> <<>>]
            \in [run : Nat, values : V, fresh : SUBSET Components, applied : Seq(Stamps)]
      BY <3>3
    <3> QED BY <3>4 DEF NoObservation, Observations, values, V
  <2>2. <<0, 0>> \in Stamps
    BY DEF Stamps
  <2> QED BY <1>1, <2>1, <2>2 DEF WorldStates, Systems
<1>3. plan.size \in 0..plan.size /\ 0 \in 0..plan.size /\ serial[plan.size] = state
  BY <1>1
<1>4. Types
  <2>1. fault.system \in [Systems -> Fates]
    BY DEF Fates
  <2>2. worker \in [Systems -> Conditions] /\ journal \in [Systems -> Seq(Components)]
    BY DEF Conditions
  <2>3. serial \in [0..plan.size -> WorldStates(plan)]
    BY <1>2
  <2>4. /\ phase \in Phases /\ run \in Nat /\ next \in 0..plan.size
        /\ upTo \in 0..plan.size /\ passed \subseteq plan.cuts
        /\ queue \in Seq(Stamps) /\ admitted \in Nat
    BY <1>1, <1>3 DEF Phases
  <2> QED BY <1>1, <1>2, <2>1, <2>2, <2>3, <2>4 DEF Types
<1>5. Settled(state, run)
  <2>1. \A c \in Components : state.value[c][1] = 0 /\ state.changed[c] = plan.start
    OBVIOUS
  <2>2. state.cursor = plan.start /\ \A r \in DOMAIN state.lastRun : state.lastRun[r] = plan.start
    OBVIOUS
  <2> QED BY <1>1, <2>1, <2>2 DEF Settled
<1>6. Linked
  BY <1>3 DEF Linked
<1>7. Between /\ Frontiers /\ Journals /\ Within
  BY DEF Between, Frontiers, Journals, Within, Payloads, Base, Sighted
<1>8. Crew
  BY DEF Crew, Active
<1>9. Books
  BY <1>1, <1>5 DEF Books, Taken
<1>10. AtEnd
  <2>1. /\ state.applied \in Seq(Stamps) /\ state.callbacks \in Seq(Nat)
    BY <1>1, <1>2, WorldIs
  <2>2. IsPrefixOf(state.applied, state.applied) /\ IsPrefixOf(state.callbacks, state.callbacks)
    BY <2>1, PrefixOfJoin
  <2> QED BY <1>3, <2>2 DEF AtEnd
<1>11. Truthful
  BY DEF Truthful
<1>12. FailureSelection
  <2>1. {r \in Systems : worker[r] \in FrameworkFailures} = {}
    BY DEF FrameworkFailures
  <2>2. verdict.kind \notin UserFailures
    BY DEF UserFailures
  <2> QED BY <2>1, <2>2, Zenon DEF FailureSelection
<1> QED BY <1>4, <1>6, <1>7, <1>8, <1>9, <1>10, <1>11, <1>12 DEF IInv

-----------------------------------------------------------------------------
(* Between the runs.                                                       *)

(* A world agrees with itself.                                             *)
LEMMA AgreesWithItself ==
    ASSUME NEW p, NEW s, NEW n
    PROVE  Agrees(p, s, s, n)
BY DEF Agrees, SameFilters

(* Nothing recorded is of length zero.                                     *)
LEMMA EmptyJournal ==
    ASSUME NEW p \in Plans, NEW j, \A r \in Ranks(p) : j[r] = <<>>
    PROVE  Len(Concatenation(j, 0, p.size)) = 0
<1> DEFINE lo == 0
           hi == p.size
<1>1. lo \in Int /\ hi \in Int /\ lo <= hi /\ \A q \in lo..(hi - 1) : j[q] = <<>>
  BY PlanIs DEF Ranks
<1> HIDE DEF lo, hi
<1>2. Concatenation(j, lo, hi) = <<>>
  BY <1>1, ConcatenationEmpty
<1>3. Len(Concatenation(j, 0, p.size)) = Len(<<>>)
  BY <1>2 DEF lo, hi
<1> QED BY <1>3

(* StartRun: the world at the start agrees with the first of the serial    *)
(* run.                                                                    *)
LEMMA StartRunKeeps ==
    ASSUME IInv, StartRun
    PROVE  IInv'
<1> DEFINE start == IF verdict.kind = "ok" THEN serial[plan.size] ELSE state
           of == SerialRun(plan, start, run + 1)
<1>1. /\ plan \in Plans /\ plan.size \in Nat /\ run \in Nat
      /\ plan.size \in 0..plan.size /\ 0 \in 0..plan.size
      /\ 0 \notin plan.cuts /\ phase = "idle"
      /\ state \in WorldStates(plan)
  <2>1. plan \in Plans /\ run \in Nat /\ phase = "idle" /\ state \in WorldStates(plan)
    BY DEF IInv, Types, StartRun
  <2> QED BY <2>1, PlanIs
<1>2. /\ plan' = plan /\ state' = state /\ admitted' = admitted /\ run' = run + 1
      /\ next' = 0 /\ upTo' = 0 /\ passed' = {} /\ fault' \in plan.faults
      /\ worker' = [r \in Systems |-> "idle"] /\ journal' = [r \in Systems |-> <<>>]
      /\ Systems' = Systems
  BY DEF StartRun, Systems
<1>3. serial' = [k \in 0..plan.size |-> of[k].state]
  BY DEF StartRun
<1>4. start \in WorldStates(plan) /\ Agrees(plan, state, start, 0) /\ Settled(start, run)
  <2>1. CASE start = state
    BY <1>1, <2>1, AgreesWithItself DEF IInv, Books
  <2>2. CASE start # state
    <3>1. verdict.kind = "ok" /\ start = serial[plan.size] /\ run > 0
      BY <1>1, <2>2 DEF IInv, Linked
    <3>2. Agrees(plan, state, start, plan.size)
      BY <1>1, <3>1 DEF IInv, AtEnd
    <3>3. Agrees(plan, state, start, 0)
      <4>1. \A r \in 0..(0 - 1) : FALSE
        OBVIOUS
      <4> QED BY <3>2, <4>1 DEF Agrees
    <3>4. Settled(start, run)
      BY <1>1, <3>1, SerialIs DEF IInv, Kept, Advanced
    <3> QED BY <1>1, <3>1, <3>3, <3>4 DEF IInv, Types
  <2> QED BY <2>1, <2>2
<1> HIDE DEF start
<1>5. /\ of \in [0..plan.size -> SerialStates(plan)]
      /\ of[0] = [state |-> start, queue |-> <<>>]
  BY <1>1, <1>4, SerialRunIs
<1>6. serial'[0] = start
  BY <1>1, <1>3, <1>5
<1>7. Serial' = of
  BY <1>2, <1>6 DEF Serial
<1> HIDE DEF of
<1>8. \A k \in 0..plan.size : serial'[k] = Serial'[k].state
  BY <1>3, <1>7
<1>9. /\ phase' \in {"idle", "boundary"} /\ queue' = <<>>
      /\ phase' = "idle" => verdict' = [kind |-> "setup", rank |-> 0]
      /\ phase' = "boundary" => plan.capacity # 0
                                /\ verdict' = [kind |-> "running", rank |-> 0]
  <2>1. queue = <<>>
    BY <1>1 DEF IInv, AtEnd
  <2>2. CASE plan.capacity = 0
    BY <2>2 DEF StartRun, EndRun
  <2>3. CASE plan.capacity # 0
    BY <2>1, <2>3 DEF StartRun
  <2> QED BY <2>2, <2>3
<1>10. Types'
  <2>1. serial' \in [0..plan.size -> WorldStates(plan)]
    BY <1>3, <1>5 DEF SerialStates
  <2>2. fault'.system \in [Systems -> Fates]
    BY <1>1, <1>2, PlanIs DEF Systems
  <2>3. /\ worker' \in [Systems -> Conditions] /\ journal' \in [Systems -> Seq(Components)]
    BY <1>2 DEF Conditions
  <2>4. phase' \in Phases /\ queue' \in Seq(Stamps) /\ admitted' \in Nat /\ run' \in Nat
    BY <1>1, <1>2, <1>9 DEF Phases, IInv, Types
  <2> QED BY <1>1, <1>2, <2>1, <2>2, <2>3, <2>4 DEF Types
<1>11. Linked'
  <2>1. Settled(serial'[0], run' - 1)
    BY <1>1, <1>2, <1>4, <1>6
  <2>2. run' # 0
    BY <1>1, <1>2
  <2> QED BY <1>2, <1>8, <2>1, <2>2 DEF Linked
<1>12. Between'
  <2>1. Here' = Serial'[0]
    BY <1>1, <1>2 DEF Here, PendingCuts
  <2>2. Here'.state = start /\ Here'.queue = <<>>
    BY <1>5, <1>7, <2>1
  <2>3. Agrees(plan', state', Here'.state, next') /\ queue' = Here'.queue
    BY <1>2, <1>4, <1>9, <2>2
  <2> QED BY <2>3 DEF Between
<1>13. Frontiers'
  <2>1. \A c \in plan.cuts : ~ (c < 0)
    BY <1>1, PlanIs
  <2> QED BY <1>2, <1>9, <2>1 DEF Frontiers
<1>14. Crew'
  <2>1. \A r \in Systems : ~ (r < 0)
    BY <1>1, PlanIs DEF Systems
  <2>2. phase' # "idle" => plan.capacity > 0
    BY <1>1, <1>9, PlanIs
  <2>3. \A r \in Systems : worker'[r] = "idle" /\ journal'[r] = <<>>
    BY <1>2
  <2> QED BY <1>2, <1>9, <2>1, <2>2, <2>3 DEF Crew, Active
<1>15. Journals' /\ Within'
  BY <1>9 DEF Journals, Within, Payloads, Base, Sighted
<1>16. JournalTotal' = 0
  <2>1. \A r \in Ranks(plan) : journal'[r] = <<>>
    BY <1>2 DEF Systems
  <2> DEFINE j == journal'
  <2>2. \A r \in Ranks(plan) : j[r] = <<>>
    BY <2>1
  <2> HIDE DEF j
  <2>3. Len(Concatenation(j, 0, plan.size)) = 0
    BY <1>1, <2>2, EmptyJournal
  <2> QED BY <1>2, <2>3 DEF JournalTotal, j
<1>17. /\ state.cursor \in Nat /\ Len(state.applied) \in Nat
       /\ start.cursor = state.cursor /\ start.applied = state.applied
       /\ start.callbacks = state.callbacks
       /\ state.callbacks \in Seq(Nat) /\ state.applied \in Seq(Stamps)
  BY <1>1, <1>4, WorldIs DEF Agrees
<1>18. Settled(state, run + 1)
  <2>1. Settled(state, run)
    BY DEF IInv, Books
  <2>2. \A c \in Components : state.value[c][1] \in Nat
    BY <1>1, WorldIs
  <2> QED BY <1>1, <2>1, <2>2 DEF Settled
<1>19. Books'
  <2>1. Taken' = 0 /\ state.cursor + Taken = state.cursor
    BY <1>1, <1>9, <1>17 DEF Taken
  <2>2. state.cursor + 0 <= CursorMax
    BY <1>17, <2>1 DEF IInv, Books
  <2>3. state.cursor + 0 = state.cursor + 0 + Len(state.applied) - Len(state.applied)
    BY <1>17
  <2>4. state.cursor >= state.cursor
    BY <1>17
  <2> QED BY <1>2, <1>6, <1>9, <1>16, <1>17, <1>18, <2>1, <2>2, <2>3, <2>4 DEF Books
<1>20. AtEnd'
  <2>1. run' > 0
    BY <1>1, <1>2
  <2>2. /\ IsPrefixOf(Serial'[0].state.applied, serial'[plan.size].applied)
        /\ IsPrefixOf(Serial'[0].state.callbacks, serial'[plan.size].callbacks)
    <3>1. /\ Serial'[0] \in SerialStates(plan)
          /\ IsPrefixOf(Recorded(Serial'[0]), serial'[plan.size].applied)
          /\ IsPrefixOf(Serial'[0].state.callbacks, serial'[plan.size].callbacks)
      <4>1. of[0] \in SerialStates(plan)
        BY <1>1, <1>5
      <4>2. run + 1 \in Nat
        BY <1>1
      <4>3. /\ IsPrefixOf(Recorded(of[0]), of[plan.size].state.applied)
            /\ IsPrefixOf(of[0].state.callbacks, of[plan.size].state.callbacks)
        BY <1>1, <1>4, <4>2, SerialPublishesPrefix DEF of
      <4>4. serial'[plan.size] = of[plan.size].state
        BY <1>1, <1>3
      <4> QED BY <1>7, <4>1, <4>3, <4>4
    <3>2. serial'[plan.size].applied \in Seq(Stamps)
      <4>1. serial'[plan.size] \in WorldStates(plan)
        BY <1>1, <1>2, <1>10 DEF Types
      <4> QED BY <1>1, <4>1, WorldIs
    <3> QED BY <1>1, <3>1, <3>2, PublishedIsPrefix
  <2>3. Serial'[0].state = start
    BY <1>5, <1>7
  <2>4. verdict'.kind \notin {"unreached", "ok"} \/ phase' # "idle"
    BY <1>9
  <2> QED BY <1>2, <1>9, <1>17, <2>2, <2>3, <2>4 DEF AtEnd
<1>21. Truthful'
  <2>1. ASSUME NEW c \in Components PROVE state.value[c][1] # run + 1
    <3>1. state.value[c][1] \in Nat /\ state.value[c][1] <= run
      BY <1>1, WorldIs DEF IInv, Books, Settled
    <3> QED BY <1>1, <3>1
  <2>2. state.cursor = state.cursor + 0 + Len(state.applied) - Len(state.applied)
    BY <1>17
  <2> QED BY <1>2, <1>6, <1>16, <1>17, <2>1, <2>2 DEF Truthful
<1>22. FailureSelection'
  <2>1. {r \in Systems : worker'[r] \in FrameworkFailures} = {}
    BY <1>2 DEF FrameworkFailures
  <2>2. phase' = "idle" => verdict'.kind \notin UserFailures
    BY <1>9 DEF UserFailures
  <2> QED BY <1>2, <2>1, <2>2, Zenon DEF FailureSelection
<1> QED BY <1>10, <1>11, <1>12, <1>13, <1>14, <1>15, <1>19, <1>20, <1>21, <1>22
        DEF IInv
-----------------------------------------------------------------------------
(* How a run ends.                                                         *)

(* An end leaves the invariant, if what it leaves is accounted for.        *)
LEMMA EndingKeeps ==
    ASSUME IInv, phase' = "idle", run > 0,
           plan' = plan, run' = run, fault' = fault, serial' = serial,
           next' = next, passed' = passed, worker' = worker, queue' = <<>>,
           upTo' \in 0..plan.size, admitted' \in Nat,
           \A r \in Systems : worker[r] \notin Active,
           journal' \in [Systems -> Seq(Components)],
           state' \in WorldStates(plan), Settled(state', run),
           state'.cursor <= CursorMax,
           verdict'.kind \notin {"unreached", "ok"},
           IsPrefixOf(state'.applied, serial[plan.size].applied),
           IsPrefixOf(state'.callbacks, serial[plan.size].callbacks),
           Truthful', FailureSelection'
    PROVE  IInv'
<1>1. Systems' = Systems /\ Serial' = Serial
  BY DEF Systems, Serial
<1>2. Types'
  <2>1. Types
    BY DEF IInv
  <2>2. queue' \in Seq(Stamps) /\ phase' \in Phases
    BY DEF Phases
  <2> QED BY <1>1, <2>1, <2>2 DEF Types
<1>3. Linked'
  <2>1. run # 0
    BY DEF IInv, Types
  <2>2. Linked
    BY DEF IInv
  <2> QED BY <1>1, <2>1, <2>2 DEF Linked
<1>4. Between' /\ Frontiers' /\ Journals' /\ Within'
  BY DEF Between, Frontiers, Journals, Within, Payloads, Base, Sighted
<1>5. Crew'
  BY <1>1 DEF Crew
<1>6. Books'
  <2>1. Taken' = 0 /\ state'.cursor \in Nat
    BY WorldIs DEF Taken, IInv, Types
  <2> QED BY <2>1 DEF Books
<1>7. AtEnd'
  BY DEF AtEnd
<1> QED BY <1>2, <1>3, <1>4, <1>5, <1>6, <1>7 DEF IInv

(* Between cohorts no worker is left with a failure.                       *)
LEMMA NoFailureLeft ==
    ASSUME IInv, phase \in {"boundary", "step"}
    PROVE  /\ \A r \in Systems : worker[r] \in {"idle", "success"}
           /\ \A r \in Systems : worker[r] \notin Active
           /\ {r \in Systems : worker[r] \in FrameworkFailures} = {}
<1>1. plan \in Plans /\ next \in Nat
  BY PlanIs DEF IInv, Types
<1>2. ASSUME NEW r \in Systems PROVE worker[r] \in {"idle", "success"}
  <2>1. r \in Nat
    BY <1>1, PlanIs DEF Systems
  <2>2. CASE r < next
    BY <2>2 DEF IInv, Crew
  <2>3. CASE r >= next
    BY <2>3 DEF IInv, Crew
  <2> QED BY <1>1, <2>1, <2>2, <2>3
<1> QED BY <1>2 DEF FrameworkFailures, Active

(* The plain facts of a state between cohorts.                             *)
LEMMA BetweenCohorts ==
    ASSUME IInv, phase \in {"boundary", "step"}
    PROVE  /\ plan \in Plans /\ plan.size \in Nat /\ run \in Nat /\ run > 0
           /\ next \in 0..plan.size /\ upTo \in 0..plan.size
           /\ admitted \in Nat /\ CursorMax \in Nat
           /\ state \in WorldStates(plan) /\ state.cursor \in Nat
           /\ state.cursor <= CursorMax /\ Settled(state, run)
           /\ serial[0] \in WorldStates(plan) /\ serial[0].cursor \in Nat
           /\ state.applied \in Seq(Stamps) /\ serial[0].applied \in Seq(Stamps)
           /\ journal \in [Systems -> Seq(Components)]
           /\ Advanced(state, serial[0].cursor, run)
           /\ JournalTotal \in Nat
           /\ state.cursor = serial[0].cursor + JournalTotal
                             + Len(state.applied) - Len(serial[0].applied)
<1>1. /\ plan \in Plans /\ plan.size \in Nat /\ run \in Nat /\ run > 0
      /\ next \in 0..plan.size /\ upTo \in 0..plan.size
      /\ admitted \in Nat /\ CursorMax \in Nat
      /\ journal \in [Systems -> Seq(Components)]
      /\ state \in WorldStates(plan)
  BY PlanIs, RunIsOn DEF IInv, Types
<1>2. serial[0] \in WorldStates(plan)
  <2>1. 0 \in 0..plan.size
    BY <1>1
  <2> QED BY <2>1 DEF IInv, Types
<1>3. /\ state.cursor \in Nat /\ state.applied \in Seq(Stamps)
      /\ serial[0].cursor \in Nat /\ serial[0].applied \in Seq(Stamps)
  BY <1>1, <1>2, WorldIs
<1>4. /\ state.cursor <= CursorMax /\ Settled(state, run)
      /\ state.cursor = serial[0].cursor + JournalTotal
                        + Len(state.applied) - Len(serial[0].applied)
  <2>1. Taken = 0 /\ state.cursor + 0 = state.cursor
    BY <1>3 DEF Taken
  <2>2. /\ state.cursor + Taken <= CursorMax /\ Settled(state, run)
        /\ state.cursor + Taken = serial[0].cursor + JournalTotal
                        + Len(state.applied) - Len(serial[0].applied)
    BY DEF IInv, Books
  <2> QED BY <2>1, <2>2, Zenon
<1>5. Advanced(state, serial[0].cursor, run)
  BY HasAdvanced DEF IInv
<1>6. JournalTotal \in Nat
  <2> DEFINE lo == 0
             hi == plan.size
  <2>1. /\ lo \in Int /\ hi \in Int /\ lo <= hi
        /\ \A q \in lo..(hi - 1) : journal[q] \in Seq(Components)
    BY <1>1 DEF Systems, Ranks
  <2> HIDE DEF lo, hi
  <2>2. Concatenation(journal, lo, hi) \in Seq(Components)
    BY <2>1, ConcatenationTouches
  <2> QED BY <2>2 DEF JournalTotal, lo, hi
<1> QED BY <1>1, <1>2, <1>3, <1>4, <1>5, <1>6

-----------------------------------------------------------------------------
(* The invoking thread between cohorts.                                    *)

(* Step past a frontier: nothing but the phase changes.                    *)
LEMMA StepKeeps ==
    ASSUME IInv, Step
    PROVE  IInv'
<1>1. /\ phase = "boundary" /\ phase' = "step" /\ ~ AtFrontier /\ next < plan.size
      /\ UNCHANGED <<plan, run, fault, next, passed, upTo, state, queue, worker,
                     journal, admitted, verdict, serial>>
  BY DEF Step
<1>2. /\ Systems' = Systems /\ Serial' = Serial /\ PendingCuts' = PendingCuts
      /\ Here' = Here /\ JournalTotal' = JournalTotal
  BY <1>1 DEF Systems, Serial, PendingCuts, Here, JournalTotal
<1>3. Types' /\ Linked'
  BY <1>1, <1>2 DEF IInv, Types, Linked, Phases
<1>4. Between'
  BY <1>1, <1>2 DEF IInv, Between
<1>5. Frontiers'
  <2>1. next \notin PendingCuts
    <3>1. plan \in Plans /\ next \in Nat
      BY PlanIs DEF IInv, Types
    <3>2. \A c \in PendingCuts : next <= c
      BY <1>1, <3>1, PlanIs DEF PendingCuts, IInv, Frontiers
    <3> QED BY <1>1, <3>2 DEF AtFrontier
  <2> QED BY <1>1, <2>1 DEF IInv, Frontiers, PendingCuts
<1>6. Crew'
  BY <1>1, <1>2 DEF IInv, Crew
<1>7. Journals' /\ Within' /\ AtEnd' /\ Truthful' /\ FailureSelection'
  BY <1>1 DEF Journals, Within, Payloads, Base, Sighted, AtEnd, Truthful,
              FailureSelection
<1>8. Books'
  BY <1>1, <1>2 DEF IInv, Books, Taken
<1> QED BY <1>3, <1>4, <1>5, <1>6, <1>7, <1>8 DEF IInv

(* Complete: behind the last system the world is the last of the serial    *)
(* run.                                                                    *)
LEMMA CompleteKeeps ==
    ASSUME IInv, Complete
    PROVE  IInv'
<1>1. /\ phase = "boundary" /\ ~ AtFrontier /\ next = plan.size
      /\ UNCHANGED <<plan, run, fault, next, passed, upTo, state, worker,
                     journal, admitted, serial>>
  BY DEF Complete
<1>2. /\ plan \in Plans /\ plan.size \in Nat /\ run \in Nat /\ run > 0
      /\ Advanced(state, serial[0].cursor, run)
      /\ state.cursor = serial[0].cursor + JournalTotal
                        + Len(state.applied) - Len(serial[0].applied)
      /\ state.cursor \in Nat /\ state.cursor <= CursorMax
  BY <1>1, BetweenCohorts
<1>3. PendingCuts = {}
  <2>1. \A c \in PendingCuts : c = next
    <3> SUFFICES ASSUME NEW c \in PendingCuts PROVE c = next
      OBVIOUS
    <3>1. c \in Nat /\ c <= plan.size
      BY <1>2, PlanIs DEF PendingCuts
    <3>2. ~ (c < next)
      BY <1>1 DEF PendingCuts, IInv, Frontiers
    <3> QED BY <1>1, <1>2, <3>1, <3>2
  <2>2. ~ (next \in PendingCuts)
    BY <1>1, <1>2, <2>1 DEF AtFrontier
  <2> QED BY <2>1, <2>2
<1>4. phase' = "idle" /\ queue' = <<>> /\ verdict' = [kind |-> "ok", rank |-> 0]
  BY <1>3 DEF Complete, EndRun
<1>5. /\ Systems' = Systems /\ Serial' = Serial /\ JournalTotal' = JournalTotal
  BY <1>1 DEF Systems, Serial, JournalTotal
<1>6. Types' /\ Linked'
  BY <1>1, <1>2, <1>4, <1>5 DEF IInv, Types, Linked, Phases
<1>7. Between' /\ Frontiers' /\ Journals' /\ Within'
  BY <1>4 DEF Between, Frontiers, Journals, Within, Payloads, Base, Sighted
<1>8. Crew'
  BY <1>1, <1>4, <1>5 DEF IInv, Crew
<1>9. Books'
  <2>1. Taken' = 0
    BY <1>4 DEF Taken
  <2>2. Settled(state, run)
    BY DEF IInv, Books
  <2>3. state.cursor + 0 = state.cursor
    <3>1. state.cursor \in Nat
      BY <1>2
    <3> QED BY <3>1
  <2>4. state.cursor + 0 <= CursorMax
    BY <1>2, <2>3, Zenon
  <2> QED BY <1>1, <1>4, <2>1, <2>2, <2>4 DEF Books
<1>10. AtEnd'
  <2>1. Agrees(plan, state, serial[plan.size], plan.size)
    <3>1. Here = Serial[plan.size]
      BY <1>1, <1>3 DEF Here
    <3>2. serial[plan.size] = Serial[plan.size].state
      BY <1>2, SerialIs DEF IInv
    <3> QED BY <1>1, <3>1, <3>2 DEF IInv, Between
  <2>2. /\ IsPrefixOf(state.applied, serial[plan.size].applied)
        /\ IsPrefixOf(state.callbacks, serial[plan.size].callbacks)
    BY ImpliesPublishedPrefix DEF PublishedPrefix
  <2> QED BY <1>1, <1>4, <2>1, <2>2 DEF AtEnd
<1>11. Truthful'
  BY <1>1, <1>2, <1>5 DEF Truthful, Advanced
<1>12. FailureSelection'
  <2>1. {r \in Systems : worker[r] \in FrameworkFailures} = {}
    BY <1>1, NoFailureLeft
  <2>2. {r \in Systems' : worker'[r] \in FrameworkFailures} = {}
    BY <1>1, <1>5, <2>1
  <2>3. verdict'.kind \notin UserFailures
    BY <1>4 DEF UserFailures
  <2> QED BY <2>2, <2>3, Zenon DEF FailureSelection
<1> QED BY <1>6, <1>7, <1>8, <1>9, <1>10, <1>11, <1>12 DEF IInv

(* Stuttering changes nothing.                                             *)
LEMMA StutterKeeps ==
    ASSUME IInv, UNCHANGED vars
    PROVE  IInv'
<1>1. UNCHANGED <<plan, phase, run, fault, next, passed, upTo, state, queue, worker,
                  journal, admitted, verdict, serial>>
  BY DEF vars
<1>2. /\ Systems' = Systems /\ Serial' = Serial /\ PendingCuts' = PendingCuts
      /\ Here' = Here /\ JournalTotal' = JournalTotal /\ Cohort' = Cohort
      /\ JoinedJournal' = JoinedJournal
  BY <1>1 DEF Systems, Serial, PendingCuts, Here, JournalTotal, Cohort, JoinedJournal
<1>3. Types' /\ Linked' /\ Between' /\ Frontiers'
  BY <1>1, <1>2 DEF IInv, Types, Linked, Between, Frontiers
<1>4. Crew' /\ Journals'
  BY <1>1, <1>2 DEF IInv, Crew, Journals, Conflict
<1>5. Within'
  BY <1>1, <1>2 DEF IInv, Within, Payloads, Base, Sighted, HasBegun
<1>6. Books' /\ AtEnd' /\ Truthful' /\ FailureSelection'
  BY <1>1, <1>2 DEF IInv, Books, Taken, AtEnd, Truthful, FailureSelection
<1> QED BY <1>3, <1>4, <1>5, <1>6 DEF IInv

-----------------------------------------------------------------------------
(* The invoking thread alone.                                              *)

(* A run that ends while no worker is about.                               *)
LEMMA EndsBetween ==
    ASSUME IInv, phase \in {"boundary", "step"}, phase' = "idle",
           plan' = plan, run' = run, fault' = fault, serial' = serial,
           next' = next, passed' = passed, worker' = worker, queue' = <<>>,
           upTo' \in 0..plan.size, admitted' \in Nat,
           journal' \in [Systems -> Seq(Components)],
           state' \in WorldStates(plan), Advanced(state', serial[0].cursor, run),
           state'.cursor <= CursorMax,
           state'.cursor = serial[0].cursor + JournalTotal'
                           + Len(state'.applied) - Len(serial[0].applied),
           verdict'.kind \notin {"unreached", "ok"},
           verdict'.kind \in UserFailures =>
               verdict'.rank = next /\ fault.system[next] = verdict'.kind,
           IsPrefixOf(state'.applied, serial[plan.size].applied),
           IsPrefixOf(state'.callbacks, serial[plan.size].callbacks)
    PROVE  IInv'
<1>1. /\ plan \in Plans /\ plan.size \in Nat /\ run > 0 /\ next \in 0..plan.size
  BY BetweenCohorts
<1>2. Systems' = Systems
  BY DEF Systems
<1>3. Truthful'
  BY <1>2 DEF Truthful, Advanced
<1>4. FailureSelection'
  <2>1. {r \in Systems : worker[r] \in FrameworkFailures} = {}
    BY NoFailureLeft
  <2>2. {r \in Systems' : worker'[r] \in FrameworkFailures} = {}
    BY <1>2, <2>1
  <2>3. ASSUME NEW q \in 0..(next - 1) PROVE fault.system[q] = "none"
    <3>1. q \in Systems /\ q < next
      BY <1>1 DEF Systems, Ranks
    <3>2. phase # "idle"
      OBVIOUS
    <3> QED BY <3>1, <3>2 DEF IInv, Crew
  <2> QED BY <2>2, <2>3 DEF FailureSelection
<1>5. Settled(state', run)
  BY DEF Advanced
<1>6. \A r \in Systems : worker[r] \notin Active
  BY NoFailureLeft
<1> QED BY <1>1, <1>3, <1>4, <1>5, <1>6, EndingKeeps

(* Where the serial run is once the system of rank k has run, and the      *)
(* invoking thread goes on behind it.                                      *)
LEMMA HereBehind ==
    ASSUME Types, Linked, Frontiers, phase \in {"step", "working"},
           NEW k \in Nat, next <= k, k < plan.size, plan' = plan, run' = run,
           serial' = serial, passed' = passed, next' = k + 1
    PROVE  Here' = AfterSystem(plan, Serial[k], k, run)
<1>1. /\ plan \in Plans /\ plan.size \in Nat /\ run > 0 /\ next \in Nat
      /\ k + 1 \in 1..plan.size /\ (k + 1) - 1 = k
  BY PlanIs, RunIsOn DEF Types
<1>2. Serial' = Serial /\ PendingCuts' = PendingCuts
  BY DEF Serial, PendingCuts
<1>3. CASE k + 1 \in PendingCuts
  BY <1>1, <1>2, <1>3 DEF Here
<1>4. CASE k + 1 \notin PendingCuts
  <2>1. k + 1 \notin plan.cuts
    <3>1. phase # "idle"
      OBVIOUS
    <3>2. k + 1 \notin passed
      <4> SUFFICES ASSUME k + 1 \in passed PROVE FALSE
        OBVIOUS
      <4>1. k + 1 <= next
        BY <3>1 DEF Frontiers
      <4> QED BY <1>1, <4>1
    <3> QED BY <1>4, <3>2 DEF PendingCuts
  <2>2. Serial[k + 1] = SerialStep(plan, Serial[(k + 1) - 1], k + 1, run)
    BY <1>1, SerialIs
  <2>3. Serial[k + 1] = AfterSystem(plan, Serial[k], k, run)
    BY <1>1, <2>1, <2>2 DEF SerialStep
  <2> QED BY <1>2, <1>4, <2>3 DEF Here
<1> QED BY <1>3, <1>4

(* A sequence is the whole part of itself.                                 *)
LEMMA WholePart ==
    ASSUME NEW S, NEW w \in Seq(S)
    PROVE  SubSeq(w, 1, Len(w)) = w
OBVIOUS

(* Invoke: a system that runs on the invoking thread takes the next serial *)
(* step.                                                                   *)
LEMMA InvokeKeeps ==
    ASSUME IInv, Invoke
    PROVE  IInv'
<1> DEFINE w == plan.writes[next]
           m == Room(Len(w))
           e == SubSeq(w, 1, m)
           t == RanBody(plan, state, next, run, e)
           fate == fault.system[next]
<1>1. /\ phase = "step" /\ next \in plan.invoker
      /\ UNCHANGED <<plan, run, fault, passed, upTo, worker, admitted, serial>>
  BY DEF Invoke
<1>2. /\ plan \in Plans /\ plan.size \in Nat /\ run \in Nat /\ run > 0
      /\ next \in 0..plan.size /\ upTo \in 0..plan.size
      /\ admitted \in Nat /\ CursorMax \in Nat
      /\ state \in WorldStates(plan) /\ state.cursor \in Nat
      /\ state.cursor <= CursorMax
      /\ serial[0].cursor \in Nat
      /\ state.applied \in Seq(Stamps) /\ serial[0].applied \in Seq(Stamps)
      /\ journal \in [Systems -> Seq(Components)]
      /\ Advanced(state, serial[0].cursor, run)
      /\ JournalTotal \in Nat
      /\ state.cursor = serial[0].cursor + JournalTotal
                        + Len(state.applied) - Len(serial[0].applied)
  BY <1>1, BetweenCohorts
<1>3. next < plan.size /\ next \in Systems /\ next \in Ranks(plan)
  BY <1>1, <1>2 DEF IInv, Frontiers, Systems, Ranks
<1>4. w \in Seq(Components) /\ Len(w) \in Nat
  BY <1>2, <1>3, PlanIs
<1>5. m \in 0..Len(w) /\ m <= CursorMax - state.cursor
  <2> DEFINE n == Len(w)
             cu == state.cursor
  <2>1. n \in Nat /\ cu \in Nat /\ CursorMax \in Nat /\ cu <= CursorMax
    BY <1>2, <1>4
  <2>2. m = IF n <= CursorMax - cu THEN n ELSE CursorMax - cu
    BY DEF Room
  <2> HIDE DEF n, cu, m
  <2>3. m \in 0..n /\ m <= CursorMax - cu
    BY <2>1, <2>2
  <2> QED BY <2>3 DEF n, cu
<1>6. e \in Seq(Components) /\ Len(e) = m /\ (m = Len(w) => e = w)
  BY <1>4, <1>5, PrefixOfPart, WholePart
<1>7. journal[next] = <<>>
  BY <1>1, <1>2, <1>3 DEF IInv, Crew
<1>8. /\ IsPrefixOf(state.applied, serial[plan.size].applied)
      /\ IsPrefixOf(state.callbacks, serial[plan.size].callbacks)
  BY ImpliesPublishedPrefix DEF PublishedPrefix
<1>9. Systems' = Systems /\ Serial' = Serial
  BY <1>1 DEF Systems, Serial
<1>10. CASE fate = "unprepared"
  <2>1. /\ phase' = "idle" /\ verdict' = [kind |-> "param", rank |-> next] /\ queue' = <<>>
        /\ state' = state /\ journal' = journal /\ next' = next
    BY <1>10 DEF Invoke, EndRun
  <2>2. JournalTotal' = JournalTotal
    BY <1>1, <2>1 DEF JournalTotal
  <2>3. verdict'.kind \notin {"unreached", "ok"} \union UserFailures
    BY <2>1 DEF UserFailures
  <2> QED BY <1>1, <1>2, <1>8, <2>1, <2>2, <2>3, EndsBetween
<1>11. CASE fate # "unprepared"
  <2>1. /\ state' = t /\ journal' = [journal EXCEPT ![next] = e]
        /\ IF Len(e) < Len(w)
           THEN EndRun("exhausted", next) /\ UNCHANGED next
           ELSE IF fate # "none"
           THEN EndRun(fate, next) /\ UNCHANGED next
           ELSE /\ phase' = "boundary"
                /\ next' = next + 1
                /\ queue' = IF next \in plan.deferred
                            THEN Append(queue, <<run, next>>) ELSE queue
                /\ UNCHANGED verdict
    BY <1>11 DEF Invoke
  <2> HIDE DEF e, m, w, fate
  <2>2. t \in WorldStates(plan) /\ HasRun(t, plan, state, next, run, e)
    BY <1>2, <1>3, <1>6, RanBodyIs
  <2>3. Advanced(t, serial[0].cursor, run)
    BY <1>2, <1>3, <1>6, RanAdvances
  <2> HIDE DEF t
  <2>4. journal' \in [Systems -> Seq(Components)] /\ journal'[next] = e
    BY <1>2, <1>3, <1>6, <2>1
  <2>5. JournalTotal' = JournalTotal + m
    <3> DEFINE lo == 0
               hi == plan.size
               j == journal'
               i == journal
               r == next
    <3>1. /\ lo \in Int /\ hi \in Int /\ lo <= hi /\ next \in lo..(hi - 1)
          /\ lo..(hi - 1) = Systems
      BY <1>2, <1>3 DEF Systems, Ranks
    <3>2. m \in Int
      BY <1>4, <1>5
    <3>3. \A q \in lo..(hi - 1) : journal[q] \in Seq(Components) /\ j[q] \in Seq(Components)
      BY <1>2, <2>4, <3>1
    <3>4. \A q \in lo..(hi - 1) : q # next => j[q] = journal[q]
      BY <1>2, <2>1 DEF Systems, Ranks
    <3>5. Len(j[next]) = Len(journal[next]) + m
      BY <1>5, <1>6, <1>7, <2>4
    <3>6. /\ \A q \in lo..(hi - 1) : i[q] \in Seq(Components) /\ j[q] \in Seq(Components)
          /\ \A q \in lo..(hi - 1) : q # r => j[q] = i[q]
          /\ Len(j[r]) = Len(i[r]) + m /\ r \in lo..(hi - 1)
      BY <3>1, <3>3, <3>4, <3>5, Zenon
    <3> HIDE DEF lo, hi, j, i, r
    <3>7. PartGrows(Components, i, j, lo, hi, r, m)
      BY <3>6 DEF PartGrows
    <3>8. Len(Concatenation(j, lo, hi)) = Len(Concatenation(i, lo, hi)) + m
      BY <3>1, <3>2, <3>7, ConcatenationGrows
    <3> QED BY <1>1, <3>8 DEF lo, hi, j, i, JournalTotal
  <2>6. /\ t.cursor = state.cursor + m /\ t.cursor <= CursorMax /\ t.cursor \in Nat
        /\ t.applied = state.applied /\ t.callbacks = state.callbacks
    <3>1. t.cursor = state.cursor + m
      BY <1>6, <2>2 DEF HasRun
    <3>2. t.cursor \in Nat
      BY <1>2, <2>2, WorldIs
    <3>3. t.applied = state.applied /\ t.callbacks = state.callbacks
      BY <2>2 DEF HasRun
    <3> DEFINE cu == state.cursor
    <3>4. m \in Int
      BY <1>4, <1>5
    <3>5. m <= CursorMax - cu
      BY <1>5, Zenon
    <3>6. cu \in Nat /\ CursorMax \in Nat /\ m \in Int /\ m <= CursorMax - cu
      BY <1>2, <3>4, <3>5
    <3> HIDE DEF cu
    <3>7. cu + m <= CursorMax
      BY <3>6
    <3> QED BY <3>1, <3>2, <3>3, <3>7 DEF cu
  <2>7. t.cursor = serial[0].cursor + JournalTotal'
                   + Len(t.applied) - Len(serial[0].applied)
    <3> DEFINE a == Len(state.applied)
               b == Len(serial[0].applied)
               cu == state.cursor
               ba == serial[0].cursor
               jt == JournalTotal
    <3>1. m \in Nat
      BY <1>4, <1>5
    <3>2. a \in Nat /\ b \in Nat /\ cu \in Nat /\ ba \in Nat /\ jt \in Nat
      <4>1. state.applied \in Seq(Stamps) /\ serial[0].applied \in Seq(Stamps)
        BY <1>2, Zenon
      <4>2. a \in Nat /\ b \in Nat
        BY <4>1
      <4>3. cu \in Nat /\ ba \in Nat /\ jt \in Nat
        BY <1>2, Zenon
      <4> QED BY <4>2, <4>3
    <3>3. cu = ba + jt + a - b
      BY <1>2, Zenon
    <3>4. a \in Nat /\ b \in Nat /\ cu \in Nat /\ ba \in Nat /\ jt \in Nat /\ m \in Nat
          /\ cu = ba + jt + a - b
      BY <3>1, <3>2, <3>3, Zenon
    <3>5. t.cursor = cu + m /\ JournalTotal' = jt + m /\ Len(t.applied) = a
      BY <2>5, <2>6
    <3> HIDE DEF a, b, cu, ba, jt
    <3>6. cu + m = ba + (jt + m) + a - b
      BY <3>4
    <3> QED BY <3>5, <3>6, Zenon DEF b, ba
  <2>8. CASE phase' = "idle"
    <3>1. /\ queue' = <<>> /\ next' = next
          /\ \/ verdict' = [kind |-> "exhausted", rank |-> next]
             \/ fate # "none" /\ verdict' = [kind |-> fate, rank |-> next]
      BY <2>1, <2>8 DEF EndRun
    <3>2. fate \in Fates
      BY <1>3 DEF fate, IInv, Types
    <3>3. /\ verdict'.kind \notin {"unreached", "ok"}
          /\ verdict'.kind \in UserFailures => verdict'.rank = next /\ verdict'.kind = fate
      BY <1>11, <3>1, <3>2 DEF Fates, UserFailures
    <3> QED BY <1>1, <1>2, <1>8, <2>1, <2>2, <2>3, <2>4, <2>6, <2>7, <2>8, <3>1, <3>3,
               EndsBetween DEF fate
  <2>9. CASE phase' # "idle"
    <3>1. /\ fate = "none" /\ phase' = "boundary" /\ next' = next + 1
          /\ queue' = IF next \in plan.deferred
                      THEN Append(queue, <<run, next>>) ELSE queue
          /\ ~ (Len(e) < Len(w))
      BY <2>1, <2>9 DEF EndRun
    <3>2. e = w
      BY <1>4, <1>5, <1>6, <3>1
    <3> DEFINE b == Serial[next]
               x == AfterSystem(plan, b, next, run)
    <3>3. Here' = x
      <4>1. next \in Nat /\ next <= next
        BY <1>2
      <4> QED BY <1>1, <1>3, <3>1, <4>1, HereBehind DEF IInv
    <3>4. b \in SerialStates(plan) /\ Kept(b, serial[0].cursor, run)
          /\ Agrees(plan, state, b.state, next) /\ queue = b.queue
      <4>1. Here = b /\ Here \in SerialStates(plan) /\ Kept(Here, serial[0].cursor, run)
        BY <1>1, <1>2, HereIs DEF IInv
      <4> QED BY <1>1, <4>1 DEF IInv, Between
    <3> HIDE DEF b
    <3>5. /\ x \in SerialStates(plan)
          /\ x.state = RanBody(plan, b.state, next, run, plan.writes[next])
          /\ x.queue = IF next \in plan.deferred THEN Append(b.queue, <<run, next>>)
                       ELSE b.queue
      BY <1>2, <1>3, <3>4, AfterSystemIs
    <3>6. Agrees(plan, t, x.state, next + 1)
      <4> DEFINE bs == b.state
      <4>1. bs \in WorldStates(plan) /\ Settled(bs, run) /\ Settled(state, run)
        BY <1>2, <3>4 DEF SerialStates, Kept, Advanced
      <4>2. Agrees(plan, state, bs, next)
        BY <3>4
      <4> HIDE DEF bs
      <4>3. Agrees(plan, RanBody(plan, state, next, run, e),
                   RanBody(plan, bs, next, run, e), next + 1)
        BY <1>2, <1>3, <1>6, <4>1, <4>2, RanAgrees
      <4> QED BY <3>2, <3>5, <4>3 DEF t, w, bs
    <3> HIDE DEF x
    <3>7. Between'
      BY <1>1, <2>1, <3>1, <3>3, <3>4, <3>5, <3>6 DEF Between
    <3>8. Types'
      <4>1. queue' \in Seq(Stamps)
        <5>1. x.queue \in Seq(Stamps)
          BY <3>5 DEF SerialStates
        <5>2. queue' = x.queue
          BY <3>1, <3>3, <3>7, Zenon DEF Between
        <5> QED BY <5>1, <5>2
      <4>2. next' \in 0..plan.size
        BY <1>2, <1>3, <3>1, SMTT(30)
      <4> QED BY <1>1, <1>9, <2>1, <2>2, <2>4, <3>1, <4>1, <4>2 DEF IInv, Types, Phases
    <3>9. Linked'
      BY <1>1, <1>2, <1>9, <3>1 DEF IInv, Linked
    <3>10. Frontiers'
      <4>1. \A c \in plan.cuts : c < next + 1 => c \in passed
        <5> SUFFICES ASSUME NEW c \in plan.cuts, c < next + 1 PROVE c \in passed
          OBVIOUS
        <5>1. c \in Nat
          BY <1>2, PlanIs
        <5>2. c < next \/ c = next
          BY <1>2, <5>1
        <5> QED BY <1>1, <5>2 DEF IInv, Frontiers
      <4>2. \A c \in passed : c <= next + 1
        <5> SUFFICES ASSUME NEW c \in passed PROVE c <= next + 1
          OBVIOUS
        <5>1. c \in Nat
          BY <1>2, PlanIs DEF IInv, Types
        <5>2. c <= next
          BY <1>1 DEF IInv, Frontiers
        <5> QED BY <1>2, <5>1, <5>2
      <4> QED BY <1>1, <3>1, <4>1, <4>2 DEF Frontiers
    <3>11. Crew'
      <4>1. \A r \in Systems : worker[r] \notin Active
        BY <1>1 DEF IInv, Crew
      <4>2. ASSUME NEW r \in Systems, r < next + 1
            PROVE  worker[r] \in {"idle", "success"} /\ fault.system[r] = "none"
        <5>1. r \in Nat
          BY <1>2 DEF Systems, Ranks
        <5>2. CASE r < next
          BY <1>1, <5>2 DEF IInv, Crew
        <5>3. CASE r = next
          BY <1>1, <1>2, <3>1, <5>3 DEF IInv, Crew, fate
        <5> QED BY <1>2, <4>2, <5>1, <5>2, <5>3
      <4>3. ASSUME NEW r \in Systems, r >= next + 1
            PROVE  worker[r] = "idle" /\ journal'[r] = <<>>
        <5>1. r \in Nat /\ r >= next /\ r # next
          BY <1>2, <4>3 DEF Systems, Ranks
        <5>2. worker[r] = "idle" /\ journal[r] = <<>>
          BY <1>1, <5>1 DEF IInv, Crew
        <5> QED BY <1>2, <2>1, <4>3, <5>1, <5>2
      <4>4. plan.capacity > 0
        BY <1>1 DEF IInv, Crew
      <4> QED BY <1>1, <1>9, <3>1, <4>1, <4>2, <4>3, <4>4 DEF Crew
    <3>12. Journals' /\ Within' /\ AtEnd' /\ Truthful' /\ FailureSelection'
      BY <3>1 DEF Journals, Within, Payloads, Base, Sighted, AtEnd, Truthful,
                  FailureSelection
    <3>13. Books'
      <4>1. Taken' = 0 /\ t.cursor + 0 = t.cursor
        BY <2>6, <3>1 DEF Taken
      <4>2. Settled(t, run) /\ t.cursor >= serial[0].cursor
        BY <2>3 DEF Advanced
      <4>3. /\ state'.cursor + Taken' <= CursorMax
            /\ state'.cursor + Taken' = serial[0].cursor + JournalTotal'
                   + Len(state'.applied) - Len(serial[0].applied)
        BY <2>1, <2>6, <2>7, <4>1, Zenon
      <4> QED BY <1>1, <2>1, <3>1, <4>2, <4>3 DEF Books
    <3> QED BY <3>7, <3>8, <3>9, <3>10, <3>11, <3>12, <3>13 DEF IInv
  <2> QED BY <2>8, <2>9
<1> QED BY <1>10, <1>11

(* A cohort has a first member, ends within the schedule before the next   *)
(* frontier, and those behind the first have joined it.                    *)
LEMMA CohortEndIs ==
    ASSUME plan \in Plans, plan.capacity > 0, next \in Nat, next < plan.size,
           NEW u, u = CHOOSE x \in CohortEnds : \A y \in CohortEnds : y <= x
    PROVE  /\ u \in (next + 1)..plan.size
           /\ \A c \in plan.cuts : c > next => u <= c
           /\ \A r \in (next + 1)..(u - 1) : Joins(r)
<1>1. plan.size \in Nat /\ plan.capacity \in Nat /\ plan.cuts \subseteq 1..plan.size
  BY PlanIs
<1>2. /\ FrontierBound \in (next + 1)..plan.size
      /\ \A c \in plan.cuts : c > next => FrontierBound <= c
  <2> DEFINE ahead == {c \in plan.cuts : c > next}
             lo == next + 1
  <2>1. CASE ahead = {}
    <3>1. FrontierBound = plan.size
      BY <2>1 DEF FrontierBound
    <3>2. \A c \in plan.cuts : ~ (c > next)
      BY <2>1
    <3> QED BY <1>1, <3>1, <3>2
  <2>2. CASE ahead # {}
    <3>1. FrontierBound = CHOOSE c \in ahead : \A b \in ahead : c <= b
      BY <2>2 DEF FrontierBound
    <3>2. ahead \in SUBSET Int /\ lo \in Int /\ \A c \in ahead : lo <= c
      BY <1>1
    <3> HIDE DEF ahead, lo
    <3>3. \E c \in ahead : \A b \in ahead : c <= b
      BY <2>2, <3>2, LeastExists
    <3>4. FrontierBound \in ahead /\ \A b \in ahead : FrontierBound <= b
      BY <3>1, <3>3
    <3> USE DEF ahead
    <3>5. FrontierBound \in plan.cuts /\ FrontierBound > next
      BY <3>4
    <3> QED BY <1>1, <3>4, <3>5
  <2> QED BY <2>1, <2>2
<1>3. next + 1 \in CohortEnds
  <2>1. next + 1 \in (next + 1)..FrontierBound /\ (next + 1) - next <= plan.capacity
    BY <1>1, <1>2
  <2>2. \A r \in (next + 1)..((next + 1) - 1) : FALSE
    OBVIOUS
  <2> QED BY <2>1, <2>2 DEF CohortEnds
<1>4. u \in CohortEnds
  <2> DEFINE S == CohortEnds
             hi == plan.size
  <2>1. S \in SUBSET Int /\ hi \in Int /\ S # {}
    BY <1>1, <1>2, <1>3 DEF CohortEnds
  <2>2. \A x \in S : x <= hi
    BY <1>1, <1>2 DEF CohortEnds
  <2> HIDE DEF S, hi
  <2>3. \E x \in S : \A y \in S : y <= x
    BY <2>1, <2>2, GreatestExists
  <2> QED BY <2>3 DEF S
<1>5. /\ u \in (next + 1)..FrontierBound
      /\ \A r \in (next + 1)..(u - 1) : Joins(r)
  BY <1>4 DEF CohortEnds
<1>6. \A c \in plan.cuts : c > next => u <= c
  BY <1>1, <1>2, <1>5
<1> QED BY <1>1, <1>2, <1>5, <1>6

(* Launch: the cohort starts with nothing recorded.                        *)
LEMMA LaunchKeeps ==
    ASSUME IInv, Launch
    PROVE  IInv'
<1>1. PICK u : u = upTo'
  OBVIOUS
<1> DEFINE members == next..(u - 1)
           unprepared == {r \in members : fault.system[r] = "unprepared"}
<1>2. /\ phase = "step" /\ next \notin plan.invoker /\ admitted' = 0
      /\ upTo' = CHOOSE t \in CohortEnds : \A v \in CohortEnds : v <= t
      /\ UNCHANGED <<plan, run, fault, next, passed, state, journal, serial>>
  BY DEF Launch
<1>3. /\ plan \in Plans /\ plan.size \in Nat /\ run \in Nat /\ run > 0
      /\ next \in 0..plan.size /\ upTo \in 0..plan.size
      /\ CursorMax \in Nat
      /\ state \in WorldStates(plan) /\ state.cursor \in Nat
      /\ state.cursor <= CursorMax
      /\ serial[0].cursor \in Nat
      /\ journal \in [Systems -> Seq(Components)]
      /\ Advanced(state, serial[0].cursor, run)
      /\ state.cursor = serial[0].cursor + JournalTotal
                        + Len(state.applied) - Len(serial[0].applied)
  BY <1>2, BetweenCohorts
<1>4. /\ next < plan.size /\ plan.capacity > 0 /\ next \in Nat
      /\ next \in plan.cuts => next \in passed
  BY <1>2, <1>3 DEF IInv, Frontiers, Crew
<1>5. /\ u \in (next + 1)..plan.size
      /\ \A c \in plan.cuts : c > next => u <= c
      /\ \A r \in (next + 1)..(u - 1) : Joins(r)
  <2>1. u = CHOOSE x \in CohortEnds : \A y \in CohortEnds : y <= x
    BY <1>1, <1>2, Zenon
  <2> QED BY <1>3, <1>4, <2>1, CohortEndIs
<1>6. /\ u \in Nat /\ u \in 0..plan.size /\ next < u /\ u <= plan.size
      /\ u \in Int /\ next \in Int
  BY <1>3, <1>4, <1>5
<1>7. /\ members \subseteq Systems
      /\ \A r \in Systems : r \in Nat /\ r < plan.size
      /\ \A r \in Systems : r \in members <=> next <= r /\ r < u
  BY <1>3, <1>4, <1>6 DEF Systems, Ranks
<1>8. /\ Systems' = Systems /\ Serial' = Serial /\ Cohort' = members
  BY <1>1, <1>2 DEF Systems, Serial, Cohort
<1>9. JournalTotal' = JournalTotal
  BY <1>2 DEF JournalTotal
<1>10. CASE unprepared # {}
  <2>1. /\ phase' = "idle" /\ verdict'.kind = "param" /\ queue' = <<>>
        /\ worker' = worker
    BY <1>1, <1>10 DEF Launch, EndRun
  <2>2. verdict'.kind \notin {"unreached", "ok"} \union UserFailures
    BY <2>1 DEF UserFailures
  <2>3. /\ IsPrefixOf(state.applied, serial[plan.size].applied)
        /\ IsPrefixOf(state.callbacks, serial[plan.size].callbacks)
    BY ImpliesPublishedPrefix DEF PublishedPrefix
  <2>4. admitted' \in Nat
    BY <1>2
  <2> QED BY <1>1, <1>2, <1>3, <1>6, <1>9, <2>1, <2>2, <2>3, <2>4, EndsBetween
<1>11. CASE unprepared = {}
  <2>1. /\ phase' = "working" /\ queue' = queue /\ verdict' = verdict
        /\ worker' = [r \in Systems |-> IF r \in members THEN "launched" ELSE worker[r]]
    BY <1>1, <1>11 DEF Launch
  <2>2. /\ \A r \in members : worker'[r] = "launched"
        /\ \A r \in Systems : r \notin members => worker'[r] = worker[r]
    BY <1>7, <2>1
  <2>3. Agrees(plan, state, Serial[next].state, next) /\ queue = Serial[next].queue
    <3>1. Here = Serial[next]
      BY <1>2, <1>3, HereIs DEF IInv
    <3> QED BY <1>2, <3>1 DEF IInv, Between
  <2>4. \A r \in Systems : r >= next => journal[r] = <<>> /\ worker[r] = "idle"
    BY <1>2 DEF IInv, Crew
  <2>5. ASSUME NEW r \in members
        PROVE  r \in Systems /\ r \in Nat /\ r >= next /\ r < u /\ journal[r] = <<>>
    <3>1. r \in Systems /\ r \in Nat /\ r >= next /\ r < u
      BY <1>4, <1>6, <1>7
    <3> QED BY <2>4, <3>1
  <2>6. Types'
    <3>1. worker' \in [Systems -> Conditions]
      <4>1. \A r \in Systems : worker'[r] \in Conditions
        BY <1>7, <2>1 DEF Conditions, Active, IInv, Types
      <4> QED BY <2>1, <4>1
    <3> QED BY <1>1, <1>2, <1>6, <1>8, <2>1, <3>1 DEF IInv, Types, Phases
  <2>7. Linked' /\ Between'
    BY <1>2, <1>3, <1>8, <2>1 DEF IInv, Linked, Between
  <2>8. Frontiers'
    BY <1>1, <1>2, <1>4, <1>5, <1>6, <2>1 DEF IInv, Frontiers
  <2>9. Crew'
    <3>1. ASSUME NEW r \in Systems, r < next
          PROVE  worker'[r] \in {"idle", "success"} /\ fault.system[r] = "none"
      <4>1. r \notin members /\ worker[r] \in {"idle", "success"} /\ fault.system[r] = "none"
        BY <1>2, <1>4, <1>7, <3>1 DEF IInv, Crew
      <4> QED BY <2>2, <4>1
    <3>2. ASSUME NEW r \in Systems, r >= u
          PROVE  worker'[r] = "idle" /\ journal[r] = <<>>
      <4>1. r \notin members /\ r >= next
        BY <1>4, <1>6, <1>7, <3>2
      <4> QED BY <2>2, <2>4, <4>1
    <3>3. ASSUME NEW r \in members
          PROVE  /\ r \notin plan.invoker /\ fault.system[r] # "unprepared"
                 /\ worker'[r] \in Active
      <4>1. CASE r = next
        BY <1>2, <1>11, <2>2, <4>1 DEF Active
      <4>2. CASE r # next
        <5>1. r \in (next + 1)..(u - 1)
          BY <1>4, <1>6, <2>5, <4>2
        <5> QED BY <1>5, <1>11, <2>2, <5>1 DEF Active, Joins
      <4> QED BY <4>1, <4>2
    <3>4. ASSUME NEW q \in members, NEW r \in members, q < r
          PROVE  ~ Conflict(q, r) /\ <<q, r>> \notin plan.edges
      <4>1. r \in (next + 1)..(u - 1) /\ q \in next..(r - 1) /\ ~ (q < next)
        BY <1>4, <1>6, <2>5, <3>4
      <4>2. ~ Conflict(q, r) /\ ReadyAt(r, next)
        BY <1>5, <4>1 DEF Joins
      <4>3. SUFFICES ASSUME <<q, r>> \in plan.edges PROVE FALSE
        BY <4>2
      <4>4. <<q, r>>[2] = r => <<q, r>>[1] < next
        BY <4>2, <4>3, Zenon DEF ReadyAt
      <4> QED BY <4>1, <4>4
    <3>5. \A q, r : Conflict(q, r)' = Conflict(q, r)
      BY <1>2 DEF Conflict
    <3>6. \A q, r \in members : q < r => ~ Conflict(q, r)' /\ <<q, r>> \notin plan.edges
      BY <3>4, <3>5
    <3>7. plan.capacity > 0
      BY <1>4
    <3>8. phase' = "working" /\ (IF phase' = "working" THEN upTo' ELSE next') = u
      BY <1>1, <2>1
    <3>9. /\ \A r \in Cohort' : /\ r \notin plan'.invoker
                              /\ fault'.system[r] # "unprepared"
                              /\ worker'[r] \in Active \union Over
          /\ \A q, r \in Cohort' :
                 q < r => ~ Conflict(q, r)' /\ <<q, r>> \notin plan'.edges
      BY <1>2, <1>8, <3>3, <3>6
    <3>10. /\ plan'.capacity > 0
           /\ \A r \in Systems' : r < next' =>
                 worker'[r] \in {"idle", "success"} /\ fault'.system[r] = "none"
           /\ \A r \in Systems' : r >= u => worker'[r] = "idle" /\ journal'[r] = <<>>
      BY <1>2, <1>8, <3>1, <3>2, <3>7
    <3> QED BY <3>8, <3>9, <3>10, Zenon DEF Crew
  <2>10. Journals'
    <3>1. ASSUME NEW r \in members
          PROVE  /\ journal[r] = <<>> /\ worker'[r] = "launched" /\ Len(journal[r]) = 0
                 /\ 0 <= Len(plan.writes[r])
      <4>1. plan.writes[r] \in Seq(Components)
        BY <1>3, <2>5, PlanIs DEF Systems
      <4> QED BY <2>2, <2>5, <4>1
    <3>2. \A r \in members : journal'[r] = <<>> /\ plan'.writes[r] = plan.writes[r]
      BY <1>2, <3>1
    <3>3. "launched" \notin {"success"} \union UserFailures \union {"violation"}
      BY DEF UserFailures
    <3>4. \A r \in members :
             /\ Len(journal'[r]) <= Len(plan'.writes[r])
             /\ \A i \in 1..Len(journal'[r]) : journal'[r][i] = plan'.writes[r][i]
      BY <3>1, <3>2
    <3>5. \A r \in members :
             /\ worker'[r] = "launched" => journal'[r] = <<>>
             /\ worker'[r] = "success" => FALSE
             /\ worker'[r] \notin UserFailures \union {"violation"}
      BY <3>1, <3>2, <3>3
    <3> QED BY <1>8, <3>4, <3>5 DEF Journals
  <2>11. Within'
    <3>1. \A r \in members : Touched(journal[r]) = {}
      BY <2>5 DEF Touched
    <3>2. Payloads'
      BY <1>2, <1>8, <2>1, <2>3, <3>1 DEF Payloads, Agrees
    <3>3. Base'
      BY <1>2, <1>8, <2>1, <2>3 DEF Base, Agrees
    <3>4. \A r : ~ HasBegun(r)'
      BY <1>8, <2>2 DEF HasBegun
    <3>5. \A r \in Systems : r < next => state.seen[r] = Serial[next].state.seen[r]
      BY <1>3, <2>3 DEF Systems, Ranks, Agrees
    <3>6. Sighted'
      BY <1>2, <1>8, <2>1, <2>3, <3>4, <3>5 DEF Sighted, Agrees, Systems
    <3> QED BY <3>2, <3>3, <3>6 DEF Within
  <2>12. Books'
    <3>1. JoinedJournal' = <<>>
      <4> DEFINE lo == next
                 hi == u
      <4>1. lo \in Int /\ hi \in Int /\ lo <= hi /\ \A r \in lo..(hi - 1) : journal[r] = <<>>
        BY <1>4, <1>6, <2>5
      <4> HIDE DEF lo, hi
      <4>2. Concatenation(journal, lo, hi) = <<>>
        BY <4>1, ConcatenationEmpty
      <4> QED BY <1>1, <1>2, <4>2 DEF JoinedJournal, lo, hi
    <3>2. Taken' = 0 /\ admitted' = Len(JoinedJournal') /\ state.cursor + 0 = state.cursor
      <4>1. Taken' = 0
        BY <1>2, <2>1 DEF Taken
      <4>2. Len(<<>>) = 0
        OBVIOUS
      <4>3. admitted' = Len(JoinedJournal')
        BY <1>2, <3>1, <4>2, Zenon
      <4>4. state.cursor + 0 = state.cursor
        <5>1. state.cursor \in Nat
          BY <1>3
        <5> QED BY <5>1
      <4> QED BY <4>1, <4>3, <4>4
    <3>3. Settled(state, run) /\ state.cursor >= serial[0].cursor
      BY <1>3 DEF Advanced
    <3>4. /\ state'.cursor + Taken' <= CursorMax
          /\ state'.cursor + Taken' = serial[0].cursor + JournalTotal'
                   + Len(state'.applied) - Len(serial[0].applied)
      BY <1>2, <1>3, <1>9, <3>2, Zenon
    <3> QED BY <1>2, <3>2, <3>3, <3>4, Zenon DEF Books
  <2>13. AtEnd' /\ Truthful' /\ FailureSelection'
    BY <2>1 DEF AtEnd, Truthful, FailureSelection
  <2> QED BY <2>6, <2>7, <2>8, <2>9, <2>10, <2>11, <2>12, <2>13 DEF IInv
<1> QED BY <1>10, <1>11

-----------------------------------------------------------------------------
(* The workers of a cohort.                                                *)

(* The plain facts of a state while a cohort runs.                         *)
LEMMA WithinCohort ==
    ASSUME IInv, phase = "working"
    PROVE  /\ plan \in Plans /\ plan.size \in Nat /\ run \in Nat /\ run > 0
           /\ next \in Nat /\ upTo \in Nat /\ next < upTo /\ upTo <= plan.size
           /\ next \in 0..plan.size /\ upTo \in 0..plan.size
           /\ Cohort \subseteq Systems
           /\ \A r \in Systems : r \in Nat /\ r < plan.size /\ r \in Ranks(plan)
           /\ \A r \in Systems : r \in Cohort <=> next <= r /\ r < upTo
           /\ state \in WorldStates(plan) /\ state.cursor \in Nat
           /\ admitted \in Nat /\ CursorMax \in Nat
           /\ journal \in [Systems -> Seq(Components)]
           /\ serial[0].cursor \in Nat
           /\ Serial \in [0..plan.size -> SerialStates(plan)]
           /\ Kept(Serial[next], serial[0].cursor, run)
           /\ Settled(state, run)
<1>1. /\ plan \in Plans /\ plan.size \in Nat /\ run \in Nat /\ run > 0
      /\ next \in 0..plan.size /\ upTo \in 0..plan.size
      /\ admitted \in Nat /\ CursorMax \in Nat
      /\ journal \in [Systems -> Seq(Components)]
      /\ state \in WorldStates(plan) /\ next < upTo
  BY PlanIs, RunIsOn DEF IInv, Types, Frontiers
<1>2. next \in Nat /\ upTo \in Nat /\ upTo <= plan.size
  BY <1>1
<1>3. /\ Cohort \subseteq Systems
      /\ \A r \in Systems : r \in Nat /\ r < plan.size /\ r \in Ranks(plan)
      /\ \A r \in Systems : r \in Cohort <=> next <= r /\ r < upTo
  BY <1>1, <1>2 DEF Systems, Ranks, Cohort
<1>4. state.cursor \in Nat /\ serial[0].cursor \in Nat
  <2>1. 0 \in 0..plan.size
    BY <1>1
  <2>2. serial[0] \in WorldStates(plan)
    BY <2>1 DEF IInv, Types
  <2> QED BY <1>1, <2>2, WorldIs
<1>5. /\ Serial \in [0..plan.size -> SerialStates(plan)]
      /\ Kept(Serial[next], serial[0].cursor, run)
  BY <1>1, SerialIs DEF IInv
<1>6. Settled(state, run)
  BY DEF IInv, Books
<1> QED BY <1>1, <1>2, <1>3, <1>4, <1>5, <1>6

(* The serial run all along the cohort.                                    *)
LEMMA CohortInSerial ==
    ASSUME IInv, phase = "working"
    PROVE  /\ MayOverlap(plan, next, upTo)
           /\ \A k \in next..upTo :
                 /\ Behind(plan, run, Serial, next, k) \in SerialStates(plan)
                 /\ Concatenations(plan.writes, next, upTo)[k] \in Seq(Components)
                 /\ Concatenations(Buffers(plan, run), next, upTo)[k] \in Seq(Stamps)
                 /\ Progress(plan, run, Serial, next, k,
                             Concatenations(plan.writes, next, upTo)[k],
                             Concatenations(Buffers(plan, run), next, upTo)[k],
                             Behind(plan, run, Serial, next, k))
<1>1. /\ plan \in Plans /\ run \in Nat /\ run > 0
      /\ next \in Nat /\ upTo \in Nat /\ next < upTo /\ upTo <= plan.size
      /\ Kept(Serial[next], serial[0].cursor, run)
  BY WithinCohort
<1>2. MayOverlap(plan, next, upTo)
  <2> SUFFICES ASSUME NEW q \in next..(upTo - 1), NEW r \in next..(upTo - 1), q # r
               PROVE  Written(plan, q)
                        \intersect (plan.reads[r] \union Written(plan, r)) = {}
    BY DEF MayOverlap
  <2>1. q \in Cohort /\ r \in Cohort /\ q \in Int /\ r \in Int
    BY <1>1 DEF Cohort
  <2>2. q < r \/ r < q
    BY <2>1
  <2>3. CASE q < r
    <3>1. ~ Conflict(q, r)
      BY <2>1, <2>3 DEF IInv, Crew
    <3> QED BY <3>1 DEF Conflict
  <2>4. CASE r < q
    <3>1. ~ Conflict(r, q)
      BY <2>1, <2>4 DEF IInv, Crew
    <3> QED BY <3>1 DEF Conflict
  <2> QED BY <2>2, <2>3, <2>4
<1>3. \A k \in plan.cuts : ~ (next < k /\ k < upTo)
  <2> SUFFICES ASSUME NEW k \in plan.cuts, next < k, k < upTo PROVE FALSE
    OBVIOUS
  <2>1. k \in Nat
    BY <1>1, PlanIs
  <2>2. upTo <= k
    BY <1>1, <2>1 DEF IInv, Frontiers
  <2> QED BY <1>1, <2>1, <2>2
<1>4. Settled(Serial[next].state, run)
  BY <1>1 DEF Kept, Advanced
<1> DEFINE start == serial[0]
<1>5. start \in WorldStates(plan) /\ Serial = SerialRun(plan, start, run)
  <2>1. 0 \in 0..plan.size
    BY <1>1, PlanIs
  <2> QED BY <2>1 DEF IInv, Types, Serial
<1> HIDE DEF start
<1>6. Settled(SerialRun(plan, start, run)[next].state, run)
  BY <1>4, <1>5, Zenon
<1>7. \A k \in next..upTo :
         /\ Behind(plan, run, SerialRun(plan, start, run), next, k) \in SerialStates(plan)
         /\ Concatenations(plan.writes, next, upTo)[k] \in Seq(Components)
         /\ Concatenations(Buffers(plan, run), next, upTo)[k] \in Seq(Stamps)
         /\ Progress(plan, run, SerialRun(plan, start, run), next, k,
                     Concatenations(plan.writes, next, upTo)[k],
                     Concatenations(Buffers(plan, run), next, upTo)[k],
                     Behind(plan, run, SerialRun(plan, start, run), next, k))
  BY <1>1, <1>2, <1>3, <1>5, <1>6, CohortProgress
<1> QED BY <1>2, <1>5, <1>7, Zenon

(* A member's events are among those it may record.                        *)
LEMMA JournalWithin ==
    ASSUME IInv, phase = "working", NEW r \in Cohort
    PROVE  Touched(journal[r]) \subseteq Written(plan, r)
<1>1. /\ Len(journal[r]) <= Len(plan.writes[r])
      /\ \A i \in 1..Len(journal[r]) : journal[r][i] = plan.writes[r][i]
  BY DEF IInv, Journals
<1>2. r \in Systems /\ journal[r] \in Seq(Components) /\ plan.writes[r] \in Seq(Components)
  BY WithinCohort, PlanIs
<1> DEFINE a == journal[r]
           b == plan.writes[r]
<1> HIDE DEF a, b
<1>3. Len(a) <= Len(b) /\ (\A i \in 1..Len(a) : a[i] = b[i])
      /\ a \in Seq(Components) /\ b \in Seq(Components)
  BY <1>1, <1>2 DEF a, b
<1>4. Touched(a) \subseteq {b[i] : i \in DOMAIN b}
  BY <1>3 DEF Touched
<1> QED BY <1>4 DEF Written, a, b

(* Behind member k - 1 the serial run is at member k.                      *)
LEMMA BehindIs ==
    ASSUME IInv, phase = "working", NEW k \in Cohort
    PROVE  /\ Behind(plan, run, Serial, next, k) = Serial[k]
           /\ Behind(plan, run, Serial, next, k + 1)
                = AfterSystem(plan, Serial[k], k, run)
<1>1. /\ plan \in Plans /\ run > 0 /\ plan.size \in Nat
      /\ next \in Nat /\ upTo \in Nat /\ next < upTo /\ upTo <= plan.size
  BY WithinCohort
<1>2. k \in Nat /\ next <= k /\ k < upTo /\ k + 1 # next /\ (k + 1) - 1 = k
  BY <1>1 DEF Cohort
<1>3. Behind(plan, run, Serial, next, k) = Serial[k]
  <2>1. CASE k = next
    BY <2>1 DEF Behind
  <2>2. CASE k # next
    <3>1. k \in 1..plan.size /\ k > next
      BY <1>1, <1>2, <2>2
    <3>2. k \notin plan.cuts
      <4> SUFFICES ASSUME k \in plan.cuts PROVE FALSE
        OBVIOUS
      <4>1. upTo <= k
        BY <3>1 DEF IInv, Frontiers
      <4> QED BY <1>1, <1>2, <4>1
    <3>3. Serial[k] = SerialStep(plan, Serial[k - 1], k, run)
      BY <1>1, <3>1, SerialIs DEF IInv
    <3> QED BY <2>2, <3>2, <3>3 DEF SerialStep, Behind
  <2> QED BY <2>1, <2>2
<1> QED BY <1>2, <1>3 DEF Behind

(* A member that begins sees what it sees in the serial run.               *)
LEMMA SightIs ==
    ASSUME IInv, phase = "working", NEW r \in Cohort, worker[r] = "launched"
    PROVE  Observation(plan, state, r, run) = Serial[r + 1].state.seen[r]
<1>1. /\ plan \in Plans /\ plan.size \in Nat /\ run \in Nat /\ run > 0
      /\ next \in Nat /\ upTo \in Nat /\ next < upTo /\ upTo <= plan.size
      /\ next \in 0..plan.size /\ r \in Ranks(plan) /\ r \in Systems
      /\ state \in WorldStates(plan)
      /\ Serial \in [0..plan.size -> SerialStates(plan)]
  BY WithinCohort
<1>2. r \in Nat /\ next <= r /\ r < upTo /\ r \in next..upTo /\ r + 1 \in next..upTo
      /\ r \in 0..plan.size
  BY <1>1 DEF Cohort
<1> DEFINE b0 == Serial[next]
           b == Serial[r]
           b1 == AfterSystem(plan, b, r, run)
           w == Concatenations(plan.writes, next, upTo)[r]
           d == Concatenations(Buffers(plan, run), next, upTo)[r]
           w1 == Concatenations(plan.writes, next, upTo)[r + 1]
           d1 == Concatenations(Buffers(plan, run), next, upTo)[r + 1]
<1>3. /\ w \in Seq(Components)
      /\ Progress(plan, run, Serial, next, r, w, d, b)
  BY <1>2, CohortInSerial, BehindIs
<1>4. Progress(plan, run, Serial, next, r + 1, w1, d1, b1)
  BY <1>2, CohortInSerial, BehindIs
<1>5. /\ b0 \in SerialStates(plan) /\ b \in SerialStates(plan)
      /\ b0.state \in WorldStates(plan) /\ b.state \in WorldStates(plan)
  BY <1>1, <1>2 DEF SerialStates
<1>6. Observation(plan, b.state, r, run) = Serial[r + 1].state.seen[r]
  <2> HIDE DEF b
  <2>1. b1.state = RanBody(plan, b.state, r, run, plan.writes[r])
    <3>1. b \in SerialStates(plan)
      BY <1>5
    <3> QED BY <1>1, <3>1, AfterSystemIs, ZenonT(30)
  <2> HIDE DEF b1
  <2> DEFINE bs == b.state
             wr == plan.writes[r]
  <2>2. bs \in WorldStates(plan) /\ wr \in Seq(Components)
    BY <1>1, <1>5, PlanIs
  <2> HIDE DEF bs, wr
  <2>3. HasRun(RanBody(plan, bs, r, run, wr), plan, bs, r, run, wr)
    BY <1>1, <2>2, RanBodyIs
  <2>4. b1.state.seen = [bs.seen EXCEPT ![r] = Observation(plan, bs, r, run)]
    BY <2>1, <2>3 DEF HasRun, bs, wr
  <2>5. r \in DOMAIN bs.seen
    BY <1>1, <2>2, WorldIs
  <2>6. b1.state.seen[r] = Observation(plan, bs, r, run)
    BY <2>4, <2>5
  <2>7. b1.state.seen[r] = Serial[r + 1].state.seen[r]
    <3>1. r \in next..((r + 1) - 1)
      BY <1>1, <1>2
    <3> QED BY <1>4, <3>1 DEF Progress, Sights
  <2> QED BY <2>6, <2>7 DEF bs
<1>7. \A c \in plan.reads[r] : c \in Components /\ c \notin Touched(w)
                               /\ \A q \in Cohort : c \notin Touched(journal[q])
  <2> SUFFICES ASSUME NEW c \in plan.reads[r]
               PROVE  c \in Components /\ c \notin Touched(w)
                      /\ \A q \in Cohort : c \notin Touched(journal[q])
    OBVIOUS
  <2>1. c \in Components
    BY <1>1, PlanIs
  <2>2. \A q \in Cohort : q # r => c \notin Written(plan, q)
    <3>1. r \in next..(upTo - 1) /\ Cohort = next..(upTo - 1)
      BY DEF Cohort
    <3> QED BY <3>1, CohortInSerial DEF MayOverlap
  <2>3. c \notin Touched(w)
    <3>1. ASSUME c \in Touched(w) PROVE FALSE
      <4>1. PICK q \in next..(r - 1) : c \in Written(plan, q)
        BY <1>3, <3>1 DEF Progress, Writers
      <4>2. q \in Cohort /\ q # r
        BY <1>1, <1>2 DEF Cohort
      <4> QED BY <2>2, <4>1, <4>2
    <3> QED BY <3>1
  <2>4. ASSUME NEW q \in Cohort PROVE c \notin Touched(journal[q])
    <3>1. CASE q = r
      <4>1. journal[q] = <<>>
        BY <3>1 DEF IInv, Journals
      <4> QED BY <4>1 DEF Touched
    <3>2. CASE q # r
      BY <2>2, <3>2, JournalWithin
    <3> QED BY <3>1, <3>2
  <2> QED BY <2>1, <2>3, <2>4
<1> HIDE DEF w, d, w1, d1, b1
<1> DEFINE s0 == b0.state
           s == b.state
<1>8. s0 \in WorldStates(plan) /\ s \in WorldStates(plan)
  BY <1>5
<1>9. \A c \in plan.reads[r] : state.value[c] = s.value[c]
  <2> SUFFICES ASSUME NEW c \in plan.reads[r] PROVE state.value[c] = s.value[c]
    OBVIOUS
  <2>1. state.value[c] = s0.value[c]
    BY <1>7 DEF IInv, Within, Payloads
  <2>2. s.value[c] = s0.value[c]
    BY <1>3, <1>7 DEF Progress, Writers
  <2> QED BY <2>1, <2>2, Zenon
<1>10. SameFilters(plan, state, s, r)
  <2>1. SameFilters(plan, state, s0, r)
    BY <1>1 DEF IInv, Within, Sighted, HasBegun
  <2>2. s.lastRun[r] = s0.lastRun[r]
    <3>1. r \notin next..(r - 1)
      BY <1>2
    <3> QED BY <1>1, <1>3, <3>1 DEF Progress, Sights
  <2>3. \A c \in plan.reads[r] : s.changed[c] = s0.changed[c]
    <3> SUFFICES ASSUME NEW c \in plan.reads[r] PROVE s.changed[c] = s0.changed[c]
      OBVIOUS
    <3>1. s.changed = Replayed(s0, w).changed
      BY <1>3 DEF Progress, Positions
    <3> HIDE DEF s0, s
    <3>2. Replayed(s0, w).changed[c] = s0.changed[c]
      BY <1>1, <1>3, <1>7, <1>8, ReplayedBounds
    <3> QED BY <3>1, <3>2
  <2> QED BY <2>1, <2>2, <2>3 DEF SameFilters
<1>11. state.applied = s.applied
  BY <1>3 DEF Progress, Pending, IInv, Within, Base
<1> HIDE DEF s
<1>12. Observation(plan, state, r, run) = Observation(plan, s, r, run)
  BY <1>1, <1>9, <1>10, <1>11, SameObservation
<1> QED BY <1>6, <1>12 DEF s

(* What a worker leaves alone.                                             *)
LEMMA AnotherKeeps ==
    ASSUME IInv, phase = "working",
           UNCHANGED <<plan, phase, run, fault, next, passed, upTo, queue, verdict,
                       serial>>
    PROVE  /\ Systems' = Systems /\ Serial' = Serial /\ Cohort' = Cohort
           /\ Linked' /\ Between' /\ Frontiers' /\ AtEnd' /\ Truthful'
           /\ FailureSelection'
<1>1. Systems' = Systems /\ Serial' = Serial /\ Cohort' = Cohort
  BY DEF Systems, Serial, Cohort
<1>2. Linked'
  <2>1. run # 0
    BY WithinCohort
  <2> QED BY <1>1, <2>1 DEF IInv, Linked
<1>3. Between' /\ AtEnd' /\ Truthful' /\ FailureSelection'
  BY DEF Between, AtEnd, Truthful, FailureSelection
<1>4. Frontiers'
  BY DEF IInv, Frontiers
<1> QED BY <1>1, <1>2, <1>3, <1>4

(* Only a member of the cohort is launched or running.                     *)
LEMMA MemberIs ==
    ASSUME IInv, NEW r \in Systems, worker[r] \in Active
    PROVE  phase = "working" /\ r \in Cohort
<1>1. phase = "working"
  BY DEF IInv, Crew
<1>2. /\ next \in Nat /\ upTo \in Nat /\ r \in Nat
      /\ r \in Cohort <=> next <= r /\ r < upTo
  BY <1>1, WithinCohort
<1>3. worker[r] \notin {"idle", "success"}
  BY DEF Active
<1>4. ~ (r < next)
  BY <1>1, <1>3 DEF IInv, Crew
<1>5. ~ (r >= upTo)
  BY <1>1, <1>3 DEF IInv, Crew
<1> QED BY <1>1, <1>2, <1>4, <1>5

(* A member's worker moves on.                                             *)
LEMMA CrewKeeps ==
    ASSUME IInv, phase = "working", NEW r \in Cohort, NEW x \in Active \union Over,
           worker' = [worker EXCEPT ![r] = x],
           \A q \in Systems : q # r => journal'[q] = journal[q],
           UNCHANGED <<plan, phase, run, fault, next, passed, upTo, queue, verdict,
                       serial>>
    PROVE  /\ Crew' /\ worker' \in [Systems -> Conditions]
           /\ worker'[r] = x /\ \A q \in Systems : q # r => worker'[q] = worker[q]
<1>1. /\ next \in Nat /\ upTo \in Nat /\ Cohort \subseteq Systems
      /\ \A q \in Systems : q \in Cohort <=> next <= q /\ q < upTo
      /\ \A q \in Systems : q \in Nat
  BY WithinCohort
<1>2. Systems' = Systems /\ Cohort' = Cohort
  BY DEF Systems, Cohort
<1>3. worker \in [Systems -> Conditions] /\ r \in Systems
  BY <1>1 DEF IInv, Types
<1>4. /\ worker' \in [Systems -> Conditions]
      /\ worker'[r] = x /\ \A q \in Systems : q # r => worker'[q] = worker[q]
  BY <1>3 DEF Conditions
<1>5. ASSUME NEW q \in Systems, q < next
      PROVE  worker'[q] \in {"idle", "success"} /\ fault.system[q] = "none"
  <2>1. q # r
    BY <1>1, <1>5
  <2>2. worker[q] \in {"idle", "success"} /\ fault.system[q] = "none"
    BY <1>5 DEF IInv, Crew
  <2> QED BY <1>4, <2>1, <2>2
<1>6. ASSUME NEW q \in Systems, q >= upTo
      PROVE  worker'[q] = "idle" /\ journal'[q] = <<>>
  <2>1. q # r
    BY <1>1, <1>6
  <2>2. worker[q] = "idle" /\ journal[q] = <<>>
    BY <1>6 DEF IInv, Crew
  <2> QED BY <1>4, <2>1, <2>2
<1>7. ASSUME NEW q \in Cohort
      PROVE  /\ q \notin plan.invoker /\ fault.system[q] # "unprepared"
             /\ worker'[q] \in Active \union Over
  <2>1. /\ q \notin plan.invoker /\ fault.system[q] # "unprepared"
        /\ worker[q] \in Active \union Over
    BY DEF IInv, Crew
  <2> QED BY <1>1, <1>4, <2>1
<1>8. /\ plan.capacity > 0
      /\ \A p, q \in Cohort : p < q => ~ Conflict(p, q) /\ <<p, q>> \notin plan.edges
  BY DEF IInv, Crew
<1>9. \A p, q : Conflict(p, q)' = Conflict(p, q)
  BY DEF Conflict
<1>10. /\ phase' = "working"
       /\ (IF phase' = "working" THEN upTo' ELSE next') = upTo
  OBVIOUS
<1>11. /\ \A q \in Cohort' : /\ q \notin plan'.invoker
                             /\ fault'.system[q] # "unprepared"
                             /\ worker'[q] \in Active \union Over
       /\ \A p, q \in Cohort' :
              p < q => ~ Conflict(p, q)' /\ <<p, q>> \notin plan'.edges
  BY <1>2, <1>7, <1>8, <1>9
<1>12. /\ plan'.capacity > 0
       /\ \A q \in Systems' : q < next' =>
             worker'[q] \in {"idle", "success"} /\ fault'.system[q] = "none"
       /\ \A q \in Systems' : q >= upTo => worker'[q] = "idle" /\ journal'[q] = <<>>
  BY <1>2, <1>5, <1>6, <1>8
<1>13. Crew'
  BY <1>10, <1>11, <1>12, Zenon DEF Crew
<1> QED BY <1>4, <1>13

(* Begin: a member sees what the serial run shows it, because no member    *)
(* writes what it reads.                                                   *)
LEMMA BeginKeeps ==
    ASSUME IInv, NEW r \in Systems, Begin(r)
    PROVE  IInv'
<1> DEFINE t == Observed(plan, state, r, run)
           o == Observation(plan, state, r, run)
<1>1. /\ worker[r] = "launched" /\ worker' = [worker EXCEPT ![r] = "running"]
      /\ state' = t
      /\ UNCHANGED <<plan, phase, run, fault, next, passed, upTo, queue, journal,
                     admitted, verdict, serial>>
  BY DEF Begin
<1>2. phase = "working" /\ r \in Cohort
  BY <1>1, MemberIs DEF Active
<1>3. /\ plan \in Plans /\ run \in Nat /\ run > 0 /\ next \in Nat
      /\ Cohort \subseteq Systems /\ state \in WorldStates(plan)
      /\ state.cursor \in Nat
      /\ \A q \in Systems : q \in Nat /\ q \in Ranks(plan)
      /\ \A q \in Systems : q \in Cohort <=> next <= q /\ q < upTo
      /\ Settled(state, run)
  BY <1>2, WithinCohort
<1>4. /\ t \in WorldStates(plan)
      /\ t.value = state.value /\ t.changed = state.changed
      /\ t.cursor = state.cursor /\ t.applied = state.applied
      /\ t.callbacks = state.callbacks
      /\ t.lastRun = [state.lastRun EXCEPT ![r] = state.cursor]
      /\ t.seen = [state.seen EXCEPT ![r] = o]
  BY <1>3, ObservedIs
<1>5. o = Serial[r + 1].state.seen[r]
  BY <1>1, <1>2, SightIs
<1> HIDE DEF t, o
<1>6. /\ Systems' = Systems /\ Serial' = Serial /\ Cohort' = Cohort
      /\ Linked' /\ Between' /\ Frontiers' /\ AtEnd' /\ Truthful'
      /\ FailureSelection'
  BY <1>1, <1>2, AnotherKeeps
<1>7. /\ Crew' /\ worker' \in [Systems -> Conditions]
      /\ worker'[r] = "running" /\ \A q \in Systems : q # r => worker'[q] = worker[q]
  BY <1>1, <1>2, CrewKeeps DEF Active
<1>8. Types'
  BY <1>1, <1>4, <1>6, <1>7 DEF IInv, Types
<1>9. Journals'
  <2>1. ASSUME NEW q \in Cohort
        PROVE  /\ Len(journal[q]) <= Len(plan.writes[q])
               /\ \A i \in 1..Len(journal[q]) : journal[q][i] = plan.writes[q][i]
               /\ worker'[q] = "launched" => journal[q] = <<>>
               /\ worker'[q] = "success" => /\ Len(journal[q]) = Len(plan.writes[q])
                                            /\ fault.system[q] = "none"
               /\ worker'[q] \in UserFailures \union {"violation"} =>
                     worker'[q] = fault.system[q]
    <3>1. worker'[q] = worker[q] \/ worker'[q] = "running"
      BY <1>3, <1>7
    <3> QED BY <1>2, <3>1 DEF IInv, Journals, UserFailures
  <2> QED BY <1>1, <1>6, <2>1 DEF Journals
<1>10. Payloads' /\ Base'
  BY <1>1, <1>4, <1>6 DEF IInv, Within, Payloads, Base
<1>11. Sighted'
  <2>1. \A q \in Systems : q # r => t.seen[q] = state.seen[q] /\ t.lastRun[q] = state.lastRun[q]
    BY <1>4
  <2>2. t.seen[r] = o /\ t.lastRun[r] = state.cursor
    <3>1. DOMAIN state.lastRun = Ranks(plan) /\ DOMAIN state.seen = Ranks(plan)
      BY <1>3, WorldIs
    <3> QED BY <1>3, <1>4, <3>1
  <2>3. \A q \in Systems : q # r => (HasBegun(q)' <=> HasBegun(q))
    BY <1>6, <1>7 DEF HasBegun
  <2>4. HasBegun(r)'
    BY <1>2, <1>6, <1>7 DEF HasBegun
  <2>5. ASSUME NEW q \in Systems, q < next
        PROVE  t.seen[q] = Serial[next].state.seen[q]
    <3>1. q # r
      BY <1>2, <1>3, <2>5
    <3> QED BY <1>2, <2>1, <2>5, <3>1 DEF IInv, Within, Sighted
  <2>6. ASSUME NEW q \in Systems, HasBegun(q)'
        PROVE  /\ t.seen[q] = Serial[q + 1].state.seen[q]
               /\ t.lastRun[q] = t.cursor
    <3>1. CASE q = r
      BY <1>4, <1>5, <2>2, <3>1
    <3>2. CASE q # r
      <4>1. /\ state.seen[q] = Serial[q + 1].state.seen[q]
            /\ state.lastRun[q] = state.cursor
        BY <1>2, <2>3, <2>6, <3>2 DEF IInv, Within, Sighted
      <4> QED BY <1>4, <2>1, <3>2, <4>1
    <3> QED BY <3>1, <3>2
  <2>7. ASSUME NEW q \in Systems, ~ HasBegun(q)'
        PROVE  SameFilters(plan, t, Serial[next].state, q)
    <3>1. q # r /\ ~ HasBegun(q)
      BY <2>3, <2>4, <2>7
    <3>2. SameFilters(plan, state, Serial[next].state, q)
      BY <1>2, <3>1 DEF IInv, Within, Sighted
    <3> QED BY <1>4, <2>1, <3>1, <3>2 DEF SameFilters
  <2> QED BY <1>1, <1>6, <2>5, <2>6, <2>7 DEF Sighted
<1>12. Books'
  <2>1. Settled(t, run)
    <3>1. \A q \in DOMAIN t.lastRun : t.lastRun[q] <= t.cursor
      BY <1>3, <1>4 DEF Settled
    <3> QED BY <1>3, <1>4, <3>1 DEF Settled
  <2>2. Taken' = Taken /\ JournalTotal' = JournalTotal /\ JoinedJournal' = JoinedJournal
    BY <1>1 DEF Taken, JournalTotal, JoinedJournal
  <2> QED BY <1>1, <1>2, <1>4, <2>1, <2>2 DEF IInv, Books
<1> QED BY <1>6, <1>7, <1>8, <1>9, <1>10, <1>11, <1>12 DEF IInv, Within

(* A running worker that ends.                                             *)
LEMMA EndOfWorkerKeeps ==
    ASSUME IInv, NEW r \in Systems, worker[r] = "running", NEW x \in Over,
           worker' = [worker EXCEPT ![r] = x],
           x = "success" => /\ Len(journal[r]) = Len(plan.writes[r])
                            /\ fault.system[r] = "none",
           x \in UserFailures \union {"violation"} => x = fault.system[r],
           UNCHANGED <<plan, phase, run, fault, next, passed, upTo, state, queue,
                       journal, admitted, verdict, serial>>
    PROVE  IInv'
<1>1. phase = "working" /\ r \in Cohort
  BY MemberIs DEF Active
<1>2. Cohort \subseteq Systems
  BY <1>1, WithinCohort
<1>3. /\ Systems' = Systems /\ Serial' = Serial /\ Cohort' = Cohort
      /\ Linked' /\ Between' /\ Frontiers' /\ AtEnd' /\ Truthful'
      /\ FailureSelection'
  BY <1>1, AnotherKeeps
<1>4. /\ Crew' /\ worker' \in [Systems -> Conditions]
      /\ worker'[r] = x /\ \A q \in Systems : q # r => worker'[q] = worker[q]
  <2>1. x \in Active \union Over
    OBVIOUS
  <2> QED BY <1>1, <2>1, CrewKeeps
<1>5. Types'
  BY <1>3, <1>4 DEF IInv, Types
<1>6. x # "launched"
  BY DEF Over, UserFailures, FrameworkFailures
<1>7. Journals'
  <2>1. ASSUME NEW q \in Cohort
        PROVE  /\ Len(journal[q]) <= Len(plan.writes[q])
               /\ \A i \in 1..Len(journal[q]) : journal[q][i] = plan.writes[q][i]
               /\ worker'[q] = "launched" => journal[q] = <<>>
               /\ worker'[q] = "success" => /\ Len(journal[q]) = Len(plan.writes[q])
                                            /\ fault.system[q] = "none"
               /\ worker'[q] \in UserFailures \union {"violation"} =>
                     worker'[q] = fault.system[q]
    <3>1. \/ q # r /\ worker'[q] = worker[q]
          \/ q = r /\ worker'[q] = x
      BY <1>2, <1>4
    <3> QED BY <1>1, <1>6, <3>1 DEF IInv, Journals
  <2> QED BY <1>3, <2>1 DEF Journals
<1>8. Within'
  <2>1. \A q \in Systems : HasBegun(q)' <=> HasBegun(q)
    BY <1>3, <1>4, <1>6 DEF HasBegun
  <2> QED BY <1>3, <2>1 DEF IInv, Within, Payloads, Base, Sighted
<1>9. Books'
  BY DEF IInv, Books, Taken, JournalTotal, JoinedJournal
<1> QED BY <1>3, <1>4, <1>5, <1>7, <1>8, <1>9 DEF IInv

(* Finish: a member that ends without failure has recorded all it writes.  *)
LEMMA FinishKeeps ==
    ASSUME IInv, NEW r \in Systems, Finish(r)
    PROVE  IInv'
<1> DEFINE x == IF fault.system[r] = "none" THEN "success" ELSE fault.system[r]
<1>1. /\ worker[r] = "running" /\ worker' = [worker EXCEPT ![r] = x]
      /\ fault.system[r] = "none" => Len(journal[r]) = Len(plan.writes[r])
      /\ UNCHANGED <<plan, phase, run, fault, next, passed, upTo, state, queue,
                     journal, admitted, verdict, serial>>
  BY DEF Finish
<1>2. phase = "working" /\ r \in Cohort
  BY <1>1, MemberIs DEF Active
<1>3. fault.system[r] \in Fates /\ fault.system[r] # "unprepared"
  BY <1>2 DEF IInv, Types, Crew
<1>4. /\ x \in Over
      /\ x = "success" => fault.system[r] = "none"
      /\ x \in UserFailures \union {"violation"} => x = fault.system[r]
  BY <1>3 DEF Fates, UserFailures, FrameworkFailures, Over
<1> HIDE DEF x
<1> QED BY <1>1, <1>4, EndOfWorkerKeeps

(* One more event counts once, in the cohort's journal and in the run's.   *)
LEMMA OneMoreEvent ==
    ASSUME IInv, phase = "working", NEW r \in Cohort, NEW c \in Components,
           journal' = [journal EXCEPT ![r] = Append(journal[r], c)],
           plan' = plan, next' = next, upTo' = upTo
    PROVE  /\ JournalTotal \in Nat /\ JournalTotal' = JournalTotal + 1
           /\ Len(JoinedJournal') = Len(JoinedJournal) + 1
           /\ journal' \in [Systems -> Seq(Components)]
           /\ journal'[r] = Append(journal[r], c)
           /\ \A q \in Systems : q # r => journal'[q] = journal[q]
<1>1. /\ plan \in Plans /\ plan.size \in Nat /\ Cohort \subseteq Systems
      /\ next \in Nat /\ upTo \in Nat /\ next < upTo /\ upTo <= plan.size
      /\ journal \in [Systems -> Seq(Components)]
  BY WithinCohort
<1>2. Systems = 0..(plan.size - 1) /\ Cohort = next..(upTo - 1)
  BY DEF Systems, Ranks, Cohort
<1>3. PICK a : a = journal
  OBVIOUS
<1>4. PICK b : b = journal'
  OBVIOUS
<1>5. /\ a \in [Systems -> Seq(Components)] /\ b \in [Systems -> Seq(Components)]
      /\ b[r] = Append(a[r], c) /\ \A q \in Systems : q # r => b[q] = a[q]
  <2>1. r \in Systems /\ journal[r] \in Seq(Components)
    BY <1>1
  <2>2. Append(journal[r], c) \in Seq(Components)
    BY <2>1
  <2> QED BY <1>1, <1>3, <1>4, <2>1, <2>2
<1>6. Len(b[r]) = Len(a[r]) + 1
  <2>1. a[r] \in Seq(Components)
    BY <1>1, <1>5
  <2> QED BY <1>5, <2>1
<1>7. JournalTotal \in Nat /\ JournalTotal' = JournalTotal + 1
  <2> DEFINE lo == 0
             hi == plan.size
  <2>1. lo \in Int /\ hi \in Int /\ lo <= hi /\ lo..(hi - 1) = Systems
    BY <1>1, <1>2
  <2> HIDE DEF lo, hi
  <2>2. PartGrows(Components, a, b, lo, hi, r, 1)
    BY <1>1, <1>5, <1>6, <2>1 DEF PartGrows
  <2>3. Len(Concatenation(b, lo, hi)) = Len(Concatenation(a, lo, hi)) + 1
    BY <2>1, <2>2, ConcatenationGrows
  <2>4. Concatenation(a, lo, hi) \in Seq(Components)
    <3>1. \A q \in lo..(hi - 1) : a[q] \in Seq(Components)
      BY <1>5, <2>1
    <3> QED BY <2>1, <3>1, ConcatenationTouches
  <2>5. Len(Concatenation(a, lo, hi)) \in Nat
    BY <2>4
  <2>6. JournalTotal = Len(Concatenation(a, lo, hi))
        /\ JournalTotal' = Len(Concatenation(b, lo, hi))
    BY <1>3, <1>4 DEF JournalTotal, lo, hi
  <2> QED BY <2>3, <2>5, <2>6, Zenon
<1>8. Len(JoinedJournal') = Len(JoinedJournal) + 1
  <2>1. next \in Int /\ upTo \in Int /\ next <= upTo /\ next..(upTo - 1) = Cohort
    BY <1>1, <1>2
  <2>2. PartGrows(Components, a, b, next, upTo, r, 1)
    BY <1>1, <1>5, <1>6, <2>1 DEF PartGrows
  <2>3. Len(Concatenation(b, next, upTo)) = Len(Concatenation(a, next, upTo)) + 1
    BY <2>1, <2>2, ConcatenationGrows
  <2> QED BY <1>3, <1>4, <2>3 DEF JoinedJournal
<1> QED BY <1>3, <1>4, <1>5, <1>7, <1>8

(* Mutate: one more event of one member, within the room of the cursor.    *)
LEMMA MutateKeeps ==
    ASSUME IInv, NEW r \in Systems, Mutate(r)
    PROVE  IInv'
<1> DEFINE w == plan.writes[r]
           j == journal[r]
           n == Len(j)
<1>1. PICK c : c = w[n + 1]
  OBVIOUS
<1> DEFINE t == Mutated(state, c, r, run)
<1>2. /\ worker[r] = "running" /\ n < Len(w)
      /\ IF admitted < CursorMax - state.cursor
         THEN /\ admitted' = admitted + 1
              /\ journal' = [journal EXCEPT ![r] = Append(journal[r], c)]
              /\ state' = t
              /\ UNCHANGED worker
         ELSE /\ worker' = [worker EXCEPT ![r] = "exhausted"]
              /\ UNCHANGED <<admitted, journal, state>>
      /\ UNCHANGED <<plan, phase, run, fault, next, passed, upTo, queue, verdict,
                     serial>>
  BY <1>1 DEF Mutate
<1>3. phase = "working" /\ r \in Cohort
  BY <1>2, MemberIs DEF Active
<1>4. /\ plan \in Plans /\ run \in Nat /\ run > 0 /\ next \in Nat /\ upTo \in Nat
      /\ Cohort \subseteq Systems /\ state \in WorldStates(plan)
      /\ state.cursor \in Nat /\ admitted \in Nat /\ CursorMax \in Nat
      /\ \A q \in Systems : q \in Nat /\ q \in Ranks(plan)
      /\ journal \in [Systems -> Seq(Components)]
      /\ serial[0].cursor \in Nat
      /\ Settled(state, run)
  BY <1>3, WithinCohort
<1>5. CASE ~ (admitted < CursorMax - state.cursor)
  <2>1. /\ worker' = [worker EXCEPT ![r] = "exhausted"]
        /\ UNCHANGED <<admitted, journal, state>>
    BY <1>2, <1>5
  <2> DEFINE x == "exhausted"
  <2>2. /\ x \in Over /\ x # "success" /\ x \notin UserFailures \union {"violation"}
        /\ worker' = [worker EXCEPT ![r] = x]
    BY <2>1 DEF Over, FrameworkFailures, UserFailures
  <2> HIDE DEF x
  <2> QED BY <1>2, <2>1, <2>2, EndOfWorkerKeeps
<1>6. CASE admitted < CursorMax - state.cursor
  <2>1. /\ admitted' = admitted + 1
        /\ journal' = [journal EXCEPT ![r] = Append(journal[r], c)]
        /\ state' = t /\ worker' = worker
    BY <1>2, <1>6
  <2>2. /\ w \in Seq(Components) /\ j \in Seq(Components) /\ n \in Nat
        /\ n + 1 \in 1..Len(w) /\ c \in Components /\ c \in Written(plan, r)
    <3>1. w \in Seq(Components) /\ j \in Seq(Components)
      BY <1>4, PlanIs
    <3> HIDE DEF w, j
    <3>2. n \in Nat /\ Len(w) \in Nat /\ n + 1 \in 1..Len(w) /\ n + 1 \in DOMAIN w
      BY <1>2, <3>1
    <3>3. c \in Components
      BY <1>1, <3>1, <3>2
    <3>4. c \in {w[i] : i \in DOMAIN w}
      BY <1>1, <3>2
    <3> QED BY <3>1, <3>2, <3>3, <3>4 DEF Written, w
  <2>3. /\ t \in WorldStates(plan)
        /\ t.value = [state.value EXCEPT ![c] = <<run, r>>]
        /\ t.changed = state.changed
        /\ t.cursor = state.cursor /\ t.applied = state.applied
        /\ t.callbacks = state.callbacks
        /\ t.lastRun = state.lastRun /\ t.seen = state.seen
    <3>1. r \in Ranks(plan)
      BY <1>4
    <3>2. t \in WorldStates(plan)
      BY <1>4, <2>2, <3>1, MutatedIs
    <3>3. t.value = [state.value EXCEPT ![c] = <<run, r>>]
      BY <1>4 DEF Mutated, WorldStates
    <3>4. /\ t.changed = state.changed
          /\ t.cursor = state.cursor /\ t.applied = state.applied
          /\ t.callbacks = state.callbacks
          /\ t.lastRun = state.lastRun /\ t.seen = state.seen
      BY <1>4 DEF Mutated, WorldStates
    <3> QED BY <3>2, <3>3, <3>4
  <2> HIDE DEF t
  <2>4. /\ JournalTotal \in Nat /\ JournalTotal' = JournalTotal + 1
        /\ Len(JoinedJournal') = Len(JoinedJournal) + 1
        /\ journal' \in [Systems -> Seq(Components)]
        /\ journal'[r] = Append(j, c)
        /\ \A q \in Systems : q # r => journal'[q] = journal[q]
    BY <1>2, <1>3, <2>1, <2>2, OneMoreEvent
  <2>5. /\ Systems' = Systems /\ Serial' = Serial /\ Cohort' = Cohort
        /\ Linked' /\ Between' /\ Frontiers' /\ AtEnd' /\ Truthful'
        /\ FailureSelection'
    BY <1>2, <1>3, AnotherKeeps
  <2>6. Crew'
    <3> DEFINE x == "running"
    <3>1. x \in Active \union Over /\ worker' = [worker EXCEPT ![r] = x]
      <4>1. worker \in [Systems -> Conditions]
        BY DEF IInv, Types
      <4> QED BY <1>2, <2>1, <4>1 DEF Active
    <3> HIDE DEF x
    <3> QED BY <1>2, <1>3, <2>4, <3>1, CrewKeeps
  <2>7. Types'
    <3>1. admitted' \in Nat
      BY <1>4, <2>1
    <3> QED BY <1>2, <2>1, <2>3, <2>4, <2>5, <3>1 DEF IInv, Types
  <2>8. Journals'
    <3>1. ASSUME NEW q \in Cohort
          PROVE  /\ Len(journal'[q]) <= Len(plan.writes[q])
                 /\ \A i \in 1..Len(journal'[q]) : journal'[q][i] = plan.writes[q][i]
                 /\ worker[q] = "launched" => journal'[q] = <<>>
                 /\ worker[q] = "success" => /\ Len(journal'[q]) = Len(plan.writes[q])
                                             /\ fault.system[q] = "none"
                 /\ worker[q] \in UserFailures \union {"violation"} =>
                       worker[q] = fault.system[q]
      <4>1. CASE q # r
        <5>1. journal'[q] = journal[q]
          BY <1>4, <2>4, <4>1
        <5> QED BY <1>3, <5>1 DEF IInv, Journals
      <4>2. CASE q = r
        <5>1. \A i \in 1..n : j[i] = w[i]
          BY <1>3 DEF IInv, Journals
        <5>2. worker[q] \notin {"launched", "success"} \union UserFailures \union {"violation"}
          BY <1>2, <4>2 DEF UserFailures
        <5> HIDE DEF w, j
        <5>3. Append(j, c) \in Seq(Components) /\ Len(Append(j, c)) = n + 1
              /\ \A i \in 1..(n + 1) : Append(j, c)[i] = IF i = n + 1 THEN c ELSE j[i]
          BY <2>2
        <5>4. \A i \in 1..(n + 1) : Append(j, c)[i] = w[i]
          <6> SUFFICES ASSUME NEW i \in 1..(n + 1) PROVE Append(j, c)[i] = w[i]
            OBVIOUS
          <6>1. CASE i = n + 1
            BY <1>1, <5>3, <6>1
          <6>2. CASE i # n + 1
            <7>1. i \in 1..n
              BY <2>2, <6>2
            <7> QED BY <5>1, <5>3, <6>2, <7>1
          <6> QED BY <6>1, <6>2
        <5>5. Len(Append(j, c)) <= Len(w)
          BY <2>2, <5>3
        <5> QED BY <2>4, <4>2, <5>2, <5>3, <5>4, <5>5 DEF w
      <4> QED BY <4>1, <4>2
    <3> QED BY <1>2, <2>1, <2>5, <3>1 DEF Journals
  <2>9. /\ Touched(journal'[r]) = Touched(j) \union {c}
        /\ \A q \in Systems : q # r => Touched(journal'[q]) = Touched(journal[q])
    <3>1. Touched(Append(j, c)) = Touched(j) \union {c}
      <4> HIDE DEF j
      <4>1. /\ DOMAIN j = 1..n /\ DOMAIN Append(j, c) = 1..(n + 1)
            /\ \A i \in 1..n : Append(j, c)[i] = j[i]
            /\ Append(j, c)[n + 1] = c
        BY <2>2
      <4>2. \A i \in 1..(n + 1) : i \in 1..n \/ i = n + 1
        BY <2>2
      <4>3. n + 1 \in 1..(n + 1) /\ \A i \in 1..n : i \in 1..(n + 1)
        BY <2>2
      <4> HIDE DEF n
      <4> QED BY <4>1, <4>2, <4>3 DEF Touched
    <3> QED BY <2>4, <3>1
  <2>10. Payloads'
    <3>1. ASSUME NEW x \in Components, \A q \in Cohort : x \notin Touched(journal'[q])
          PROVE  t.value[x] = Serial[next].state.value[x]
      <4>1. x # c /\ \A q \in Cohort : x \notin Touched(journal[q])
        BY <1>3, <1>4, <2>9, <3>1
      <4>2. state.value[x] = Serial[next].state.value[x]
        BY <1>3, <4>1 DEF IInv, Within, Payloads
      <4> QED BY <2>3, <4>1, <4>2
    <3>2. ASSUME NEW q \in Cohort, NEW x \in Touched(journal'[q])
          PROVE  t.value[x] = <<run, q>>
      <4>1. CASE x = c
        <5>1. q = r
          <6> SUFFICES ASSUME q # r PROVE FALSE
            OBVIOUS
          <6>1. c \in Written(plan, q)
            BY <1>3, <1>4, <2>9, <3>2, <4>1, JournalWithin
          <6>2. q \in next..(upTo - 1) /\ r \in next..(upTo - 1)
            BY <1>3 DEF Cohort
          <6> QED BY <1>3, <2>2, <6>1, <6>2, CohortInSerial DEF MayOverlap
        <5>2. DOMAIN state.value = Components
          BY <1>4 DEF WorldStates
        <5> QED BY <2>2, <2>3, <4>1, <5>1, <5>2
      <4>2. CASE x # c
        <5>1. x \in Touched(journal[q])
          BY <1>4, <2>9, <3>2, <4>2
        <5>2. state.value[x] = <<run, q>>
          BY <1>3, <5>1 DEF IInv, Within, Payloads
        <5>3. x \in Components
          <6>1. journal[q] \in Seq(Components)
            BY <1>4
          <6> QED BY <5>1, <6>1 DEF Touched
        <5>4. DOMAIN state.value = Components
          BY <1>4 DEF WorldStates
        <5> QED BY <2>3, <4>2, <5>2, <5>3, <5>4
      <4> QED BY <4>1, <4>2
    <3> QED BY <1>2, <2>1, <2>5, <3>1, <3>2 DEF Payloads
  <2>11. Base'
    BY <1>2, <2>1, <2>3, <2>5 DEF IInv, Within, Base
  <2>12. Sighted'
    <3>1. \A q \in Systems : HasBegun(q)' <=> HasBegun(q)
      BY <2>1, <2>5 DEF HasBegun
    <3>2. \A q : SameFilters(plan, t, Serial[next].state, q)
                   <=> SameFilters(plan, state, Serial[next].state, q)
      BY <2>3 DEF SameFilters
    <3> QED BY <1>2, <1>3, <2>1, <2>3, <2>5, <3>1, <3>2 DEF IInv, Within, Sighted
  <2>13. Books'
    <3>1. Settled(t, run)
      <4>1. \A x \in Components : t.value[x] = state.value[x] \/ t.value[x] = <<run, r>>
        BY <1>4, <2>3 DEF WorldStates
      <4>2. ASSUME NEW x \in Components PROVE t.value[x][1] <= run
        <5>1. CASE t.value[x] = state.value[x]
          BY <1>4, <5>1 DEF Settled
        <5>2. CASE t.value[x] = <<run, r>>
          BY <1>4, <5>2
        <5> QED BY <4>1, <5>1, <5>2
      <4> QED BY <1>4, <2>3, <4>2 DEF Settled
    <3> DEFINE a == Len(state.applied)
               b == Len(serial[0].applied)
               cu == state.cursor
               ba == serial[0].cursor
               jt == JournalTotal
               jj == Len(JoinedJournal)
    <3>2. /\ cu + admitted = ba + jt + a - b
          /\ admitted = jj /\ cu >= ba
      BY <1>3 DEF IInv, Books, Taken
    <3>3. a \in Nat /\ b \in Nat /\ cu \in Nat /\ ba \in Nat /\ jt \in Nat
      <4>1. state.applied \in Seq(Stamps)
        BY <1>4, WorldIs
      <4>2. serial[0].applied \in Seq(Stamps)
        <5>1. 0 \in 0..plan.size
          BY <1>4, PlanIs
        <5>2. serial[0] \in WorldStates(plan)
          BY <5>1 DEF IInv, Types
        <5> QED BY <1>4, <5>2, WorldIs
      <4>3. a \in Nat /\ b \in Nat
        BY <4>1, <4>2
      <4> QED BY <1>4, <2>4, <4>3, Zenon
    <3>4. /\ Taken' = admitted + 1 /\ admitted' = admitted + 1
          /\ JournalTotal' = jt + 1 /\ Len(JoinedJournal') = jj + 1
          /\ state'.cursor = cu /\ Len(state'.applied) = a /\ serial' = serial
      BY <1>2, <1>3, <2>1, <2>3, <2>4 DEF Taken
    <3>5. admitted < CursorMax - cu
      BY <1>6
    <3> HIDE DEF a, b, cu, ba, jt, jj
    <3>6. /\ cu + (admitted + 1) <= CursorMax
          /\ cu + (admitted + 1) = ba + (jt + 1) + a - b
          /\ admitted + 1 = jj + 1
      <4>1. admitted \in Nat /\ CursorMax \in Nat
        BY <1>4
      <4>2. /\ cu + (admitted + 1) <= CursorMax
            /\ cu + (admitted + 1) = ba + (jt + 1) + a - b
        BY <4>1, <3>2, <3>3, <3>5
      <4> QED BY <3>2, <4>2
    <3>7. /\ state'.cursor + Taken' <= CursorMax
          /\ admitted' = Len(JoinedJournal')
          /\ state'.cursor + Taken' = ba + JournalTotal' + Len(state'.applied) - b
          /\ state'.cursor >= ba
      BY <3>2, <3>4, <3>6, Zenon
    <3> QED BY <1>2, <2>1, <3>1, <3>4, <3>7, Zenon DEF Books, a, b, ba
  <2> QED BY <2>5, <2>6, <2>7, <2>8, <2>10, <2>11, <2>12, <2>13 DEF IInv, Within
<1> QED BY <1>5, <1>6

-----------------------------------------------------------------------------
(* The end of a cohort.                                                    *)

(* The world in which the cohort's journal is replayed.                    *)
LEMMA ReplayIs ==
    ASSUME IInv, phase = "working", NEW t, t = Replayed(state, JoinedJournal)
    PROVE  /\ JoinedJournal \in Seq(Components)
           /\ t \in WorldStates(plan)
           /\ Advanced(t, serial[0].cursor, run)
           /\ t.cursor <= CursorMax
           /\ t.cursor = serial[0].cursor + JournalTotal
                         + Len(t.applied) - Len(serial[0].applied)
           /\ t.applied = state.applied /\ t.callbacks = state.callbacks
<1>1. /\ plan \in Plans /\ run \in Nat /\ next \in Nat /\ upTo \in Nat /\ next < upTo
      /\ Cohort \subseteq Systems /\ state \in WorldStates(plan)
      /\ state.cursor \in Nat /\ CursorMax \in Nat
      /\ journal \in [Systems -> Seq(Components)]
      /\ serial[0].cursor \in Nat
      /\ Kept(Serial[next], serial[0].cursor, run)
      /\ Settled(state, run)
  BY WithinCohort
<1> DEFINE j == JoinedJournal
<1>2. /\ j \in Seq(Components)
      /\ \A x : x \in Touched(j) <=> \E q \in Cohort : x \in Touched(journal[q])
  <2>1. /\ next \in Int /\ upTo \in Int /\ next <= upTo
        /\ \A q \in next..(upTo - 1) : journal[q] \in Seq(Components)
    BY <1>1 DEF Cohort
  <2>2. /\ Concatenation(journal, next, upTo) \in Seq(Components)
        /\ \A x : x \in Touched(Concatenation(journal, next, upTo)) <=>
                     \E q \in next..(upTo - 1) : x \in Touched(journal[q])
    BY <2>1, ConcatenationTouches
  <2> QED BY <2>2 DEF JoinedJournal, Cohort
<1>3. /\ state.cursor + admitted <= CursorMax /\ admitted = Len(j)
      /\ state.cursor + admitted = serial[0].cursor + JournalTotal
                         + Len(state.applied) - Len(serial[0].applied)
      /\ state.cursor >= serial[0].cursor
  BY DEF IInv, Books, Taken
<1> HIDE DEF j
<1>4. t = Replayed(state, j)
  BY DEF j
<1>5. /\ t \in WorldStates(plan)
      /\ t.value = state.value
      /\ t.cursor = state.cursor + Len(j) /\ t.applied = state.applied
      /\ t.callbacks = state.callbacks
      /\ t.lastRun = state.lastRun /\ t.seen = state.seen
  BY <1>1, <1>2, <1>4, ReplayedIs
<1>6. \A c \in Components :
         /\ c \notin Touched(j) => t.changed[c] = state.changed[c]
         /\ c \in Touched(j) => /\ t.changed[c] > state.cursor
                                /\ t.changed[c] <= state.cursor + Len(j)
  BY <1>1, <1>2, <1>4, ReplayedBounds
<1>7. t.cursor = state.cursor + admitted
  BY <1>3, <1>5
<1>8. t.cursor \in Nat /\ t.cursor >= state.cursor /\ Len(j) \in Nat
      /\ \A c \in Components : t.changed[c] \in Nat /\ state.changed[c] \in Nat
  <2>1. Len(j) \in Nat
    BY <1>2
  <2>2. t.cursor \in Nat /\ state.cursor \in Nat
    BY <1>1, <1>5, WorldIs
  <2>3. t.cursor >= state.cursor
    BY <1>5, <2>1, <2>2
  <2>4. \A c \in Components : t.changed[c] \in Nat /\ state.changed[c] \in Nat
    BY <1>1, <1>5, WorldIs
  <2> QED BY <2>1, <2>2, <2>3, <2>4
<1>9. Settled(t, run)
  <2>1. ASSUME NEW c \in Components PROVE t.changed[c] <= t.cursor
    <3>1. state.changed[c] <= state.cursor
      BY <1>1 DEF Settled
    <3> QED BY <1>1, <1>5, <1>6, <1>8, <3>1
  <2>2. \A c \in Components : t.value[c][1] <= run
    BY <1>1, <1>5 DEF Settled
  <2>3. ASSUME NEW r \in DOMAIN t.lastRun PROVE t.lastRun[r] <= t.cursor
    <3>1. state.lastRun[r] <= state.cursor /\ state.lastRun[r] \in Nat
      <4>1. r \in DOMAIN state.lastRun
        BY <1>5, <2>3
      <4> QED BY <1>1, <4>1, WorldIs DEF Settled
    <3> QED BY <1>1, <1>5, <1>8, <3>1
  <2> QED BY <2>1, <2>2, <2>3 DEF Settled
<1>10. ASSUME NEW c \in Components, t.value[c][1] = run
       PROVE  t.changed[c] > serial[0].cursor
  <2>1. CASE c \in Touched(j)
    BY <1>1, <1>3, <1>6, <1>8, <2>1
  <2>2. CASE c \notin Touched(j)
    <3>1. /\ state.value[c] = Serial[next].state.value[c]
          /\ state.changed[c] = Serial[next].state.changed[c]
      BY <1>2, <2>2 DEF IInv, Within, Payloads, Base
    <3>2. Serial[next].state.value[c][1] = run
      BY <1>5, <1>10, <3>1
    <3>3. Serial[next].state.changed[c] > serial[0].cursor
      BY <1>1, <3>2 DEF Kept, Advanced
    <3> QED BY <1>6, <2>2, <3>1, <3>3
  <2> QED BY <2>1, <2>2
<1>11. t.cursor >= serial[0].cursor
  BY <1>1, <1>3, <1>8
<1>12. t.cursor <= CursorMax
       /\ t.cursor = serial[0].cursor + JournalTotal
                         + Len(t.applied) - Len(serial[0].applied)
  BY <1>3, <1>5, <1>7, Zenon
<1> QED BY <1>2, <1>5, <1>9, <1>10, <1>11, <1>12 DEF Advanced, j

(* When all its members have ended, no failure is elsewhere.               *)
LEMMA JoinedIs ==
    ASSUME IInv, Joined
    PROVE  /\ phase = "working"
           /\ \A r \in Systems : worker[r] \notin Active
           /\ \A r \in Systems : r \notin Cohort => worker[r] \in {"idle", "success"}
           /\ \A kinds : Failed(kinds) \in SUBSET Nat
           /\ {r \in Systems : worker[r] \in FrameworkFailures}
                 = Failed(FrameworkFailures)
<1>1. phase = "working" /\ \A r \in Cohort : worker[r] \in Over
  BY DEF Joined
<1>2. /\ next \in Nat /\ upTo \in Nat /\ Cohort \subseteq Systems
      /\ \A r \in Systems : r \in Nat
      /\ \A r \in Systems : r \in Cohort <=> next <= r /\ r < upTo
  BY <1>1, WithinCohort
<1>3. ASSUME NEW r \in Systems, r \notin Cohort
      PROVE  worker[r] \in {"idle", "success"}
  <2>1. r < next \/ r >= upTo
    BY <1>2, <1>3
  <2> QED BY <1>1, <2>1 DEF IInv, Crew
<1>4. \A r \in Systems : worker[r] \notin Active
  BY <1>1, <1>3 DEF Over, Active, UserFailures, FrameworkFailures
<1>5. \A kinds : Failed(kinds) \in SUBSET Nat
  BY <1>2 DEF Failed
<1>6. {r \in Systems : worker[r] \in FrameworkFailures} = Failed(FrameworkFailures)
  BY <1>2, <1>3 DEF Failed, FrameworkFailures
<1> QED BY <1>1, <1>3, <1>4, <1>5, <1>6

(* A cohort that fails ends the run.                                       *)
LEMMA FailingKeeps ==
    ASSUME IInv, Joined, phase' = "idle", queue' = <<>>,
           UNCHANGED <<plan, run, fault, next, passed, upTo, worker, journal,
                       admitted, serial>>,
           \/ state' = Replayed(state, JoinedJournal)
           \/ state' = state /\ Failed({"violation"}) # {},
           verdict'.kind \notin {"unreached", "ok"}, FailureSelection'
    PROVE  IInv'
<1>1. /\ phase = "working"
      /\ \A r \in Systems : worker[r] \notin Active
  BY JoinedIs
<1>2. /\ plan \in Plans /\ run > 0 /\ upTo \in 0..plan.size /\ admitted \in Nat
      /\ state \in WorldStates(plan) /\ state.cursor \in Nat /\ CursorMax \in Nat
      /\ journal \in [Systems -> Seq(Components)] /\ Cohort \subseteq Systems
      /\ Settled(state, run)
  BY <1>1, WithinCohort
<1>3. Systems' = Systems /\ JournalTotal' = JournalTotal
  BY DEF Systems, JournalTotal
<1>4. /\ IsPrefixOf(state.applied, serial[plan.size].applied)
      /\ IsPrefixOf(state.callbacks, serial[plan.size].callbacks)
  BY ImpliesPublishedPrefix DEF PublishedPrefix
<1>5. CASE state' = Replayed(state, JoinedJournal)
  <2>1. PICK t : t = state'
    OBVIOUS
  <2>2. /\ t \in WorldStates(plan)
        /\ Advanced(t, serial[0].cursor, run)
        /\ t.cursor <= CursorMax
        /\ t.cursor = serial[0].cursor + JournalTotal
                      + Len(t.applied) - Len(serial[0].applied)
        /\ t.applied = state.applied /\ t.callbacks = state.callbacks
    <3>1. t = Replayed(state, JoinedJournal)
      BY <1>5, <2>1, Zenon
    <3> QED BY <1>1, <3>1, ReplayIs
  <2>3. Truthful'
    BY <1>3, <2>1, <2>2 DEF Truthful, Advanced
  <2>4. Settled(t, run)
    BY <2>2 DEF Advanced
  <2> QED BY <1>1, <1>2, <1>4, <2>1, <2>2, <2>3, <2>4, EndingKeeps
<1>6. CASE state' = state /\ Failed({"violation"}) # {}
  <2>1. Truthful'
    <3>1. \E r \in Systems : worker[r] = "violation"
      BY <1>2, <1>6 DEF Failed
    <3> QED BY <1>3, <3>1 DEF Truthful
  <2>2. state.cursor <= CursorMax
    <3> DEFINE cu == state.cursor
    <3>1. cu + admitted <= CursorMax
      BY <1>1 DEF IInv, Books, Taken
    <3>2. cu \in Nat /\ admitted \in Nat /\ CursorMax \in Nat
      BY <1>2
    <3> HIDE DEF cu
    <3>3. cu <= CursorMax
      BY <3>1, <3>2
    <3> QED BY <3>3 DEF cu
  <2> QED BY <1>1, <1>2, <1>4, <1>6, <2>1, <2>2, EndingKeeps
<1> QED BY <1>5, <1>6

(* A failure of the executor's own returns, with the admitted events       *)
(* marked.                                                                 *)
LEMMA ReconcileFrameworkKeeps ==
    ASSUME IInv, ReconcileFramework
    PROVE  IInv'
<1> DEFINE F == Failed(FrameworkFailures)
           r == First(F)
<1>1. /\ Joined /\ F # {}
      /\ state' = IF Failed({"violation"}) = {}
                  THEN Replayed(state, JoinedJournal) ELSE state
      /\ phase' = "idle" /\ verdict' = [kind |-> worker[r], rank |-> r] /\ queue' = <<>>
      /\ UNCHANGED <<plan, run, fault, next, passed, upTo, worker, journal,
                     admitted, serial>>
  BY DEF ReconcileFramework, EndRun
<1>2. /\ F \in SUBSET Nat
      /\ {q \in Systems : worker[q] \in FrameworkFailures} = F
  BY <1>1, JoinedIs
<1> HIDE DEF F
<1>3. r \in F /\ \A q \in F : r <= q
  BY <1>1, <1>2, FirstIs
<1> HIDE DEF r
<1>4. worker[r] \in FrameworkFailures
  BY <1>3 DEF F, Failed
<1>5. FailureSelection'
  <2>1. {q \in Systems' : worker'[q] \in FrameworkFailures} = F
    <3>1. Systems' = Systems
      BY <1>1 DEF Systems
    <3> QED BY <1>1, <1>2, <3>1
  <2>2. verdict'.kind = worker'[r] /\ verdict'.rank = r /\ verdict'.kind \notin UserFailures
    BY <1>1, <1>4 DEF FrameworkFailures, UserFailures
  <2> QED BY <1>3, <2>1, <2>2 DEF FailureSelection
<1>6. verdict'.kind \notin {"unreached", "ok"}
  BY <1>1, <1>4 DEF FrameworkFailures
<1> QED BY <1>1, <1>5, <1>6, FailingKeeps

(* So does the first failure of a member.                                  *)
LEMMA ReconcileFailureKeeps ==
    ASSUME IInv, ReconcileFailure
    PROVE  IInv'
<1> DEFINE F == Failed(UserFailures)
           r == First(F)
<1>1. /\ Joined /\ F # {} /\ Failed(FrameworkFailures) = {}
      /\ state' = Replayed(state, JoinedJournal)
      /\ phase' = "idle" /\ verdict' = [kind |-> worker[r], rank |-> r] /\ queue' = <<>>
      /\ UNCHANGED <<plan, run, fault, next, passed, upTo, worker, journal,
                     admitted, serial>>
  BY DEF ReconcileFailure, EndRun
<1>2. /\ F \in SUBSET Nat /\ phase = "working"
      /\ {q \in Systems : worker[q] \in FrameworkFailures} = {}
  BY <1>1, JoinedIs
<1> HIDE DEF F
<1>3. r \in F /\ \A q \in F : r <= q
  BY <1>1, <1>2, FirstIs
<1> HIDE DEF r
<1>4. r \in Cohort /\ worker[r] \in UserFailures
  BY <1>3 DEF F, Failed
<1>5. fault.system[r] = worker[r]
  BY <1>2, <1>4 DEF IInv, Journals
<1>6. /\ next \in Nat /\ upTo \in Nat /\ Cohort \subseteq Systems
      /\ plan.size \in Nat /\ upTo <= plan.size
      /\ \A q \in Systems : q \in Nat
      /\ \A q \in Systems : q \in Cohort <=> next <= q /\ q < upTo
  BY <1>2, WithinCohort
<1>7. ASSUME NEW q \in 0..(r - 1) PROVE fault.system[q] = "none"
  <2>1. r \in Nat /\ r < upTo /\ q \in Nat /\ q < r /\ q \in Systems
    <3>1. r \in Nat /\ r < upTo
      BY <1>4, <1>6
    <3>2. q \in Nat /\ q < r
      BY <3>1
    <3> QED BY <1>6, <3>1, <3>2 DEF Systems, Ranks
  <2>2. CASE q < next
    BY <1>2, <2>1, <2>2 DEF IInv, Crew
  <2>3. CASE q >= next
    <3>1. q \in Cohort
      BY <1>6, <2>1, <2>3
    <3>2. q \notin F
      BY <1>3, <2>1
    <3>3. worker[q] \in Over /\ worker[q] \notin UserFailures
          /\ worker[q] \notin FrameworkFailures
      BY <1>1, <3>1, <3>2 DEF F, Failed, Joined
    <3>4. worker[q] = "success"
      BY <3>3 DEF Over
    <3> QED BY <1>2, <3>1, <3>4 DEF IInv, Journals
  <2> QED BY <1>6, <2>1, <2>2, <2>3
<1>8. FailureSelection'
  <2>1. {q \in Systems' : worker'[q] \in FrameworkFailures} = {}
    <3>1. Systems' = Systems
      BY <1>1 DEF Systems
    <3> QED BY <1>1, <1>2, <3>1
  <2>2. verdict'.kind = worker[r] /\ verdict'.rank = r /\ fault' = fault
    BY <1>1
  <2> QED BY <1>5, <1>7, <2>1, <2>2 DEF FailureSelection
<1>9. verdict'.kind \notin {"unreached", "ok"}
  BY <1>1, <1>4 DEF UserFailures
<1> QED BY <1>1, <1>8, <1>9, FailingKeeps

(* Sequences with the same elements are the same.                          *)
LEMMA SameSequence ==
    ASSUME NEW S, NEW a \in Seq(S), NEW b \in Seq(S), Len(a) = Len(b),
           \A i \in 1..Len(a) : a[i] = b[i]
    PROVE  a = b
OBVIOUS

(* The members of a cohort without failure have recorded all they write.   *)
LEMMA AllRecorded ==
    ASSUME IInv, Joined, Failed(FrameworkFailures \union UserFailures) = {}
    PROVE  /\ \A r \in Cohort : /\ worker[r] = "success" /\ fault.system[r] = "none"
                                /\ journal[r] = plan.writes[r]
                                /\ Touched(journal[r]) = Written(plan, r)
           /\ JoinedJournal = Concatenation(plan.writes, next, upTo)
<1>1. phase = "working"
  BY DEF Joined
<1>2. /\ plan \in Plans /\ next \in Nat /\ upTo \in Nat /\ next < upTo
      /\ Cohort \subseteq Systems
      /\ \A r \in Systems : r \in Ranks(plan)
      /\ journal \in [Systems -> Seq(Components)]
  BY <1>1, WithinCohort
<1>3. ASSUME NEW r \in Cohort
      PROVE  /\ worker[r] = "success" /\ fault.system[r] = "none"
             /\ journal[r] = plan.writes[r]
             /\ Touched(journal[r]) = Written(plan, r)
             /\ journal[r] \in Seq(Components)
  <2>1. worker[r] \in Over /\ worker[r] \notin FrameworkFailures \union UserFailures
    BY DEF Joined, Failed
  <2>2. worker[r] = "success"
    BY <2>1 DEF Over
  <2>3. /\ fault.system[r] = "none" /\ Len(journal[r]) = Len(plan.writes[r])
        /\ \A i \in 1..Len(journal[r]) : journal[r][i] = plan.writes[r][i]
    BY <1>1, <2>2 DEF IInv, Journals
  <2>4. journal[r] \in Seq(Components) /\ plan.writes[r] \in Seq(Components)
    BY <1>2, PlanIs
  <2> DEFINE a == journal[r]
             b == plan.writes[r]
  <2>5. a \in Seq(Components) /\ b \in Seq(Components) /\ Len(a) = Len(b)
        /\ \A i \in 1..Len(a) : a[i] = b[i]
    BY <2>3, <2>4
  <2> HIDE DEF a, b
  <2>6. a = b
    BY <2>5, SameSequence
  <2>7. journal[r] = plan.writes[r]
    BY <2>6 DEF a, b
  <2>8. Touched(journal[r]) = Written(plan, r)
    BY <2>7 DEF Touched, Written
  <2> QED BY <2>2, <2>3, <2>4, <2>7, <2>8
<1>4. JoinedJournal = Concatenation(plan.writes, next, upTo)
  <2> DEFINE w == plan.writes
  <2>1. /\ next \in Int /\ upTo \in Int /\ next <= upTo
        /\ \A q \in next..(upTo - 1) : w[q] \in Seq(Components) /\ journal[q] = w[q]
    BY <1>2, <1>3 DEF Cohort
  <2> HIDE DEF w
  <2>2. Concatenation(journal, next, upTo) = Concatenation(w, next, upTo)
    BY <2>1, ConcatenationsEqual
  <2> QED BY <2>2 DEF JoinedJournal, w
<1> QED BY <1>3, <1>4

(* After a cohort without failure the world is the serial one behind its   *)
(* last member.                                                            *)
LEMMA CohortAgrees ==
    ASSUME IInv, Joined, Failed(FrameworkFailures \union UserFailures) = {},
           NEW t, t = Replayed(state, JoinedJournal),
           NEW b, b = AfterSystem(plan, Serial[upTo - 1], upTo - 1, run)
    PROVE  /\ b \in SerialStates(plan)
           /\ Agrees(plan, t, b.state, upTo)
           /\ queue \o JoinedBuffers = b.queue
<1>1. phase = "working"
  BY DEF Joined
<1>2. /\ plan \in Plans /\ plan.size \in Nat /\ run \in Nat /\ run > 0
      /\ next \in Nat /\ upTo \in Nat /\ next < upTo /\ upTo <= plan.size
      /\ next \in 0..plan.size
      /\ Cohort \subseteq Systems
      /\ \A r \in Systems : r \in Nat /\ r < plan.size /\ r \in Ranks(plan)
      /\ \A r \in Systems : r \in Cohort <=> next <= r /\ r < upTo
      /\ state \in WorldStates(plan) /\ state.cursor \in Nat
      /\ journal \in [Systems -> Seq(Components)]
      /\ Serial \in [0..plan.size -> SerialStates(plan)]
      /\ Kept(Serial[next], serial[0].cursor, run)
      /\ Settled(state, run)
  BY <1>1, WithinCohort
<1> DEFINE b0 == Serial[next]
           s0 == b0.state
           s == b.state
           w == Concatenation(plan.writes, next, upTo)
           d == Concatenation(Buffers(plan, run), next, upTo)
<1>3. upTo - 1 \in Cohort /\ (upTo - 1) + 1 = upTo /\ upTo \in next..upTo
  BY <1>2 DEF Cohort
<1>4. /\ b \in SerialStates(plan) /\ w \in Seq(Components)
      /\ Progress(plan, run, Serial, next, upTo, w, d, b)
  <2>1. Behind(plan, run, Serial, next, upTo) = b
    <3>1. Behind(plan, run, Serial, next, (upTo - 1) + 1) = b
      BY <1>1, <1>3, BehindIs
    <3> QED BY <1>3, <3>1
  <2>2. w = Concatenations(plan.writes, next, upTo)[upTo]
    <3> DEFINE a == plan.writes
    <3>1. next \in Int /\ upTo \in Int /\ next <= upTo
          /\ \A r \in next..(upTo - 1) : a[r] \in Seq(Components)
      BY <1>2, PlanIs DEF Cohort
    <3> HIDE DEF a
    <3>2. Concatenation(a, next, upTo) = Concatenations(a, next, upTo)[upTo]
      BY <3>1, ConcatenationsAre
    <3> QED BY <3>2 DEF a
  <2>3. d = Concatenations(Buffers(plan, run), next, upTo)[upTo]
    <3> DEFINE a == Buffers(plan, run)
    <3>1. next \in Int /\ upTo \in Int /\ next <= upTo
      BY <1>2
    <3>2. \A r \in next..(upTo - 1) : a[r] \in Seq(Stamps)
      <4> SUFFICES ASSUME NEW r \in next..(upTo - 1) PROVE a[r] \in Seq(Stamps)
        OBVIOUS
      <4>1. r \in Ranks(plan) /\ r \in Nat
        BY <1>2 DEF Cohort
      <4>2. <<run, r>> \in Stamps
        BY <1>2, <4>1 DEF Stamps
      <4> QED BY <4>1, <4>2 DEF Buffers
    <3> HIDE DEF a
    <3>3. Concatenation(a, next, upTo) = Concatenations(a, next, upTo)[upTo]
      BY <3>1, <3>2, ConcatenationsAre
    <3> QED BY <3>3 DEF a
  <2> QED BY <1>1, <1>3, <2>1, <2>2, <2>3, CohortInSerial
<1>5. JoinedJournal = w /\ \A r \in Cohort : Touched(journal[r]) = Written(plan, r)
                                             /\ worker[r] = "success"
  BY AllRecorded
<1>6. JoinedBuffers = d
  <2>1. Buffer = Buffers(plan, run)
    BY DEF Buffer, Buffers, Systems
  <2> QED BY <2>1 DEF JoinedBuffers
<1> HIDE DEF w, d
<1>7. /\ b0 \in SerialStates(plan) /\ s0 \in WorldStates(plan) /\ s \in WorldStates(plan)
      /\ Settled(s0, run)
  BY <1>2, <1>4 DEF SerialStates, Kept, Advanced
<1>8. /\ queue = b0.queue /\ state.changed = s0.changed /\ state.cursor = s0.cursor
      /\ state.applied = s0.applied /\ state.callbacks = s0.callbacks
  BY <1>1 DEF IInv, Within, Base
<1>9. Positions(b0, b, w) /\ Writers(plan, run, next, upTo, w, b0, b)
      /\ Pending(b0, b, d) /\ Sights(plan, Serial, next, upTo, b0, b)
  BY <1>4 DEF Progress
<1>10. /\ t \in WorldStates(plan)
       /\ t.value = state.value
       /\ t.cursor = state.cursor + Len(w) /\ t.applied = state.applied
       /\ t.callbacks = state.callbacks
       /\ t.lastRun = state.lastRun /\ t.seen = state.seen
  <2>1. t = Replayed(state, w)
    BY <1>5
  <2> QED BY <1>2, <1>4, <2>1, ReplayedIs
<1> HIDE DEF b0
<1>11. t.changed = s.changed
  <2>1. s.changed = Replayed(s0, w).changed
    BY <1>9 DEF Positions
  <2> HIDE DEF s0
  <2>2. t.changed = Replayed(s0, w).changed
    BY <1>2, <1>4, <1>5, <1>7, <1>8, ReplayedChanges
  <2> QED BY <2>1, <2>2, Zenon
<1>12. t.cursor = s.cursor /\ t.applied = s.applied /\ t.callbacks = s.callbacks
       /\ queue \o JoinedBuffers = b.queue
  BY <1>6, <1>8, <1>9, <1>10 DEF Positions, Pending
<1>13. Cohort = next..(upTo - 1)
  BY DEF Cohort
<1>14. t.value = s.value
  <2>1. ASSUME NEW c \in Components PROVE t.value[c] = s.value[c]
    <3>1. CASE c \in Touched(w)
      <4>1. PICK q \in Cohort : c \in Written(plan, q)
        BY <1>9, <1>13, <3>1 DEF Writers
      <4>2. state.value[c] = <<run, q>>
        BY <1>1, <1>5, <4>1 DEF IInv, Within, Payloads
      <4>3. s.value[c] = <<run, q>>
        BY <1>9, <1>13, <4>1 DEF Writers
      <4> QED BY <1>10, <4>2, <4>3
    <3>2. CASE c \notin Touched(w)
      <4>1. \A q \in Cohort : c \notin Touched(journal[q])
        BY <1>5, <1>9, <1>13, <3>2 DEF Writers
      <4>2. state.value[c] = s0.value[c]
        BY <1>1, <4>1 DEF IInv, Within, Payloads, b0
      <4>3. s.value[c] = s0.value[c]
        BY <1>9, <3>2 DEF Writers
      <4> QED BY <1>10, <4>2, <4>3
    <3> QED BY <3>1, <3>2
  <2>2. t.value \in [Components -> Stamps] /\ s.value \in [Components -> Stamps]
    BY <1>7, <1>10 DEF WorldStates
  <2> QED BY <2>1, <2>2
<1>15. ASSUME NEW r \in 0..(upTo - 1) PROVE t.seen[r] = s.seen[r]
  <2>1. r \in Systems /\ r \in Ranks(plan) /\ r \in Nat
    BY <1>2 DEF Systems, Ranks
  <2>2. CASE r < next
    <3>1. state.seen[r] = s0.seen[r]
      BY <1>1, <2>1, <2>2 DEF IInv, Within, Sighted, b0
    <3>2. r \notin next..(upTo - 1)
      BY <1>2, <2>2
    <3>3. s.seen[r] = s0.seen[r]
      BY <1>9, <2>1, <3>2 DEF Sights
    <3> QED BY <1>10, <3>1, <3>3
  <2>3. CASE ~ (r < next)
    <3>1. r \in Cohort
      BY <1>2, <2>1, <2>3
    <3>2. HasBegun(r)
      BY <1>5, <3>1 DEF HasBegun
    <3>3. state.seen[r] = Serial[r + 1].state.seen[r]
      BY <1>1, <2>1, <3>2 DEF IInv, Within, Sighted
    <3>4. s.seen[r] = Serial[r + 1].state.seen[r]
      BY <1>9, <1>13, <3>1 DEF Sights
    <3> QED BY <1>10, <3>3, <3>4
  <2> QED BY <2>2, <2>3
<1>16. ASSUME NEW r \in Ranks(plan) PROVE SameFilters(plan, t, s, r)
  <2> SUFFICES ASSUME NEW c \in plan.reads[r]
               PROVE  t.changed[c] > t.lastRun[r] <=> s.changed[c] > s.lastRun[r]
    BY DEF SameFilters
  <2>1. r \in Systems /\ c \in Components /\ DOMAIN s0.lastRun = Ranks(plan)
        /\ DOMAIN state.lastRun = Ranks(plan)
    BY <1>2, <1>7, PlanIs, WorldIs DEF Systems
  <2>2. CASE r \in Cohort
    <3>1. state.lastRun[r] = state.cursor
      <4>1. HasBegun(r)
        BY <1>5, <2>2 DEF HasBegun
      <4> QED BY <1>1, <2>1, <4>1 DEF IInv, Within, Sighted
    <3>2. s.changed[c] > s.lastRun[r] <=> s.changed[c] > s0.cursor
      BY <1>9, <1>13, <2>2 DEF Sights
    <3>3. t.changed[c] = s.changed[c] /\ t.lastRun[r] = s0.cursor
      BY <1>8, <1>10, <1>11, <3>1
    <3> QED BY <3>2, <3>3, Zenon
  <2>3. CASE r \notin Cohort
    <3>1. s.lastRun[r] = s0.lastRun[r]
      BY <1>9, <1>13, <2>3 DEF Sights
    <3>2. s0.changed[c] > state.lastRun[r] <=> s0.changed[c] > s0.lastRun[r]
      <4>1. SameFilters(plan, state, s0, r)
        BY <1>1, <2>1, <2>3 DEF IInv, Within, Sighted, HasBegun, b0
      <4> QED BY <1>8, <4>1 DEF SameFilters
    <3>3. t.changed = Replayed(s0, w).changed
      BY <1>9, <1>11 DEF Positions
    <3>4. state.lastRun[r] <= s0.cursor /\ s0.lastRun[r] <= s0.cursor
      BY <1>2, <1>7, <1>8, <2>1 DEF Settled
    <3>5. /\ state.lastRun[r] \in Nat /\ s0.lastRun[r] \in Nat /\ s0.cursor \in Nat
          /\ t.changed[c] \in Nat
      BY <1>2, <1>7, <1>10, <2>1, WorldIs
    <3> HIDE DEF s0
    <3>6. /\ c \notin Touched(w) => Replayed(s0, w).changed[c] = s0.changed[c]
          /\ c \in Touched(w) => Replayed(s0, w).changed[c] > s0.cursor
      BY <1>2, <1>4, <1>7, <2>1, ReplayedBounds
    <3>7. t.changed[c] > state.lastRun[r] <=> t.changed[c] > s0.lastRun[r]
      <4>1. CASE c \notin Touched(w)
        <5>1. t.changed[c] = s0.changed[c]
          BY <3>3, <3>6, <4>1
        <5> QED BY <3>2, <5>1, Zenon
      <4>2. CASE c \in Touched(w)
        <5>1. t.changed[c] > s0.cursor
          BY <3>3, <3>6, <4>2
        <5> QED BY <3>4, <3>5, <5>1
      <4> QED BY <4>1, <4>2
    <3>8. t.lastRun[r] = state.lastRun[r] /\ s.changed[c] = t.changed[c]
      BY <1>10, <1>11
    <3> QED BY <3>1, <3>7, <3>8, Zenon
  <2> QED BY <2>2, <2>3
<1> QED BY <1>4, <1>11, <1>12, <1>14, <1>15, <1>16 DEF Agrees

(* A cohort without failure leads to the state of the serial run behind    *)
(* it.                                                                     *)
LEMMA ReconcileSuccessKeeps ==
    ASSUME IInv, ReconcileSuccess
    PROVE  IInv'
<1>1. /\ Joined /\ Failed(FrameworkFailures \union UserFailures) = {}
      /\ state' = Replayed(state, JoinedJournal)
      /\ queue' = queue \o JoinedBuffers
      /\ next' = upTo /\ phase' = "boundary"
      /\ UNCHANGED <<plan, run, fault, passed, upTo, worker, journal, admitted,
                     verdict, serial>>
  BY DEF ReconcileSuccess
<1>2. /\ phase = "working"
      /\ \A r \in Systems : worker[r] \notin Active
  BY <1>1, JoinedIs
<1>3. /\ plan \in Plans /\ plan.size \in Nat /\ run \in Nat /\ run > 0
      /\ next \in Nat /\ upTo \in Nat /\ next < upTo /\ upTo <= plan.size
      /\ upTo \in 0..plan.size
      /\ Cohort \subseteq Systems
      /\ \A r \in Systems : r \in Nat /\ r < plan.size /\ r \in Ranks(plan)
      /\ \A r \in Systems : r \in Cohort <=> next <= r /\ r < upTo
      /\ serial[0].cursor \in Nat
  BY <1>2, WithinCohort
<1>4. PICK t : t = state'
  OBVIOUS
<1>5. PICK b : b = AfterSystem(plan, Serial[upTo - 1], upTo - 1, run)
  OBVIOUS
<1>6. t = Replayed(state, JoinedJournal)
  BY <1>1, <1>4, Zenon
<1>7. /\ b \in SerialStates(plan) /\ Agrees(plan, t, b.state, upTo)
      /\ queue' = b.queue
  BY <1>1, <1>5, <1>6, CohortAgrees
<1>8. /\ t \in WorldStates(plan)
      /\ Advanced(t, serial[0].cursor, run)
      /\ t.cursor <= CursorMax
      /\ t.cursor = serial[0].cursor + JournalTotal
                    + Len(t.applied) - Len(serial[0].applied)
  BY <1>2, <1>6, ReplayIs
<1>9. Here' = b
  <2>1. /\ upTo - 1 \in Nat /\ next <= upTo - 1 /\ upTo - 1 < plan.size
        /\ next' = (upTo - 1) + 1
    BY <1>1, <1>3
  <2> QED BY <1>1, <1>2, <1>5, <2>1, HereBehind DEF IInv
<1>10. /\ Systems' = Systems /\ Serial' = Serial /\ JournalTotal' = JournalTotal
  BY <1>1 DEF Systems, Serial, JournalTotal
<1>11. Types'
  <2>1. queue' \in Seq(Stamps)
    BY <1>7 DEF SerialStates
  <2> QED BY <1>1, <1>3, <1>4, <1>8, <1>10, <2>1 DEF IInv, Types, Phases
<1>12. Linked'
  BY <1>1, <1>3, <1>10 DEF IInv, Linked
<1>13. Between'
  BY <1>1, <1>4, <1>7, <1>9 DEF Between
<1>14. Frontiers'
  <2>1. ASSUME NEW c \in plan.cuts, c < upTo PROVE c \in passed
    <3>1. c \in Nat
      BY <1>3, PlanIs
    <3>2. ~ (c > next)
      <4> SUFFICES ASSUME c > next PROVE FALSE
        OBVIOUS
      <4>1. upTo <= c
        BY <1>2 DEF IInv, Frontiers
      <4> QED BY <1>3, <2>1, <3>1, <4>1
    <3>3. c < next \/ c = next
      BY <1>3, <3>1, <3>2
    <3> QED BY <1>2, <3>3 DEF IInv, Frontiers
  <2>2. ASSUME NEW c \in passed PROVE c <= upTo
    <3>1. c \in Nat
      <4>1. c \in plan.cuts
        BY <2>2 DEF IInv, Types
      <4> QED BY <1>3, <4>1, PlanIs
    <3>2. c <= next
      BY <1>2 DEF IInv, Frontiers
    <3> QED BY <1>3, <3>1, <3>2
  <2> QED BY <1>1, <2>1, <2>2 DEF Frontiers
<1>15. Crew'
  <2>1. ASSUME NEW r \in Systems, r < upTo
        PROVE  worker[r] \in {"idle", "success"} /\ fault.system[r] = "none"
    <3>1. CASE r < next
      BY <1>2, <3>1 DEF IInv, Crew
    <3>2. CASE ~ (r < next)
      <4>1. r \in Cohort
        BY <1>3, <2>1, <3>2
      <4> QED BY <1>1, <4>1, AllRecorded
    <3> QED BY <3>1, <3>2
  <2>2. \A r \in Systems : r >= upTo => worker[r] = "idle" /\ journal[r] = <<>>
    BY <1>2 DEF IInv, Crew
  <2>3. plan.capacity > 0
    BY <1>2 DEF IInv, Crew
  <2> QED BY <1>1, <1>2, <1>10, <2>1, <2>2, <2>3 DEF Crew
<1>16. Journals' /\ Within' /\ AtEnd' /\ Truthful' /\ FailureSelection'
  BY <1>1 DEF Journals, Within, Payloads, Base, Sighted, AtEnd, Truthful,
              FailureSelection
<1>17. Books'
  <2>1. Taken' = 0
    BY <1>1 DEF Taken
  <2>2. t.cursor + 0 = t.cursor
    <3>1. t.cursor \in Nat
      BY <1>3, <1>8, WorldIs
    <3> QED BY <3>1
  <2>3. /\ state'.cursor + Taken' <= CursorMax
        /\ state'.cursor + Taken' = serial[0].cursor + JournalTotal'
               + Len(state'.applied) - Len(serial[0].applied)
    BY <1>4, <1>8, <1>10, <2>1, <2>2, Zenon
  <2>4. Settled(t, run) /\ t.cursor >= serial[0].cursor
    BY <1>8 DEF Advanced
  <2> QED BY <1>1, <1>4, <2>3, <2>4 DEF Books
<1> QED BY <1>11, <1>12, <1>13, <1>14, <1>15, <1>16, <1>17 DEF IInv

-----------------------------------------------------------------------------
(* The frontiers.                                                          *)

(* The buffers that can be applied are the first of the pending ones, and  *)
(* the cursor has room for them.                                           *)
LEMMA ApplicableIs ==
    ASSUME queue \in Seq(Stamps), state.cursor \in Nat, CursorMax \in Nat,
           state.cursor <= CursorMax
    PROVE  \E m \in 0..Len(queue) : /\ Applicable = SubSeq(queue, 1, m)
                                    /\ state.cursor + m <= CursorMax
<1> DEFINE n == Len(queue)
           cu == state.cursor
           stops == {i \in DOMAIN queue : queue[i][2] \in fault.command
                                          \/ i > CursorMax - cu}
<1>1. n \in Nat /\ DOMAIN queue = 1..n /\ cu \in Nat /\ CursorMax \in Nat /\ cu <= CursorMax
  OBVIOUS
<1>2. Applicable = IF stops = {} THEN queue
                   ELSE SubSeq(queue, 1, (CHOOSE i \in stops : \A j \in stops : i <= j) - 1)
  BY DEF Applicable
<1>3. stops \subseteq 1..n /\ \A i \in 1..n : i \notin stops => ~ (i > CursorMax - cu)
  BY <1>1
<1> HIDE DEF n, cu, stops
<1>4. CASE stops = {}
  <2>1. Applicable = SubSeq(queue, 1, n)
    BY <1>2, <1>4, WholePart DEF n
  <2>2. cu + n <= CursorMax
    <3>1. CASE n = 0
      BY <1>1, <3>1
    <3>2. CASE n # 0
      <4>1. n \in 1..n
        BY <1>1, <3>2
      <4>2. ~ (n > CursorMax - cu)
        BY <1>3, <1>4, <4>1
      <4> QED BY <1>1, <4>2
    <3> QED BY <3>1, <3>2
  <2>3. n \in 0..n
    BY <1>1
  <2> QED BY <2>1, <2>2, <2>3 DEF n, cu
<1>5. CASE stops # {}
  <2>1. PICK i \in stops : i = CHOOSE x \in stops : \A j \in stops : x <= j
    <3> DEFINE lo == 1
    <3>1. stops \in SUBSET Int /\ lo \in Int /\ \A x \in stops : lo <= x
      BY <1>1, <1>3
    <3> HIDE DEF lo
    <3>2. \E x \in stops : \A j \in stops : x <= j
      BY <1>5, <3>1, LeastExists
    <3> QED BY <3>2
  <2>2. \A j \in stops : i <= j
    <3>1. \E x \in stops : \A j \in stops : x <= j
      <4> DEFINE lo == 1
      <4>1. stops \in SUBSET Int /\ lo \in Int /\ \A x \in stops : lo <= x
        BY <1>1, <1>3
      <4> HIDE DEF lo
      <4> QED BY <1>5, <4>1, LeastExists
    <3> QED BY <2>1, <3>1
  <2>3. i \in 1..n /\ i - 1 \in 0..n /\ i - 1 \notin stops
    <3>1. i \in 1..n /\ i \in Int
      <4>1. i \in stops
        BY <2>1
      <4>2. stops \subseteq 1..n
        BY <1>3
      <4>3. i \in 1..n
        BY <4>1, <4>2, Zenon
      <4> QED BY <1>1, <4>3
    <3>2. i - 1 \notin stops
      <4> SUFFICES ASSUME i - 1 \in stops PROVE FALSE
        OBVIOUS
      <4>1. i <= i - 1
        BY <2>2
      <4> QED BY <3>1, <4>1
    <3> QED BY <1>1, <3>1, <3>2
  <2>4. Applicable = SubSeq(queue, 1, i - 1)
    BY <1>2, <1>5, <2>1
  <2>5. cu + (i - 1) <= CursorMax
    <3>1. CASE i = 1
      BY <1>1, <3>1
    <3>2. CASE i # 1
      <4>1. i - 1 \in 1..n
        BY <1>1, <2>3, <3>2
      <4>2. ~ (i - 1 > CursorMax - cu)
        BY <1>3, <2>3, <4>1
      <4> QED BY <1>1, <2>3, <4>2
    <3> QED BY <3>1, <3>2
  <2> QED BY <2>3, <2>4, <2>5 DEF n, cu
<1> QED BY <1>4, <1>5

(* Publishing moves the cursor on and nothing back.                        *)
LEMMA PublishedAdvances ==
    ASSUME NEW p \in Plans, NEW s \in WorldStates(p), NEW q \in Seq(Stamps),
           NEW n \in Nat, NEW base \in Nat, Advanced(s, base, n),
           NEW t \in WorldStates(p), t.value = s.value, t.changed = s.changed,
           t.cursor = s.cursor + Len(q), t.lastRun = s.lastRun
    PROVE  Advanced(t, base, n)
<1>1. s.cursor \in Nat /\ t.cursor \in Nat /\ Len(q) \in Nat
  BY WorldIs
<1>2. t.cursor >= s.cursor /\ t.cursor >= base
  BY <1>1 DEF Advanced
<1>3. \A c \in Components : s.changed[c] \in Nat
  BY WorldIs
<1>4. \A r \in DOMAIN s.lastRun : s.lastRun[r] \in Nat
  BY WorldIs
<1>5. /\ \A c \in Components : s.changed[c] <= t.cursor
      /\ \A r \in DOMAIN s.lastRun : s.lastRun[r] <= t.cursor
  BY <1>1, <1>2, <1>3, <1>4 DEF Advanced, Settled
<1> QED BY <1>2, <1>5 DEF Advanced, Settled

(* What is applied is the beginning of what the serial run publishes.      *)
LEMMA AppliedIsPrefix ==
    ASSUME IInv, phase \in {"boundary", "step"}, NEW m \in 0..Len(queue)
    PROVE  /\ queue \in Seq(Stamps)
           /\ SubSeq(queue, 1, m) \in Seq(Stamps) /\ Len(SubSeq(queue, 1, m)) = m
           /\ IsPrefixOf(state.applied \o SubSeq(queue, 1, m),
                         serial[plan.size].applied)
<1>1. /\ plan \in Plans /\ run > 0 /\ plan.size \in Nat
      /\ state.applied \in Seq(Stamps) /\ queue \in Seq(Stamps)
  BY BetweenCohorts DEF IInv, Types
<1>2. /\ Here \in SerialStates(plan)
      /\ IsPrefixOf(Recorded(Here), serial[plan.size].applied)
  BY <1>1, HereIs DEF IInv
<1>3. state.applied \o queue = Recorded(Here)
  BY DEF IInv, Between, Agrees, Recorded
<1> DEFINE a == state.applied
           part == SubSeq(queue, 1, m)
           all == a \o queue
           end == serial[plan.size].applied
<1>4. /\ part \in Seq(Stamps) /\ Len(part) = m
      /\ IsPrefixOf(a \o part, all)
  <2>1. a \in Seq(Stamps)
    BY <1>1
  <2> HIDE DEF a
  <2> QED BY <1>1, <2>1, PrefixOfPart
<1>5. /\ a \o part \in Seq(Stamps) /\ all \in Seq(Stamps) /\ end \in Seq(Stamps)
  <2>1. serial[plan.size] \in WorldStates(plan)
    <3>1. plan.size \in 0..plan.size
      BY <1>1
    <3> QED BY <3>1 DEF IInv, Types
  <2>2. end \in Seq(Stamps)
    BY <1>1, <2>1, WorldIs
  <2>3. a \o part \in Seq(Stamps) /\ all \in Seq(Stamps)
    BY <1>1, <1>4
  <2> QED BY <2>2, <2>3
<1>6. IsPrefixOf(all, end)
  BY <1>2, <1>3
<1> HIDE DEF all, end, part, a
<1> DEFINE x == a \o part
<1>7. x \in Seq(Stamps) /\ IsPrefixOf(x, all)
  BY <1>4, <1>5
<1> HIDE DEF x
<1>8. IsPrefixOf(x, end)
  BY <1>5, <1>6, <1>7, PrefixTransitive
<1> QED BY <1>1, <1>4, <1>8 DEF x, a, part, end

(* A frontier without room publishes the buffers that fit, the first ones. *)
LEMMA PublicationFailsKeeps ==
    ASSUME IInv, PublicationFails
    PROVE  IInv'
<1>1. /\ phase = "boundary" /\ phase' = "idle" /\ queue' = <<>>
      /\ state' = Published(state, Applicable)
      /\ verdict'.kind \in {"command", "exhausted"}
      /\ UNCHANGED <<plan, run, fault, next, passed, upTo, worker, journal,
                     admitted, serial>>
  BY DEF PublicationFails, EndRun
<1>2. /\ plan \in Plans /\ plan.size \in Nat /\ run \in Nat /\ run > 0
      /\ upTo \in 0..plan.size
      /\ admitted \in Nat /\ CursorMax \in Nat
      /\ state \in WorldStates(plan) /\ state.cursor \in Nat
      /\ state.cursor <= CursorMax
      /\ serial[0].cursor \in Nat
      /\ state.applied \in Seq(Stamps) /\ serial[0].applied \in Seq(Stamps)
      /\ journal \in [Systems -> Seq(Components)]
      /\ Advanced(state, serial[0].cursor, run)
      /\ JournalTotal \in Nat
      /\ state.cursor = serial[0].cursor + JournalTotal
                        + Len(state.applied) - Len(serial[0].applied)
  BY <1>1, BetweenCohorts
<1>3. queue \in Seq(Stamps)
  BY DEF IInv, Types
<1>4. PICK m \in 0..Len(queue) : /\ Applicable = SubSeq(queue, 1, m)
                                 /\ state.cursor + m <= CursorMax
  BY <1>2, <1>3, ApplicableIs
<1>5. PICK q : q = SubSeq(queue, 1, m)
  OBVIOUS
<1>6. PICK t : t = state'
  OBVIOUS
<1>7. /\ q \in Seq(Stamps) /\ Len(q) = m /\ m \in Nat
      /\ IsPrefixOf(state.applied \o q, serial[plan.size].applied)
  BY <1>1, <1>3, <1>5, AppliedIsPrefix
<1>8. /\ t \in WorldStates(plan)
      /\ t.value = state.value /\ t.changed = state.changed
      /\ t.cursor = state.cursor + Len(q) /\ t.applied = state.applied \o q
      /\ t.callbacks = state.callbacks
      /\ t.lastRun = state.lastRun /\ t.seen = state.seen
  <2>1. t = Published(state, q)
    BY <1>1, <1>4, <1>5, <1>6
  <2> QED BY <1>2, <1>7, <2>1, PublishedIs
<1>9. Advanced(t, serial[0].cursor, run)
  <2> DEFINE base == serial[0].cursor
  <2>1. base \in Nat /\ Advanced(state, base, run)
    BY <1>2
  <2> HIDE DEF base
  <2>2. Advanced(t, base, run)
    BY <1>2, <1>7, <1>8, <2>1, PublishedAdvances
  <2> QED BY <2>2 DEF base
<1>10. JournalTotal' = JournalTotal
  BY <1>1 DEF JournalTotal
<1>11. t.cursor <= CursorMax
  BY <1>4, <1>7, <1>8
<1>12. t.cursor = serial[0].cursor + JournalTotal
                  + Len(t.applied) - Len(serial[0].applied)
  <2> DEFINE a == Len(state.applied)
             b == Len(serial[0].applied)
             cu == state.cursor
             ba == serial[0].cursor
             jt == JournalTotal
  <2>1. a \in Nat /\ b \in Nat
    BY <1>2
  <2>2. cu \in Nat /\ ba \in Nat /\ jt \in Nat
    BY <1>2, Zenon
  <2>3. cu = ba + jt + a - b
    BY <1>2, Zenon
  <2>4. t.cursor = cu + m /\ Len(t.applied) = a + m
    <3>1. state.applied \in Seq(Stamps)
      BY <1>2
    <3>2. Len(state.applied \o q) = Len(state.applied) + Len(q)
      BY <1>7, <3>1
    <3> QED BY <1>7, <1>8, <3>2, Zenon
  <2> HIDE DEF a, b, cu, ba, jt
  <2>5. cu + m = ba + jt + (a + m) - b
    BY <1>7, <2>1, <2>2, <2>3
  <2> QED BY <2>4, <2>5, Zenon DEF b, ba, jt
<1>13. IsPrefixOf(t.callbacks, serial[plan.size].callbacks)
  BY <1>8, ImpliesPublishedPrefix DEF PublishedPrefix
<1>14. verdict'.kind \notin {"unreached", "ok"} \union UserFailures
  BY <1>1 DEF UserFailures
<1> QED BY <1>1, <1>2, <1>6, <1>7, <1>8, <1>9, <1>10, <1>11, <1>12, <1>13, <1>14,
           EndsBetween

(* A frontier publishes what the serial one does.                          *)
LEMMA ReachFrontierKeeps ==
    ASSUME IInv, ReachFrontier
    PROVE  IInv'
<1>1. /\ phase = "boundary" /\ AtFrontier /\ Applicable = queue
      /\ state' = CalledBack(Published(state, queue), next)
      /\ IF next \in fault.callback
         THEN EndRun("boundary", 0) /\ UNCHANGED passed
         ELSE /\ passed' = passed \union {next}
              /\ queue' = <<>>
              /\ UNCHANGED <<phase, verdict>>
      /\ UNCHANGED <<plan, run, fault, next, upTo, worker, journal, admitted,
                     serial>>
  BY DEF ReachFrontier
<1>2. /\ plan \in Plans /\ plan.size \in Nat /\ run \in Nat /\ run > 0
      /\ next \in 0..plan.size /\ upTo \in 0..plan.size
      /\ admitted \in Nat /\ CursorMax \in Nat
      /\ state \in WorldStates(plan) /\ state.cursor \in Nat
      /\ state.cursor <= CursorMax
      /\ serial[0].cursor \in Nat
      /\ state.applied \in Seq(Stamps) /\ serial[0].applied \in Seq(Stamps)
      /\ journal \in [Systems -> Seq(Components)]
      /\ Advanced(state, serial[0].cursor, run)
      /\ JournalTotal \in Nat
      /\ state.cursor = serial[0].cursor + JournalTotal
                        + Len(state.applied) - Len(serial[0].applied)
  BY <1>1, BetweenCohorts
<1>3. next \in PendingCuts /\ next \in Nat /\ next \in plan.cuts
  BY <1>1, <1>2 DEF AtFrontier, PendingCuts
<1>4. queue \in Seq(Stamps) /\ Len(queue) \in Nat
  <2>1. queue \in Seq(Stamps)
    BY DEF IInv, Types
  <2> QED BY <2>1
<1>5. state.cursor + Len(queue) <= CursorMax
  <2>1. PICK m \in 0..Len(queue) : /\ Applicable = SubSeq(queue, 1, m)
                                   /\ state.cursor + m <= CursorMax
    BY <1>2, <1>4, ApplicableIs
  <2>2. Len(SubSeq(queue, 1, m)) = m
    BY <1>1, <2>1, AppliedIsPrefix
  <2> QED BY <1>1, <2>1, <2>2
<1>6. PICK u : u = Published(state, queue)
  OBVIOUS
<1>7. PICK t : t = state'
  OBVIOUS
<1>8. /\ u \in WorldStates(plan)
      /\ u.value = state.value /\ u.changed = state.changed
      /\ u.cursor = state.cursor + Len(queue) /\ u.applied = state.applied \o queue
      /\ u.callbacks = state.callbacks
      /\ u.lastRun = state.lastRun /\ u.seen = state.seen
  BY <1>2, <1>4, <1>6, PublishedIs
<1>9. /\ t \in WorldStates(plan)
      /\ t.value = u.value /\ t.changed = u.changed
      /\ t.cursor = u.cursor /\ t.applied = u.applied
      /\ t.lastRun = u.lastRun
  <2>1. t = CalledBack(u, next)
    BY <1>1, <1>6, <1>7
  <2> QED BY <1>2, <1>3, <1>8, <2>1, CalledBackIs, ZenonT(30)
<1>10. Advanced(t, serial[0].cursor, run)
  <2> DEFINE base == serial[0].cursor
  <2>1. base \in Nat /\ Advanced(state, base, run)
    BY <1>2
  <2> HIDE DEF base
  <2>2. t.value = state.value /\ t.changed = state.changed /\ t.lastRun = state.lastRun
        /\ t.cursor = state.cursor + Len(queue)
    BY <1>8, <1>9, Zenon
  <2>3. Advanced(t, base, run)
    BY <1>2, <1>4, <1>9, <2>1, <2>2, PublishedAdvances
  <2> QED BY <2>3 DEF base
<1>11. JournalTotal' = JournalTotal /\ Systems' = Systems /\ Serial' = Serial
  BY <1>1 DEF JournalTotal, Systems, Serial
<1>12. t.cursor <= CursorMax
  BY <1>5, <1>8, <1>9, Zenon
<1>13. t.cursor = serial[0].cursor + JournalTotal
                  + Len(t.applied) - Len(serial[0].applied)
  <2> DEFINE a == Len(state.applied)
             b == Len(serial[0].applied)
             cu == state.cursor
             ba == serial[0].cursor
             jt == JournalTotal
             m == Len(queue)
  <2>1. a \in Nat /\ b \in Nat /\ m \in Nat
    BY <1>2, <1>4
  <2>2. cu \in Nat /\ ba \in Nat /\ jt \in Nat
    BY <1>2, Zenon
  <2>3. cu = ba + jt + a - b
    BY <1>2, Zenon
  <2>4. t.cursor = cu + m /\ Len(t.applied) = a + m
    <3>1. state.applied \in Seq(Stamps)
      BY <1>2
    <3>2. Len(state.applied \o queue) = Len(state.applied) + Len(queue)
      BY <1>4, <3>1
    <3> QED BY <1>8, <1>9, <3>2, Zenon
  <2> HIDE DEF a, b, cu, ba, jt, m
  <2>5. cu + m = ba + jt + (a + m) - b
    BY <2>1, <2>2, <2>3
  <2> QED BY <2>4, <2>5, Zenon DEF b, ba, jt
<1>14. /\ Here \in SerialStates(plan) /\ Serial[next] = AfterFrontier(Here, next)
  BY <1>1, <1>2, <1>3, HereIs DEF IInv
<1>15. PICK h : h = Here
  OBVIOUS
<1>16. Agrees(plan, t, Serial[next].state, next)
  <2>1. Agrees(plan, state, h.state, next) /\ queue = h.queue /\ h \in SerialStates(plan)
    BY <1>1, <1>14, <1>15 DEF IInv, Between
  <2>2. Agrees(plan, CalledBack(Published(state, h.queue), next),
               AfterFrontier(h, next).state, next)
    BY <1>2, <1>3, <2>1, FrontierAgrees
  <2>3. t = CalledBack(Published(state, h.queue), next)
    BY <1>1, <1>7, <2>1, Zenon
  <2> QED BY <1>14, <1>15, <2>2, <2>3, Zenon
<1>17. CASE next \in fault.callback
  <2>1. /\ phase' = "idle" /\ queue' = <<>> /\ passed' = passed
        /\ verdict' = [kind |-> "boundary", rank |-> 0]
    BY <1>1, <1>17 DEF EndRun
  <2>2. /\ IsPrefixOf(t.applied, serial[plan.size].applied)
        /\ IsPrefixOf(t.callbacks, serial[plan.size].callbacks)
    <3> DEFINE b == Serial[next]
               end == serial[plan.size].applied
    <3>1. /\ b \in SerialStates(plan) /\ IsPrefixOf(Recorded(b), end)
          /\ IsPrefixOf(b.state.callbacks, serial[plan.size].callbacks)
      BY <1>2, SerialIs DEF IInv
    <3>2. end \in Seq(Stamps)
      <4>1. serial[plan.size] \in WorldStates(plan)
        <5>1. plan.size \in 0..plan.size
          BY <1>2
        <5> QED BY <5>1 DEF IInv, Types
      <4> QED BY <1>2, <4>1, WorldIs
    <3> HIDE DEF b, end
    <3>3. IsPrefixOf(b.state.applied, end)
      BY <1>2, <3>1, <3>2, PublishedIsPrefix
    <3> QED BY <1>16, <3>1, <3>3 DEF Agrees, b, end
  <2>3. verdict'.kind \notin {"unreached", "ok"} \union UserFailures
    BY <2>1 DEF UserFailures
  <2> QED BY <1>1, <1>2, <1>7, <1>9, <1>10, <1>11, <1>12, <1>13, <2>1, <2>2, <2>3,
             EndsBetween
<1>18. CASE next \notin fault.callback
  <2>1. /\ phase' = "boundary" /\ queue' = <<>> /\ passed' = passed \union {next}
        /\ verdict' = verdict
    BY <1>1, <1>18
  <2>2. Types'
    <3>1. <<>> \in Seq(Stamps)
      OBVIOUS
    <3>2. passed' \subseteq plan.cuts
      BY <1>3, <2>1 DEF IInv, Types
    <3> QED BY <1>1, <1>7, <1>9, <1>11, <2>1, <3>1, <3>2 DEF IInv, Types, Phases
  <2>3. Linked'
    BY <1>1, <1>2, <1>11 DEF IInv, Linked
  <2>4. Between'
    <3>1. Here' = Serial[next]
      <4>1. next \notin PendingCuts'
        BY <2>1 DEF PendingCuts
      <4> QED BY <1>1, <1>11, <4>1 DEF Here
    <3>2. Serial[next].queue = <<>>
      <4>1. AfterFrontier(h, next).queue = <<>>
        BY DEF AfterFrontier
      <4> QED BY <1>14, <1>15, <4>1, Zenon
    <3> QED BY <1>1, <1>7, <1>16, <2>1, <3>1, <3>2 DEF Between
  <2>5. Frontiers'
    <3>1. next <= next
      BY <1>3
    <3> QED BY <1>1, <1>2, <2>1, <3>1 DEF IInv, Frontiers
  <2>6. Crew'
    BY <1>1, <1>11, <2>1 DEF IInv, Crew
  <2>7. Journals' /\ Within' /\ AtEnd' /\ Truthful' /\ FailureSelection'
    BY <2>1 DEF Journals, Within, Payloads, Base, Sighted, AtEnd, Truthful,
                FailureSelection
  <2>8. Books'
    <3>1. Taken' = 0
      BY <2>1 DEF Taken
    <3>2. t.cursor + 0 = t.cursor
      <4>1. t.cursor \in Nat
        BY <1>2, <1>9, WorldIs
      <4> QED BY <4>1
    <3>3. /\ state'.cursor + Taken' <= CursorMax
          /\ state'.cursor + Taken' = serial[0].cursor + JournalTotal'
                 + Len(state'.applied) - Len(serial[0].applied)
      BY <1>7, <1>11, <1>12, <1>13, <3>1, <3>2, Zenon
    <3>4. Settled(t, run) /\ t.cursor >= serial[0].cursor
      BY <1>10 DEF Advanced
    <3> QED BY <1>1, <1>7, <2>1, <3>3, <3>4 DEF Books
  <2> QED BY <2>2, <2>3, <2>4, <2>5, <2>6, <2>7, <2>8 DEF IInv
<1> QED BY <1>17, <1>18

-----------------------------------------------------------------------------
(* Every step.                                                             *)

(* Every step keeps the invariant.                                         *)
LEMMA NextKeeps ==
    ASSUME IInv, [Next]_vars
    PROVE  IInv'
<1>1. CASE StartRun
  BY <1>1, StartRunKeeps
<1>2. CASE InvokerStep
  <2>1. CASE Step
    BY <2>1, StepKeeps
  <2>2. CASE Complete
    BY <2>2, CompleteKeeps
  <2>3. CASE Invoke
    BY <2>3, InvokeKeeps
  <2>4. CASE Launch
    BY <2>4, LaunchKeeps
  <2>5. CASE ReconcileFramework
    BY <2>5, ReconcileFrameworkKeeps
  <2>6. CASE ReconcileFailure
    BY <2>6, ReconcileFailureKeeps
  <2>7. CASE ReconcileSuccess
    BY <2>7, ReconcileSuccessKeeps
  <2>8. CASE PublicationFails
    BY <2>8, PublicationFailsKeeps
  <2>9. CASE ReachFrontier
    BY <2>9, ReachFrontierKeeps
  <2> QED BY <1>2, <2>1, <2>2, <2>3, <2>4, <2>5, <2>6, <2>7, <2>8, <2>9 DEF InvokerStep
<1>3. ASSUME NEW r \in Systems, WorkerStep(r) PROVE IInv'
  <2>1. CASE Begin(r)
    BY <2>1, BeginKeeps
  <2>2. CASE Mutate(r)
    BY <2>2, MutateKeeps
  <2>3. CASE Finish(r)
    BY <2>3, FinishKeeps
  <2> QED BY <1>3, <2>1, <2>2, <2>3 DEF WorkerStep
<1>4. CASE UNCHANGED vars
  BY <1>4, StutterKeeps
<1> QED BY <1>1, <1>2, <1>3, <1>4 DEF Next

(* The invariant holds of every state of every behaviour: for any plans,   *)
(* any number of systems, workers, components and runs, and any cursor.    *)
THEOREM ExecutorInvariant == Spec => []IInv
<1>1. Init => IInv
  BY InitEstablishes
<1>2. IInv /\ [Next]_vars => IInv'
  BY NextKeeps
<1> QED BY <1>1, <1>2, PTL DEF Spec

(* A run of cohorts leaves the world a serial run leaves, whatever its     *)
(* workers' interleaving (execute_parallel_cohorts).                       *)
THEOREM RunsAreSerial == Spec => []SameAsSerial
BY ExecutorInvariant, ImpliesSameAsSerial, PTL

(* No two workers at work may touch what the other one does (cohort        *)
(* selection in execute_parallel_cohorts).                                 *)
THEOREM WorkersNeverRace == Spec => []NoRacingAccess
BY ExecutorInvariant, ImpliesNoRacingAccess, PTL

(* However a run ends, it has published the first buffers of the serial    *)
(* run and called back its first frontiers, in its order.                  *)
THEOREM PublicationInOrder == Spec => []PublishedPrefix
BY ExecutorInvariant, ImpliesPublishedPrefix, PTL

(* No buffer survives its run, and a successful run publishes all of them. *)
THEOREM NoBufferLeft == Spec => []BuffersSettled
BY ExecutorInvariant, ImpliesBuffersSettled, PTL

(* The failure returned is the serial one, unless the executor's own       *)
(* failure dominates (reconcile_cohort).                                   *)
THEOREM FailureReturned == Spec => []FailureSelection
<1>1. IInv => FailureSelection
  BY DEF IInv
<1> QED BY <1>1, ExecutorInvariant, PTL

(* What failed runs leave is still marked as changed, one cursor position  *)
(* for each admitted mutation and applied buffer.                          *)
THEOREM ChangesAccounted == Spec => []TruthfulBookkeeping
BY ExecutorInvariant, ImpliesTruthfulBookkeeping, PTL

=============================================================================
