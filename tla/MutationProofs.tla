----------------------------- MODULE MutationProofs -----------------------------
(***************************************************************************)
(* What world/mutation_journal.rs promises, for any number of workers, any *)
(* capacity, batch, cohort, rows, resources and cursors.                   *)
(*                                                                         *)
(* First the concurrent capacity: it loses and invents no position,        *)
(* refuses nobody too early, and so implements MutationAdmission.          *)
(*                                                                         *)
(* Then the journal, which implements the record of changes.  Inductive    *)
(* beside typing: the events outstanding fit into what is left of the      *)
(* cursor, the reservation of a serial journal is as many positions ahead  *)
(* as events are outstanding, and an index that has not the values as they *)
(* are is marked dirty, or will be by an event outstanding or a mark put   *)
(* off.                                                                    *)
(***************************************************************************)
EXTENDS MutationCapacity, MutationJournal, TLAPS, FiniteSetTheorems,
        SequenceTheorems

Balances == [Workers -> 0..Capacity]

-----------------------------------------------------------------------------
(* Counting credits.                                                       *)

(* There are finitely many credits, so they can be counted.                *)
LEMMA CreditsFinite ==
    ASSUME NEW balance \in Balances
    PROVE  /\ IsFiniteSet(Credits(balance))
           /\ Cardinality(Credits(balance)) \in Nat
<1>1. IsFiniteSet(Workers) /\ IsFiniteSet(1..Capacity)
  BY CapacityAssumption, FS_Interval DEF Workers
<1>2. IsFiniteSet(Workers \X (1..Capacity))
  BY <1>1, FS_Product
<1>3. Credits(balance) \subseteq Workers \X (1..Capacity)
  BY DEF Credits
<1> QED BY <1>2, <1>3, FS_Subset, FS_CardinalityType

(* With every balance at zero no credit is out.                            *)
LEMMA CreditsNone ==
    ASSUME NEW balance \in Balances, \A s \in Workers : balance[s] = 0
    PROVE  Cardinality(Credits(balance)) = 0
<1>1. Credits(balance) = {}
  BY CapacityAssumption DEF Credits, Workers
<1> QED BY <1>1, FS_EmptySet

(* A claim takes exactly one credit out.                                   *)
LEMMA CreditsClaim ==
    ASSUME NEW balance \in Balances, NEW s \in Workers, balance[s] # 0
    PROVE  LET rest == [balance EXCEPT ![s] = @ - 1]
           IN  /\ rest \in Balances
               /\ Cardinality(Credits(balance)) =
                    Cardinality(Credits(rest)) + 1
<1> DEFINE rest == [balance EXCEPT ![s] = @ - 1]
           top == <<s, balance[s]>>
<1>1. rest \in Balances
  BY CapacityAssumption DEF Balances
<1>2. Credits(rest) = Credits(balance) \ {top}
  <2>1. ASSUME NEW c \in Workers \X (1..Capacity)
        PROVE  c[2] <= rest[c[1]] <=> c[2] <= balance[c[1]] /\ c # top
    BY CapacityAssumption DEF Balances
  <2> QED BY <2>1 DEF Credits
<1>3. top \in Credits(balance)
  BY CapacityAssumption DEF Credits, Balances
<1>4. Cardinality(Credits(rest)) = Cardinality(Credits(balance)) - 1
  BY <1>2, <1>3, CreditsFinite, FS_RemoveElement
<1>5. Cardinality(Credits(balance)) \in Nat /\ Cardinality(Credits(rest)) \in Nat
  BY <1>1, CreditsFinite
<1> HIDE DEF rest
<1>6. Cardinality(Credits(balance)) = Cardinality(Credits(rest)) + 1
  BY <1>4, <1>5
<1> QED BY <1>1, <1>6 DEF rest

(* Filling an empty balance with n credits brings exactly n out.           *)
LEMMA CreditsFill ==
    ASSUME NEW balance \in Balances, NEW s \in Workers, balance[s] = 0,
           NEW n \in 0..Capacity
    PROVE  LET full == [balance EXCEPT ![s] = n]
           IN  /\ full \in Balances
               /\ Cardinality(Credits(full)) =
                    Cardinality(Credits(balance)) + n
<1> DEFINE full == [balance EXCEPT ![s] = n]
           new == {s} \X (1..n)
<1>1. full \in Balances
  BY DEF Balances
<1>2. Credits(full) = Credits(balance) \union new
  <2>1. ASSUME NEW c \in Workers \X (1..Capacity)
        PROVE  c[2] <= full[c[1]] <=> c[2] <= balance[c[1]] \/ c \in new
    BY CapacityAssumption DEF Balances
  <2>2. new \subseteq Workers \X (1..Capacity)
    BY CapacityAssumption
  <2> QED BY <2>1, <2>2 DEF Credits
<1>3. Credits(balance) \intersect new = {}
  BY CapacityAssumption DEF Credits
<1>4. IsFiniteSet(new) /\ Cardinality(new) = n
  <2>1. IsFiniteSet({s}) /\ Cardinality({s}) = 1
    BY FS_Singleton
  <2>2. IsFiniteSet(1..n) /\ Cardinality(1..n) = n
    BY CapacityAssumption, FS_Interval
  <2>3. IsFiniteSet(new) /\ Cardinality(new) = Cardinality({s}) * Cardinality(1..n)
    BY <2>1, <2>2, FS_Product, Zenon
  <2>4. 1 * n = n
    BY CapacityAssumption
  <2> QED BY <2>1, <2>2, <2>3, <2>4
<1> HIDE DEF new, full
<1>5. Cardinality(Credits(full)) =
        Cardinality(Credits(balance)) + Cardinality(new)
            - Cardinality(Credits(balance) \intersect new)
  BY <1>2, <1>4, CreditsFinite, FS_Union
<1>6. Cardinality(Credits(balance) \intersect new) = 0
  BY <1>3, FS_EmptySet
<1>7. Cardinality(Credits(full)) = Cardinality(Credits(balance)) + n
  BY <1>4, <1>5, <1>6, CreditsFinite
<1> QED BY <1>1, <1>7 DEF full

-----------------------------------------------------------------------------
(* The free lock is no worker; worker numbers start at one.                *)
LEMMA FreeIsNobody == Free \notin Workers /\ 1 \in Workers
  BY CapacityAssumption DEF Free, Workers

(* A slot the scan has passed is the slot of a worker.                     *)
LEMMA PassedSlot ==
    ASSUME NEW s \in Workers, NEW t \in 1..(s - 1)
    PROVE  t \in Workers
  BY CapacityAssumption DEF Workers

(* The scan goes on to the slot of a worker.                               *)
LEMMA NextSlot ==
    ASSUME NEW s \in Workers, s < NumWorkers
    PROVE  s + 1 \in Workers
  BY CapacityAssumption DEF Workers

(* The initial states satisfy the invariant.                               *)
LEMMA InitInductive == CapacityInit => CapacityInductive
<1> SUFFICES ASSUME CapacityInit PROVE CapacityInductive
  OBVIOUS
<1> USE CapacityAssumption
<1>1. CapacityTypeOK
  BY DEF CapacityInit, CapacityTypeOK, Steps, Stages, Workers
<1>2. LockDiscipline
  BY DEF CapacityInit, LockDiscipline, Holding, Workers, Free
<1>3. OwnSlot /\ RefillOnlyEmpty /\ ScanIsSnapshot /\ Drained
  BY DEF CapacityInit, OwnSlot, RefillOnlyEmpty, ScanIsSnapshot, Drained
<1>4. Conservation
  <2>1. Cardinality(Credits(escrow)) = 0 /\ Cardinality(Credits(grant)) = 0
    BY CreditsNone DEF CapacityInit, Balances
  <2> QED BY <2>1 DEF CapacityInit, Conservation
<1> QED BY <1>1, <1>2, <1>3, <1>4 DEF CapacityInductive

(* What a read that ends in Saw does, whichever stage it was in.           *)
LEMMA SawCases ==
    ASSUME CapacityInductive, NEW w \in Workers, NEW v \in Visible(slot[w]), Saw(w, v),
           pc[w] \in {"load", "swap"}
    PROVE  /\ v \in 0..Capacity
           /\ observed' = [observed EXCEPT ![w] = v]
           /\ v = 0 => escrow[slot[w]] = 0
           /\ \/ /\ v # 0
                 /\ pc' = [pc EXCEPT ![w] = "swap"]
                 /\ UNCHANGED <<holder, stage, slot>>
              \/ /\ v = 0 /\ stage[w] = "fast"
                 /\ pc' = [pc EXCEPT ![w] = "acquire"]
                 /\ UNCHANGED <<holder, stage, slot>>
              \/ /\ v = 0 /\ stage[w] = "recheck" /\ slot[w] = w
                 /\ pc' = [pc EXCEPT ![w] = "take"]
                 /\ UNCHANGED <<holder, stage, slot>>
              \/ /\ v = 0 /\ stage[w] = "scan" /\ slot[w] < NumWorkers
                 /\ pc' = [pc EXCEPT ![w] = "load"]
                 /\ stage' = stage
                 /\ slot' = [slot EXCEPT ![w] = slot[w] + 1]
                 /\ UNCHANGED holder
              \/ /\ v = 0 /\ stage[w] = "scan" /\ slot[w] = NumWorkers
                 /\ pc' = [pc EXCEPT ![w] = "refused"]
                 /\ holder = w /\ holder' = Free
                 /\ UNCHANGED <<stage, slot>>
<1> USE CapacityAssumption DEF Workers
<1>1. CapacityTypeOK /\ OwnSlot /\ LockDiscipline
  BY DEF CapacityInductive
<1>2. slot[w] \in Workers /\ v \in 0..Capacity /\ (v = 0 => escrow[slot[w]] = 0)
  <2>1. slot[w] \in Workers
    BY <1>1 DEF CapacityTypeOK
  <2>2. escrow[slot[w]] \in 0..Capacity /\ deposited[slot[w]] \in 0..Capacity
    BY <1>1, <2>1 DEF CapacityTypeOK
  <2>3. v \in escrow[slot[w]]..deposited[slot[w]]
    BY DEF Visible
  <2> QED BY <2>1, <2>2, <2>3
<1>3. stage[w] = "scan" => [stage EXCEPT ![w] = "scan"] = stage
  BY <1>1 DEF CapacityTypeOK
<1>4. stage[w] = "recheck" => slot[w] = w
  BY <1>1 DEF OwnSlot
<1>5. stage[w] = "scan" => holder = w
  BY <1>1 DEF LockDiscipline, Holding
<1> QED
  BY <1>2, <1>3, <1>4, <1>5
     DEF Saw, Miss, StartClaim, Goto, ReleaseIfHeld

-----------------------------------------------------------------------------
(* One lemma per kind of step: it preserves the invariant.                 *)

(* A request touches only its worker's attempt.                           *)
LEMMA ReserveStep ==
    ASSUME CapacityInductive, NEW w \in Workers, Reserve(w)
    PROVE  CapacityInductive'
<1> USE CapacityAssumption, FreeIsNobody DEF CapacityInductive, Reserve, StartClaim, Goto
<1>1. CapacityTypeOK'
  BY DEF CapacityTypeOK, Steps, Stages
<1>2. LockDiscipline'
  BY DEF CapacityTypeOK, LockDiscipline, Holding
<1>3. OwnSlot'
  BY DEF CapacityTypeOK, OwnSlot
<1>4. RefillOnlyEmpty'
  BY DEF CapacityTypeOK, RefillOnlyEmpty, OwnSlot
<1>5. ScanIsSnapshot'
  BY DEF CapacityTypeOK, ScanIsSnapshot
<1>6. Drained'
  BY DEF CapacityTypeOK, Drained
<1>7. Conservation'
  BY DEF Conservation, Credits
<1> QED BY <1>1, <1>2, <1>3, <1>4, <1>5, <1>6, <1>7

(* Taking the lock.                                                       *)
LEMMA AcquireStep ==
    ASSUME CapacityInductive, NEW w \in Workers, Acquire(w)
    PROVE  CapacityInductive'
<1> USE CapacityAssumption, FreeIsNobody DEF CapacityInductive, Acquire, StartClaim, Goto
<1>1. CapacityTypeOK'
  BY DEF CapacityTypeOK, Steps, Stages
<1>2. LockDiscipline'
  <2> SUFFICES ASSUME NEW v \in Workers
               PROVE  Holding(v)' <=> holder' = v
    BY DEF LockDiscipline
  <2>1. CASE v = w
    BY <2>1 DEF CapacityTypeOK, Holding
  <2>2. CASE v # w
    <3>1. pc'[v] = pc[v] /\ stage'[v] = stage[v]
      BY <2>2 DEF CapacityTypeOK
    <3>2. ~Holding(v)
      BY DEF LockDiscipline
    <3> QED BY <2>2, <3>1, <3>2 DEF Holding
  <2> QED BY <2>1, <2>2
<1>3. OwnSlot'
  BY DEF CapacityTypeOK, OwnSlot
<1>4. RefillOnlyEmpty'
  BY DEF CapacityTypeOK, RefillOnlyEmpty, OwnSlot
<1>5. ScanIsSnapshot'
  BY DEF CapacityTypeOK, ScanIsSnapshot
<1>6. Drained'
  BY DEF CapacityTypeOK, Drained
<1>7. Conservation'
  BY DEF Conservation, Credits
<1> QED BY <1>1, <1>2, <1>3, <1>4, <1>5, <1>6, <1>7

(* Nothing to distribute: what makes the scan's zeros hold at one instant.*)
LEMMA BeginScanStep ==
    ASSUME CapacityInductive, NEW w \in Workers, BeginScan(w)
    PROVE  CapacityInductive'
<1> USE CapacityAssumption, FreeIsNobody DEF CapacityInductive, BeginScan, StartClaim, Goto
<1>1. CapacityTypeOK'
  BY DEF CapacityTypeOK, Steps, Stages
<1>2. LockDiscipline'
  BY DEF CapacityTypeOK, LockDiscipline, Holding
<1>3. OwnSlot'
  BY DEF CapacityTypeOK, OwnSlot
<1>4. RefillOnlyEmpty'
  BY DEF CapacityTypeOK, RefillOnlyEmpty, OwnSlot
<1>5. ScanIsSnapshot'
  BY DEF CapacityTypeOK, ScanIsSnapshot
<1>6. Drained'
  BY DEF CapacityTypeOK, Drained
<1>7. Conservation'
  BY DEF Conservation, Credits
<1> QED BY <1>1, <1>2, <1>3, <1>4, <1>5, <1>6, <1>7

(* The check before the store: the framework violation is unreachable.    *)
LEMMA CheckEmptyStep ==
    ASSUME CapacityInductive, NEW w \in Workers, CheckEmpty(w)
    PROVE  CapacityInductive'
<1>0. pc' = [pc EXCEPT ![w] = "store"]
  BY DEF CapacityInductive, RefillOnlyEmpty, CheckEmpty, Goto
<1> USE <1>0, CapacityAssumption DEF CapacityInductive, CheckEmpty
<1>1. CapacityTypeOK'
  BY DEF CapacityTypeOK, Steps, Stages
<1>2. LockDiscipline'
  BY DEF CapacityTypeOK, LockDiscipline, Holding
<1>3. OwnSlot'
  BY DEF CapacityTypeOK, OwnSlot
<1>4. RefillOnlyEmpty'
  BY DEF CapacityTypeOK, RefillOnlyEmpty, OwnSlot
<1>5. ScanIsSnapshot'
  BY DEF CapacityTypeOK, ScanIsSnapshot
<1>6. Drained'
  BY DEF CapacityTypeOK, Drained
<1>7. Conservation'
  BY DEF Conservation, Credits
<1> QED BY <1>1, <1>2, <1>3, <1>4, <1>5, <1>6, <1>7

(* Taking a batch: what leaves the pool is in the worker's hands.         *)
LEMMA TakeStep ==
    ASSUME CapacityInductive, NEW w \in Workers, Take(w)
    PROVE  CapacityInductive'
<1>a. PICK n \in 1..unassigned : n = Least(unassigned, Batch)
  BY CapacityAssumption DEF CapacityInductive, CapacityTypeOK, Take, Least
<1>b. /\ pc[w] = "take" /\ pc' = [pc EXCEPT ![w] = "check"]
      /\ grant' = [grant EXCEPT ![w] = n] /\ unassigned' = unassigned - n
      /\ UNCHANGED <<holder, escrow, deposited, stage, slot, observed, admitted>>
  BY <1>a DEF CapacityInductive, CapacityTypeOK, Take, Goto
<1>c. grant[w] = 0
  BY <1>b DEF CapacityInductive, OwnSlot
<1>d. n \in 0..Capacity /\ unassigned - n \in 0..Capacity
  BY CapacityAssumption DEF CapacityInductive, CapacityTypeOK
<1> USE <1>b, <1>c, <1>d, CapacityAssumption DEF CapacityInductive
<1>1. CapacityTypeOK'
  BY DEF CapacityTypeOK, Steps, Stages
<1>2. LockDiscipline'
  BY DEF CapacityTypeOK, LockDiscipline, Holding
<1>3. OwnSlot'
  BY DEF CapacityTypeOK, OwnSlot
<1>4. RefillOnlyEmpty'
  BY DEF CapacityTypeOK, RefillOnlyEmpty, OwnSlot
<1>5. ScanIsSnapshot'
  BY DEF CapacityTypeOK, ScanIsSnapshot
<1>6. Drained'
  BY DEF CapacityTypeOK, Drained
<1>7. Conservation'
  <2>1. grant \in Balances
    BY DEF CapacityTypeOK, Balances
  <2>2. Cardinality(Credits(grant')) = Cardinality(Credits(grant)) + n
    BY <2>1, CreditsFill
  <2>3. Cardinality(Credits(grant)) \in Nat /\ Cardinality(Credits(escrow)) \in Nat
    BY CreditsFinite DEF CapacityTypeOK, Balances
  <2> QED BY <2>2, <2>3 DEF CapacityTypeOK, Conservation
<1> QED BY <1>1, <1>2, <1>3, <1>4, <1>5, <1>6, <1>7

(* A successful swap: one credit out, one event admitted.                 *)
LEMMA ClaimStep ==
    ASSUME CapacityInductive, NEW w \in Workers, Claim(w)
    PROVE  CapacityInductive'
<1>a. PICK s \in Workers :
        /\ s = slot[w] /\ escrow[s] # 0
        /\ escrow' = [escrow EXCEPT ![s] = @ - 1]
        /\ s # w => stage[w] = "scan"
  BY DEF CapacityInductive, CapacityTypeOK, OwnSlot, Claim
<1>b. /\ pc[w] = "swap" /\ pc' = [pc EXCEPT ![w] = "idle"]
      /\ admitted' = admitted + 1
      /\ holder' = IF holder = w THEN Free ELSE holder
      /\ UNCHANGED <<unassigned, deposited, stage, slot, observed, grant>>
  BY DEF Claim, Goto, ReleaseIfHeld
<1>c. escrow \in Balances /\ grant \in Balances /\ escrow' \in Balances
  BY <1>a, CreditsClaim DEF CapacityInductive, CapacityTypeOK, Balances
<1>d. \A t \in Workers : escrow[t] = 0 => escrow'[t] = 0
  BY <1>a, <1>c DEF Balances
<1>e. Conservation' /\ admitted' \in 0..Capacity
  <2>1. Cardinality(Credits(escrow)) = Cardinality(Credits(escrow')) + 1
    BY <1>a, <1>c, CreditsClaim
  <2>2. /\ Cardinality(Credits(escrow')) \in Nat
        /\ Cardinality(Credits(grant)) \in Nat
    BY <1>c, CreditsFinite
  <2>3. Cardinality(Credits(grant'))  = Cardinality(Credits(grant))
    BY <1>b
  <2>4. unassigned \in Nat /\ admitted \in Nat /\ Capacity \in Nat
    BY CapacityAssumption DEF CapacityInductive, CapacityTypeOK
  <2> QED BY <1>b, <2>1, <2>2, <2>3, <2>4 DEF CapacityInductive, Conservation
<1> USE <1>b, <1>c, <1>d, <1>e, CapacityAssumption, FreeIsNobody DEF CapacityInductive, Balances
<1>1. CapacityTypeOK'
  BY DEF CapacityTypeOK, Steps, Stages
<1>2. LockDiscipline'
  <2> SUFFICES ASSUME NEW v \in Workers
               PROVE  Holding(v)' <=> holder' = v
    BY DEF LockDiscipline
  <2>1. (Holding(v) <=> holder = v) /\ (Holding(w) <=> holder = w)
    BY DEF LockDiscipline
  <2>2. CASE v = w
    BY <2>1, <2>2 DEF CapacityTypeOK, Holding
  <2>3. CASE v # w
    <3>1. pc'[v] = pc[v] /\ stage'[v] = stage[v]
      BY <2>3 DEF CapacityTypeOK
    <3> QED BY <2>1, <2>3, <3>1 DEF Holding
  <2> QED BY <2>2, <2>3
<1>3. OwnSlot'
  BY DEF CapacityTypeOK, OwnSlot
<1>4. RefillOnlyEmpty'
  BY DEF CapacityTypeOK, RefillOnlyEmpty, OwnSlot
<1>5. ScanIsSnapshot'
  <2> SUFFICES ASSUME NEW v \in Workers, pc'[v] \in {"load", "swap"},
                      stage'[v] = "scan", NEW t \in 1..(slot'[v] - 1)
               PROVE  escrow'[t] = 0
    BY DEF ScanIsSnapshot
  <2>1. pc[v] \in {"load", "swap"} /\ stage[v] = "scan" /\ slot'[v] = slot[v]
    BY DEF CapacityTypeOK
  <2>2. slot[v] \in Workers
    BY DEF CapacityTypeOK
  <2>3. t \in Workers
    BY <2>1, <2>2, PassedSlot
  <2> QED BY <2>1, <2>3 DEF ScanIsSnapshot
<1>6. Drained'
  BY DEF CapacityTypeOK, Drained
<1>7. Conservation'
  BY <1>e
<1> QED BY <1>1, <1>2, <1>3, <1>4, <1>5, <1>6, <1>7

(* A deposit: what was in the worker's hands is in its escrow.            *)
LEMMA DepositStep ==
    ASSUME CapacityInductive, NEW w \in Workers, Deposit(w)
    PROVE  CapacityInductive'
<1>a. /\ pc[w] = "store" /\ pc' = [pc EXCEPT ![w] = "load"]
      /\ stage' = [stage EXCEPT ![w] = "fast"]
      /\ slot' = [slot EXCEPT ![w] = w]
      /\ escrow' = [escrow EXCEPT ![w] = grant[w]]
      /\ deposited' = [deposited EXCEPT ![w] = grant[w]]
      /\ grant' = [grant EXCEPT ![w] = 0]
      /\ UNCHANGED <<unassigned, observed, admitted>>
  BY DEF Deposit, StartClaim, Goto
<1>b. holder = w /\ holder' = Free
  BY DEF CapacityInductive, LockDiscipline, Holding, Deposit, ReleaseIfHeld
<1>c. escrow \in Balances /\ grant \in Balances /\ escrow[w] = 0
  BY <1>a DEF CapacityInductive, CapacityTypeOK, RefillOnlyEmpty, Balances
<1>d. Conservation'
  <2>1. grant' \in Balances /\ grant'[w] = 0 /\ grant[w] \in 0..Capacity
    BY <1>a, <1>c, CapacityAssumption DEF Balances
  <2>2. grant = [grant' EXCEPT ![w] = grant[w]]
    BY <1>a, <1>c DEF Balances
  <2>3. Cardinality(Credits(grant)) = Cardinality(Credits(grant')) + grant[w]
    BY <2>1, <2>2, CreditsFill
  <2>4. Cardinality(Credits(escrow')) = Cardinality(Credits(escrow)) + grant[w]
    BY <1>a, <1>c, <2>1, CreditsFill
  <2>5. /\ Cardinality(Credits(grant')) \in Nat
        /\ Cardinality(Credits(escrow)) \in Nat
    BY <1>c, <2>1, CreditsFinite
  <2>6. unassigned \in Nat /\ admitted \in Nat /\ Capacity \in Nat /\ grant[w] \in Nat
    BY <2>1, CapacityAssumption DEF CapacityInductive, CapacityTypeOK
  <2> QED BY <1>a, <2>3, <2>4, <2>5, <2>6 DEF CapacityInductive, Conservation
<1> USE <1>a, <1>b, <1>c, CapacityAssumption, FreeIsNobody DEF CapacityInductive, Balances
<1>1. CapacityTypeOK'
  BY DEF CapacityTypeOK, Steps, Stages
<1>2. LockDiscipline'
  BY DEF CapacityTypeOK, LockDiscipline, Holding
<1>3. OwnSlot'
  BY DEF CapacityTypeOK, OwnSlot, LockDiscipline, Holding
<1>4. RefillOnlyEmpty'
  BY DEF CapacityTypeOK, RefillOnlyEmpty, LockDiscipline, Holding
<1>5. ScanIsSnapshot'
  BY DEF CapacityTypeOK, ScanIsSnapshot, LockDiscipline, Holding
<1>6. Drained'
  BY DEF CapacityTypeOK, Drained, LockDiscipline, Holding
<1>7. Conservation'
  BY <1>d
<1> QED BY <1>1, <1>2, <1>3, <1>4, <1>5, <1>6, <1>7

(* A load or a failed swap: the read itself, then what its value leads to. *)
LEMMA ReadSteps ==
    ASSUME CapacityInductive, NEW w \in Workers, Load(w) \/ LoseSwap(w)
    PROVE  CapacityInductive'
<1>a. PICK v \in Visible(slot[w]) : Saw(w, v)
  BY DEF Load, LoseSwap
<1>b. /\ pc[w] \in {"load", "swap"}
      /\ UNCHANGED <<unassigned, escrow, deposited, grant, admitted>>
  BY DEF Load, LoseSwap
<1>c. /\ v \in 0..Capacity
      /\ observed' = [observed EXCEPT ![w] = v]
      /\ v = 0 => escrow[slot[w]] = 0
  BY <1>a, <1>b, SawCases
<1>d. grant[w] = 0
  BY <1>b DEF CapacityInductive, OwnSlot
<1> USE <1>b, <1>c, <1>d, CapacityAssumption DEF CapacityInductive
<1>1. CASE /\ v # 0
          /\ pc' = [pc EXCEPT ![w] = "swap"]
          /\ UNCHANGED <<holder, stage, slot>>
  <2>1. CapacityTypeOK'
    BY <1>1 DEF CapacityTypeOK, Steps, Stages
  <2>2. LockDiscipline'
    BY <1>1 DEF CapacityTypeOK, LockDiscipline, Holding
  <2>3. OwnSlot'
    BY <1>1 DEF CapacityTypeOK, OwnSlot
  <2>4. RefillOnlyEmpty'
    BY <1>1 DEF CapacityTypeOK, RefillOnlyEmpty, OwnSlot
  <2>5. ScanIsSnapshot'
    BY <1>1 DEF CapacityTypeOK, ScanIsSnapshot
  <2>6. Drained'
    BY <1>1 DEF CapacityTypeOK, Drained
  <2>7. Conservation'
    BY <1>1 DEF Conservation, Credits
  <2> QED BY <2>1, <2>2, <2>3, <2>4, <2>5, <2>6, <2>7
<1>2. CASE /\ v = 0 /\ stage[w] = "fast"
          /\ pc' = [pc EXCEPT ![w] = "acquire"]
          /\ UNCHANGED <<holder, stage, slot>>
  <2>1. CapacityTypeOK'
    BY <1>2 DEF CapacityTypeOK, Steps, Stages
  <2>2. LockDiscipline'
    BY <1>2 DEF CapacityTypeOK, LockDiscipline, Holding
  <2>3. OwnSlot'
    BY <1>2 DEF CapacityTypeOK, OwnSlot
  <2>4. RefillOnlyEmpty'
    BY <1>2 DEF CapacityTypeOK, RefillOnlyEmpty, OwnSlot
  <2>5. ScanIsSnapshot'
    BY <1>2 DEF CapacityTypeOK, ScanIsSnapshot
  <2>6. Drained'
    BY <1>2 DEF CapacityTypeOK, Drained
  <2>7. Conservation'
    BY <1>2 DEF Conservation, Credits
  <2> QED BY <2>1, <2>2, <2>3, <2>4, <2>5, <2>6, <2>7
<1>3. CASE /\ v = 0 /\ stage[w] = "recheck" /\ slot[w] = w
          /\ pc' = [pc EXCEPT ![w] = "take"]
          /\ UNCHANGED <<holder, stage, slot>>
  <2>1. CapacityTypeOK'
    BY <1>3 DEF CapacityTypeOK, Steps, Stages
  <2>2. LockDiscipline'
    BY <1>3 DEF CapacityTypeOK, LockDiscipline, Holding
  <2>3. OwnSlot'
    BY <1>3 DEF CapacityTypeOK, OwnSlot
  <2>4. RefillOnlyEmpty'
    BY <1>3 DEF CapacityTypeOK, RefillOnlyEmpty, OwnSlot
  <2>5. ScanIsSnapshot'
    BY <1>3 DEF CapacityTypeOK, ScanIsSnapshot
  <2>6. Drained'
    BY <1>3 DEF CapacityTypeOK, Drained
  <2>7. Conservation'
    BY <1>3 DEF Conservation, Credits
  <2> QED BY <2>1, <2>2, <2>3, <2>4, <2>5, <2>6, <2>7
<1>4. CASE /\ v = 0 /\ stage[w] = "scan" /\ slot[w] < NumWorkers
          /\ pc' = [pc EXCEPT ![w] = "load"]
          /\ slot' = [slot EXCEPT ![w] = slot[w] + 1]
          /\ UNCHANGED <<holder, stage>>
  <2>1. CapacityTypeOK'
    <3>1. slot[w] + 1 \in Workers
      <4>1. slot[w] \in Workers
        BY DEF CapacityTypeOK
      <4> QED BY <1>4, <4>1, NextSlot
    <3> QED BY <1>4, <3>1 DEF CapacityTypeOK, Steps, Stages
  <2>2. LockDiscipline'
    BY <1>4 DEF CapacityTypeOK, LockDiscipline, Holding
  <2>3. OwnSlot'
    BY <1>4 DEF CapacityTypeOK, OwnSlot
  <2>4. RefillOnlyEmpty'
    BY <1>4 DEF CapacityTypeOK, RefillOnlyEmpty, OwnSlot
  <2>5. ScanIsSnapshot'
    <3> SUFFICES ASSUME NEW u \in Workers, pc'[u] \in {"load", "swap"},
                        stage'[u] = "scan", NEW t \in 1..(slot'[u] - 1)
                 PROVE  escrow'[t] = 0
      BY DEF ScanIsSnapshot
    <3>1. CASE u = w
      <4>1. slot'[w] = slot[w] + 1 /\ slot[w] \in Workers
        BY <1>4 DEF CapacityTypeOK
      <4>2. t = slot[w] \/ t \in 1..(slot[w] - 1)
        BY <3>1, <4>1 DEF Workers
      <4> QED BY <1>4, <4>2 DEF ScanIsSnapshot
    <3>2. CASE u # w
      BY <1>4, <3>2 DEF CapacityTypeOK, ScanIsSnapshot
    <3> QED BY <3>1, <3>2
  <2>6. Drained'
    BY <1>4 DEF CapacityTypeOK, Drained
  <2>7. Conservation'
    BY <1>4 DEF Conservation, Credits
  <2> QED BY <2>1, <2>2, <2>3, <2>4, <2>5, <2>6, <2>7
<1>5. CASE /\ v = 0 /\ stage[w] = "scan" /\ slot[w] = NumWorkers
          /\ pc' = [pc EXCEPT ![w] = "refused"]
          /\ holder = w /\ holder' = Free
          /\ UNCHANGED <<stage, slot>>
  <2>1. CapacityTypeOK'
    BY <1>5, FreeIsNobody DEF CapacityTypeOK, Steps, Stages
  <2>2. LockDiscipline'
    BY <1>5, FreeIsNobody DEF CapacityTypeOK, LockDiscipline, Holding
  <2>3. OwnSlot'
    BY <1>5 DEF CapacityTypeOK, OwnSlot
  <2>4. RefillOnlyEmpty'
    BY <1>5 DEF CapacityTypeOK, RefillOnlyEmpty, OwnSlot
  <2>5. ScanIsSnapshot'
    BY <1>5 DEF CapacityTypeOK, ScanIsSnapshot
  <2>6. Drained'
    <3>1. ASSUME NEW s \in Workers PROVE escrow[s] = 0
      <4>1. s = NumWorkers \/ s \in 1..(NumWorkers - 1)
        BY DEF Workers
      <4> QED BY <1>5, <4>1 DEF ScanIsSnapshot
    <3>2. ASSUME NEW s \in Workers PROVE grant[s] = 0
      BY <1>5 DEF OwnSlot, LockDiscipline, Holding
    <3>3. unassigned = 0
      BY <1>5 DEF Drained
    <3> QED BY <1>5, <3>1, <3>2, <3>3 DEF CapacityTypeOK, Drained
  <2>7. Conservation'
    BY <1>5 DEF Conservation, Credits
  <2> QED BY <2>1, <2>2, <2>3, <2>4, <2>5, <2>6, <2>7
<1> QED BY <1>a, <1>b, <1>1, <1>2, <1>3, <1>4, <1>5, SawCases

-----------------------------------------------------------------------------
(* A stuttering step changes nothing the invariant reads.                  *)
LEMMA Stutter == CapacityInductive /\ UNCHANGED vars => CapacityInductive'
<1> SUFFICES ASSUME CapacityInductive, UNCHANGED vars PROVE CapacityInductive'
  OBVIOUS
<1> USE DEF CapacityInductive, vars
<1>1. CapacityTypeOK' /\ LockDiscipline' /\ OwnSlot'
  BY DEF CapacityTypeOK, LockDiscipline, Holding, OwnSlot
<1>2. RefillOnlyEmpty' /\ ScanIsSnapshot' /\ Drained'
  BY DEF RefillOnlyEmpty, ScanIsSnapshot, Drained
<1>3. Conservation'
  BY DEF Conservation, Credits
<1> QED BY <1>1, <1>2, <1>3

(* The invariant is inductive.                                             *)
LEMMA NextInductive == CapacityInductive /\ [CapacityNext]_vars => CapacityInductive'
<1> SUFFICES ASSUME CapacityInductive, [CapacityNext]_vars PROVE CapacityInductive'
  OBVIOUS
<1>1. ASSUME NEW w \in Workers, Reserve(w) \/ Proceed(w) PROVE CapacityInductive'
  <2>1. CASE Reserve(w)
    BY <2>1, ReserveStep
  <2>2. CASE Load(w) \/ LoseSwap(w)
    BY <2>2, ReadSteps
  <2>3. CASE Claim(w)
    BY <2>3, ClaimStep
  <2>4. CASE Acquire(w)
    BY <2>4, AcquireStep
  <2>5. CASE Take(w)
    BY <2>5, TakeStep
  <2>6. CASE BeginScan(w)
    BY <2>6, BeginScanStep
  <2>7. CASE CheckEmpty(w)
    BY <2>7, CheckEmptyStep
  <2>8. CASE Deposit(w)
    BY <2>8, DepositStep
  <2> QED
    BY <1>1, <2>1, <2>2, <2>3, <2>4, <2>5, <2>6, <2>7, <2>8 DEF Proceed
<1> QED BY <1>1, Stutter DEF CapacityNext

(* Every reachable state satisfies the invariant.                          *)
THEOREM CapacityInvariant == CapacitySpec => []CapacityInductive
<1> QED BY InitInductive, NextInductive, PTL DEF CapacitySpec

(* The variables keep their types.                                         *)
THEOREM TypeCorrect == CapacitySpec => []CapacityTypeOK
<1>1. CapacityInductive => CapacityTypeOK
  BY DEF CapacityInductive
<1> QED BY <1>1, CapacityInvariant, PTL

(* No position is lost or made up by any interleaving of claims, refills   *)
(* and scans (try_reserve, deposit, try_claim).                            *)
THEOREM PositionsConserved == CapacitySpec => []Conservation
<1>1. CapacityInductive => Conservation
  BY DEF CapacityInductive
<1> QED BY <1>1, CapacityInvariant, PTL

(* deposit never meets, nor overwrites, a nonempty escrow: its framework   *)
(* violation is unreachable.                                               *)
THEOREM NeverRefilledNonempty == CapacitySpec => []RefillOnlyEmpty
<1>1. CapacityInductive => RefillOnlyEmpty
  BY DEF CapacityInductive
<1> QED BY <1>1, CapacityInvariant, PTL

(* What a donor scan has passed stays empty until the scan ends.           *)
THEOREM ScanSnapshot == CapacitySpec => []ScanIsSnapshot
<1>1. CapacityInductive => ScanIsSnapshot
  BY DEF CapacityInductive
<1> QED BY <1>1, CapacityInvariant, PTL

(* In a state of the invariant a refusal accounts for every position.      *)
LEMMA RefusalIsExact == CapacityInductive => ExactExhaustion
<1> SUFFICES ASSUME CapacityInductive, NEW w \in Workers, pc[w] = "refused"
             PROVE  admitted = Capacity
  BY DEF ExactExhaustion
<1>1. escrow \in Balances /\ grant \in Balances
  BY DEF CapacityInductive, CapacityTypeOK, Balances
<1>2. unassigned = 0 /\ \A s \in Workers : escrow[s] = 0 /\ grant[s] = 0
  BY DEF CapacityInductive, Drained
<1>3. Cardinality(Credits(escrow)) = 0 /\ Cardinality(Credits(grant)) = 0
  BY <1>1, <1>2, CreditsNone
<1>4. admitted \in Nat
  BY CapacityAssumption DEF CapacityInductive, CapacityTypeOK
<1> QED BY <1>2, <1>3, <1>4 DEF CapacityInductive, Conservation

(* try_reserve answers false only when every position has been admitted:   *)
(* the comment that a complete zero scan proves exact exhaustion.          *)
THEOREM RefusedOnlyWhenSpent == CapacitySpec => []ExactExhaustion
<1> QED BY RefusalIsExact, CapacityInvariant, PTL

-----------------------------------------------------------------------------
(* The initial states map to the abstract one.                             *)
LEMMA AdmissionInit == CapacityInit => Admission!Init
  BY DEF CapacityInit, Admission!Init, Request

(* A worker that stays pending and one that does not move map to           *)
(* themselves: only the request of the stepping worker can change.         *)
LEMMA AdmissionStep == CapacityInductive /\ CapacityInductive' /\ [CapacityNext]_vars => [Admission!Next]_(Admission!vars)
<1> SUFFICES ASSUME CapacityInductive, CapacityInductive', [CapacityNext]_vars
             PROVE  [Admission!Next]_(Admission!vars)
  OBVIOUS
<1> DEFINE request == [w \in Workers |-> Request(w)]
<1>1. CASE UNCHANGED vars
  BY <1>1 DEF vars, Admission!vars, Request
<1>2. ASSUME NEW w \in Workers, Reserve(w) \/ Proceed(w)
      PROVE  [Admission!Next]_(Admission!vars)
  <2>1. pc \in [Workers -> Steps] /\ pc' \in [Workers -> Steps]
    BY DEF CapacityInductive, CapacityTypeOK
  <2>2. PICK p \in Steps : pc' = [pc EXCEPT ![w] = p]
    BY <1>2, <2>1 DEF Reserve, Proceed, Load, LoseSwap, Claim, Acquire, Take,
         BeginScan, CheckEmpty, Deposit, StartClaim, Goto, Saw, Miss, Steps
  <2>3. CASE Reserve(w)
    <3>1. pc[w] = "idle" /\ pc'[w] = "load" /\ admitted' = admitted
      BY <2>1, <2>3 DEF Reserve, StartClaim, Goto
    <3>2. request' = [request EXCEPT ![w] = "pending"] /\ request[w] = "none"
      BY <2>1, <2>2, <3>1 DEF Request
    <3>3. Admission!Ask(w)
      BY <3>1, <3>2 DEF Admission!Ask
    <3> QED BY <3>3 DEF Admission!Next
  <2>4. CASE Claim(w)
    <3>1. pc[w] = "swap" /\ pc'[w] = "idle" /\ admitted' = admitted + 1
      BY <2>1, <2>4 DEF Claim, Goto
    <3>2. request' = [request EXCEPT ![w] = "none"] /\ request[w] = "pending"
      BY <2>1, <2>2, <3>1 DEF Request
    <3>3. admitted < Capacity
      BY <3>1, CapacityAssumption DEF CapacityInductive, CapacityTypeOK
    <3>4. Admission!Admit(w)
      BY <3>1, <3>2, <3>3 DEF Admission!Admit
    <3> QED BY <3>4 DEF Admission!Next
  <2>5. CASE ~Reserve(w) /\ ~Claim(w)
    <3>1. pc[w] \notin {"idle", "refused"} /\ p # "idle" /\ admitted' = admitted
      BY <1>2, <2>1, <2>2, <2>5 DEF Proceed, Load, LoseSwap, Acquire, Take,
           BeginScan, CheckEmpty, Deposit, StartClaim, Goto, Saw, Miss, Steps
    <3>2. CASE p = "refused"
      <4>1. request' = [request EXCEPT ![w] = "refused"] /\ request[w] = "pending"
        BY <2>1, <2>2, <3>1, <3>2 DEF Request
      <4>2. admitted = Capacity
        <5>1. ExactExhaustion'
          BY RefusalIsExact, PTL
        <5> QED BY <2>1, <2>2, <3>1, <3>2, <5>1 DEF ExactExhaustion
      <4>3. Admission!Refuse(w)
        BY <3>1, <4>1, <4>2 DEF Admission!Refuse
      <4> QED BY <4>3 DEF Admission!Next
    <3>3. CASE p # "refused"
      <4>1. request' = request
        BY <2>1, <2>2, <3>1, <3>3 DEF Request
      <4> QED BY <3>1, <4>1 DEF Admission!vars
    <3> QED BY <3>2, <3>3
  <2> QED BY <2>3, <2>4, <2>5
<1> QED BY <1>1, <1>2 DEF CapacityNext

(* The compare-and-swap protocol implements atomic admission.              *)
THEOREM ImplementsAdmission == CapacitySpec => ExactAdmission
<1> QED
  BY AdmissionInit, AdmissionStep, CapacityInvariant, PTL
     DEF CapacitySpec, ExactAdmission, Admission!Spec

-----------------------------------------------------------------------------
(* The journal.                                                            *)

Left == Remaining(cursor)
Ahead == Cardinality(Outstanding)

Recording == mode \in {"serial", "cohort"}

Shape ==
    /\ Recording => at = <<1, 1>>
    /\ ~ Recording => working = {}
    /\ mode = "idle" => journals = <<>> /\ at = <<1, 1>>
    /\ mode = "serial" => journals # <<>>
    /\ at[1] \in Nat \ {0} /\ at[2] \in Nat \ {0}

ReservedAhead ==
    mode = "serial" =>
        \/ reserved = {} /\ Ahead = Left
        \/ \E c \in Cursors : reserved = {c} /\ Remaining(c) = Left - Ahead - 1

(* Somebody will mark the indexes of t dirty.                              *)
Due(t) == \E e \in Outstanding : TypeOf(journals[e[1]][e[2]].place) = t

IndexesFollow == \A t \in outdated : t \in dirty \/ Due(t) \/ PutOff(t)

Inductive ==
    /\ TypeOK /\ Shape
    /\ IsFiniteSet(Outstanding) /\ Ahead <= Left
    /\ ReservedAhead
    /\ IndexesFollow

-----------------------------------------------------------------------------
(* The positions that are left.                                            *)

LEMMA Products ==
    ASSUME NEW a \in Int, NEW b \in Int
    PROVE  /\ a * b \in Int
           /\ (a - 1) * b = a * b - b
           /\ a \in Nat /\ b \in Nat => a * b \in Nat
           /\ a >= 1 /\ b >= 1 => a * b >= b
OBVIOUS

LEMMA RemainingCounts ==
    ASSUME NEW c \in Cursors
    PROVE  /\ Remaining(c) \in Nat
           /\ Exhausted(c) <=> Remaining(c) = 0
           /\ ~ Exhausted(c) => /\ NextCursor(c) \in Cursors
                                /\ Remaining(NextCursor(c)) = Remaining(c) - 1
<1> DEFINE a == EpochMax - c.epoch
           b == TickMax + 1
<1>1. /\ EpochMax \in Nat /\ TickMax \in Nat
      /\ c.epoch \in 0..EpochMax /\ c.tick \in 0..TickMax
      /\ c = [epoch |-> c.epoch, tick |-> c.tick]
  BY CursorAssumption DEF Cursors
<1>2. /\ a \in Nat /\ b \in Nat /\ b >= 1
  BY <1>1
<1>3. Remaining(c) = a * b + (TickMax - c.tick)
  BY DEF Remaining
<1>4. a * b \in Nat /\ (a >= 1 => a * b >= b) /\ (a = 0 => a * b = 0)
  <2> HIDE DEF a, b
  <2> QED BY <1>2, Products
<1>5. Exhausted(c) <=> a = 0 /\ c.tick = TickMax
  BY <1>1 DEF Exhausted
<1>6. Remaining(c) \in Nat /\ (Exhausted(c) <=> Remaining(c) = 0)
  <2>1. TickMax - c.tick \in Nat
    BY <1>1
  <2> HIDE DEF a
  <2> QED BY <1>1, <1>2, <1>3, <1>4, <1>5, <2>1
<1>7. ASSUME ~ Exhausted(c)
      PROVE  /\ NextCursor(c) \in Cursors
             /\ Remaining(NextCursor(c)) = Remaining(c) - 1
  <2>1. CASE c.tick = TickMax
    <3>1. NextCursor(c) = [epoch |-> c.epoch + 1, tick |-> 0] /\ a >= 1
      BY <1>1, <1>5, <1>7, <2>1 DEF NextCursor
    <3>2. NextCursor(c) \in Cursors
      BY <1>1, <3>1 DEF Cursors
    <3>3. EpochMax - (c.epoch + 1) = a - 1
      BY <1>1
    <3>4. Remaining(NextCursor(c)) = (a - 1) * b + (TickMax - 0)
      BY <3>1, <3>3 DEF Remaining
    <3>5. (a - 1) * b = a * b - b
      <4> HIDE DEF a, b
      <4> QED BY <1>2, Products
    <3>6. a * b + (TickMax - c.tick) = a * b
      <4> HIDE DEF a, b
      <4> QED BY <1>1, <1>4, <2>1
    <3>7. a * b - b + (TickMax - 0) = a * b - 1
      <4>1. b = TickMax + 1
        OBVIOUS
      <4> HIDE DEF a, b
      <4> QED BY <1>1, <1>4, <4>1
    <3> HIDE DEF a, b
    <3> QED BY <1>3, <3>2, <3>4, <3>5, <3>6, <3>7
  <2>2. CASE c.tick # TickMax
    <3>1. NextCursor(c) = [epoch |-> c.epoch, tick |-> c.tick + 1]
      BY <2>2 DEF NextCursor
    <3>2. NextCursor(c) \in Cursors
      BY <1>1, <2>2, <3>1 DEF Cursors
    <3>3. Remaining(NextCursor(c)) = a * b + (TickMax - (c.tick + 1))
      BY <3>1 DEF Remaining
    <3> HIDE DEF a, b
    <3> QED BY <1>1, <1>3, <1>4, <3>2, <3>3
  <2> QED BY <2>1, <2>2
<1> QED BY <1>6, <1>7

-----------------------------------------------------------------------------
(* The events that are outstanding.                                        *)

LEMMA OutstandingMeans ==
    /\ \A j, i : <<j, i>> \in Outstanding <=>
          /\ j \in DOMAIN journals /\ i \in DOMAIN journals[j]
          /\ j > at[1] \/ (j = at[1] /\ i >= at[2])
    /\ \A e \in Outstanding : e = <<e[1], e[2]>>
BY DEF Outstanding

LEMMA NoneOutstanding == ASSUME mode = "idle", Inductive
                         PROVE  Outstanding = {} /\ Ahead = 0
<1>1. journals = <<>>
  BY DEF Inductive, Shape
<1>2. Outstanding = {}
  BY <1>1 DEF Outstanding
<1> QED BY <1>2, FS_EmptySet DEF Ahead

(* What Push does to the journals.                                         *)
LEMMA PushAppends ==
    ASSUME Inductive, Recording, NEW w \in working, NEW p \in Places,
           NEW target \in BOOLEAN, Push(w, p, target)
    PROVE  /\ journals' \in Seq(Seq(Event)) /\ DOMAIN journals' = DOMAIN journals
           /\ w \in DOMAIN journals
           /\ DOMAIN journals'[w] = DOMAIN journals[w] \union {Len(journals[w]) + 1}
           /\ Len(journals[w]) + 1 \notin DOMAIN journals[w]
           /\ Len(journals[w]) + 1 \in Nat \ {0}
           /\ journals'[w][Len(journals[w]) + 1].place = p
           /\ \A j \in DOMAIN journals : \A i \in DOMAIN journals[j] :
                 journals'[j][i] = journals[j][i]
           /\ \A j \in DOMAIN journals : j # w => journals'[j] = journals[j]
<1> DEFINE ev == [place |-> p, target |-> target]
<1>1. ev \in Event
  BY DEF Event
<1>2. w \in DOMAIN journals /\ journals \in Seq(Seq(Event))
  BY DEF Inductive, TypeOK
<1>3. journals' = [journals EXCEPT ![w] = Append(@, ev)]
  BY DEF Push
<1>4. journals[w] \in Seq(Event)
  BY <1>2
<1>5. /\ Append(journals[w], ev) \in Seq(Event)
      /\ Len(Append(journals[w], ev)) = Len(journals[w]) + 1
      /\ Append(journals[w], ev)[Len(journals[w]) + 1] = ev
      /\ \A i \in 1..Len(journals[w]) : Append(journals[w], ev)[i] = journals[w][i]
  BY <1>1, <1>4, AppendProperties
<1>6. ev.place = p
  OBVIOUS
<1> HIDE DEF ev
<1>7. journals' \in Seq(Seq(Event)) /\ DOMAIN journals' = DOMAIN journals
  BY <1>2, <1>3, <1>5, ExceptSeq, LenProperties
<1>8. journals'[w] = Append(journals[w], ev)
  BY <1>2, <1>3
<1>9. \A j \in DOMAIN journals : j # w => journals'[j] = journals[j]
  BY <1>2, <1>3
<1>10. DOMAIN journals'[w] = DOMAIN journals[w] \union {Len(journals[w]) + 1}
  BY <1>4, <1>5, <1>8
<1>11. /\ Len(journals[w]) + 1 \notin DOMAIN journals[w]
       /\ Len(journals[w]) + 1 \in Nat \ {0}
  BY <1>4
<1>12. \A j \in DOMAIN journals : \A i \in DOMAIN journals[j] :
          journals'[j][i] = journals[j][i]
  BY <1>4, <1>5, <1>8, <1>9
<1> QED BY <1>2, <1>5, <1>6, <1>7, <1>8, <1>9, <1>10, <1>11, <1>12

LEMMA PushOutstanding ==
    ASSUME Inductive, Recording, NEW w \in working, NEW p \in Places,
           NEW target \in BOOLEAN, Push(w, p, target)
    PROVE  /\ Outstanding' = Outstanding \union {<<w, Len(journals[w]) + 1>>}
           /\ <<w, Len(journals[w]) + 1>> \notin Outstanding
           /\ IsFiniteSet(Outstanding') /\ Ahead' = Ahead + 1
<1> DEFINE n == Len(journals[w]) + 1
<1>1. /\ DOMAIN journals' = DOMAIN journals /\ w \in DOMAIN journals
      /\ DOMAIN journals'[w] = DOMAIN journals[w] \union {n}
      /\ n \notin DOMAIN journals[w] /\ n \in Nat \ {0}
      /\ \A j \in DOMAIN journals : j # w => journals'[j] = journals[j]
  BY PushAppends
<1>2. at = <<1, 1>> /\ at' = at
  BY DEF Push, Inductive, Shape
<1>3. \A j \in DOMAIN journals : j \in Nat \ {0}
  BY DEF Inductive, TypeOK
<1> HIDE DEF n
<1>4. \A j, i : <<j, i>> \in Outstanding' <=>
         /\ j \in DOMAIN journals' /\ i \in DOMAIN journals'[j]
         /\ j > at'[1] \/ (j = at'[1] /\ i >= at'[2])
  BY DEF Outstanding
<1>5. \A e \in Outstanding' : e = <<e[1], e[2]>>
  BY DEF Outstanding
<1>6. <<w, n>> \in Outstanding'
  BY <1>1, <1>2, <1>3, <1>4
<1>7. <<w, n>> \notin Outstanding
  BY <1>1, OutstandingMeans
<1>8. \A j, i : <<j, i>> \in Outstanding' <=>
         <<j, i>> \in Outstanding \/ (j = w /\ i = n)
  BY <1>1, <1>2, <1>4, <1>6, OutstandingMeans, ZenonT(30)
<1>9. Outstanding' = Outstanding \union {<<w, n>>}
  <2>1. \A e \in Outstanding' : e \in Outstanding \union {<<w, n>>}
    BY <1>5, <1>8
  <2>2. \A e \in Outstanding : e \in Outstanding'
    BY <1>8, OutstandingMeans
  <2> QED BY <1>6, <2>1, <2>2
<1>10. IsFiniteSet(Outstanding)
  BY DEF Inductive
<1>11. IsFiniteSet(Outstanding') /\ Ahead' = Ahead + 1
  BY <1>7, <1>9, <1>10, FS_AddElement DEF Ahead
<1> QED BY <1>7, <1>9, <1>11 DEF n

(* Nothing but an event in turn puts a mark off.                           *)
LEMMA NothingPutOff ==
    ASSUME mode # "replay" \/ at[2] = 1 \/ at[1] \notin DOMAIN journals
           \/ at[2] \notin DOMAIN journals[at[1]],
           Inductive
    PROVE  \A t : ~ PutOff(t)
<1>1. CASE at[2] = 1
  <2>1. /\ 0 \notin DOMAIN journals[at[1]] \/ at[1] \notin DOMAIN journals
    BY DEF Inductive, TypeOK
  <2> QED BY <1>1, <2>1 DEF PutOff, RunGoesOn
<1>2. CASE at[2] \notin DOMAIN journals[at[1]]
  <2>1. at[2] - 1 + 1 = at[2]
    BY DEF Inductive, Shape
  <2> QED BY <1>2, <2>1 DEF PutOff, RunGoesOn
<1> QED BY <1>1, <1>2 DEF PutOff

(* The words of the promise are those of the journal.                      *)
LEMMA SameWords ==
    /\ \A c : /\ Observed!Remaining(c) = Remaining(c)
              /\ Observed!Exhausted(c) = Exhausted(c)
              /\ Observed!NextCursor(c) = NextCursor(c)
    /\ \A a, b : Observed!Before(a, b) = Before(a, b)
    /\ \A p : Observed!TypeOf(p) = TypeOf(p)
    /\ Observed!Places = Places /\ Observed!Components = Components
    /\ Observed!ObservedTypes = ObservedTypes /\ Observed!Cursors = Cursors
BY DEF Observed!Remaining, Remaining, Observed!Exhausted, Exhausted,
   Observed!NextCursor, NextCursor, Observed!Before, Before, Observed!TypeOf,
   TypeOf, Observed!Places, Places, Observed!Components, Components,
   Observed!ObservedTypes, ObservedTypes, Observed!Cursors, Cursors

(* The marks as they are told.                                             *)
Seen == [t \in ObservedTypes |-> IF PutOff(t) THEN cursor ELSE typeTick[t]]

LEMMA SeenAsIs ==
    ASSUME Inductive, \A t : ~ PutOff(t)
    PROVE  Seen = typeTick
BY DEF Seen, Inductive, TypeOK

LEMMA TypesOfPlaces ==
    ASSUME NEW p \in Places
    PROVE  TypeOf(p) \in ObservedTypes
BY DEF Places, TypeOf, ObservedTypes, Components

-----------------------------------------------------------------------------
LEMMA InductiveAtFirst == Init => Inductive
<1> SUFFICES ASSUME Init PROVE Inductive
  OBVIOUS
<1>1. Watched \in Cursors
  BY PlacesAssumption
<1>2. TypeOK
  BY <1>1 DEF Init, TypeOK
<1>3. Shape
  BY DEF Init, Shape, Recording
<1>4. Outstanding = {}
  BY DEF Init, Outstanding
<1>5. IsFiniteSet(Outstanding) /\ Ahead = 0
  BY <1>4, FS_EmptySet DEF Ahead
<1>6. Ahead <= Left
  BY <1>1, <1>5, RemainingCounts DEF Init, Left
<1>7. ReservedAhead /\ IndexesFollow
  BY DEF Init, ReservedAhead, IndexesFollow
<1> QED BY <1>2, <1>3, <1>5, <1>6, <1>7 DEF Inductive

(* Between runs nothing is outstanding and nothing is put off.             *)
LEMMA Idle ==
    ASSUME Inductive, mode = "idle", UNCHANGED running
    PROVE  /\ Ahead = 0 /\ Ahead' = 0 /\ IsFiniteSet(Outstanding')
           /\ \A t : ~ PutOff(t) /\ ~ PutOff(t)' /\ ~ Due(t) /\ ~ Due(t)'
           /\ Shape' /\ ReservedAhead'
           /\ Seen = typeTick
           /\ outdated \subseteq dirty
<1>1. Outstanding = {} /\ Ahead = 0
  BY NoneOutstanding
<1>2. Outstanding' = Outstanding
  BY DEF Outstanding, running
<1>3. IsFiniteSet(Outstanding') /\ Ahead' = 0
  BY <1>1, <1>2 DEF Ahead, Inductive
<1>4. \A t : ~ PutOff(t) /\ ~ PutOff(t)'
  BY DEF PutOff, running
<1>5. \A t : ~ Due(t) /\ ~ Due(t)'
  BY <1>1, <1>2 DEF Due
<1>6. Shape' /\ ReservedAhead'
  BY DEF Shape, ReservedAhead, running, Inductive, Recording
<1>7. outdated \subseteq dirty
  BY <1>4, <1>5 DEF Inductive, IndexesFollow
<1> QED BY <1>1, <1>3, <1>4, <1>5, <1>6, <1>7, SeenAsIs

(* A mutation outside a run is promised and kept at once.                  *)
LEMMA MarkedAtOnce ==
    ASSUME Inductive, mode = "idle", ~ Exhausted(cursor), NEW p \in Places,
           Advance(p), MarkType(TypeOf(p)), UNCHANGED running,
           present' \subseteq Resources,
           outdated' \subseteq outdated \union ({TypeOf(p)} \intersect Components),
           answer' = "granted"
    PROVE  Inductive' /\ Observed!Change(p)
<1>1. /\ Ahead = 0 /\ Ahead' = 0 /\ IsFiniteSet(Outstanding')
      /\ \A t : ~ PutOff(t) /\ ~ PutOff(t)'
      /\ Shape' /\ ReservedAhead'
      /\ Seen = typeTick /\ outdated \subseteq dirty
  BY Idle
<1>2. TypeOf(p) \in ObservedTypes
  BY TypesOfPlaces
<1>3. cursor' \in Cursors
  BY RemainingCounts DEF Advance, Inductive, TypeOK
<1>4. TypeOK'
  BY <1>2, <1>3 DEF TypeOK, Inductive, Advance, MarkType, running
<1>5. Ahead' <= Left'
  BY <1>1, <1>3, RemainingCounts DEF Left
<1>6. IndexesFollow'
  BY <1>1 DEF IndexesFollow, MarkType
<1>7. Inductive'
  BY <1>1, <1>4, <1>5, <1>6 DEF Inductive
<1>8. Seen' = typeTick'
  BY <1>1, <1>4 DEF Seen, TypeOK
<1>9. Observed!Mark(p)
  BY <1>1, <1>8, SameWords DEF Observed!Mark, Observed!MarkRow, Advance, MarkType, Seen
<1>10. Observed!Change(p)
  BY <1>1, <1>9, SameWords DEF Observed!Change, Ahead
<1> QED BY <1>7, <1>10

LEMMA DirectStep ==
    ASSUME Inductive, NEW p \in Places, Direct(p)
    PROVE  Inductive' /\ Observed!Change(p)
<1>1. present' \subseteq Resources
  BY DEF Direct, Inductive, TypeOK, Places, TypeOf
<1> QED BY <1>1, MarkedAtOnce DEF Direct

LEMMA RemoveResourceStep ==
    ASSUME Inductive, NEW t \in Resources, RemoveResource(t)
    PROVE  Inductive' /\ Observed!Change(<<NoEntity, t>>)
<1>1. <<NoEntity, t>> \in Places /\ TypeOf(<<NoEntity, t>>) = t
  BY DEF Places, TypeOf
<1>2. present' \subseteq Resources
  BY DEF RemoveResource, Inductive, TypeOK
<1> QED BY <1>1, <1>2, MarkedAtOnce DEF RemoveResource

(* What leaves the marks and the run alone.                                *)
LEMMA OnlyAnswered ==
    ASSUME Inductive, mode = "idle", UNCHANGED running,
           UNCHANGED <<cursor, rowTick, typeTick>>,
           dirty' \subseteq Components, present' \subseteq Resources,
           outdated' \subseteq outdated, outdated' \subseteq dirty'
    PROVE  /\ Inductive' /\ Ahead = 0 /\ Ahead' = 0
           /\ Seen = typeTick /\ Seen' = Seen
<1>1. /\ Ahead = 0 /\ Ahead' = 0 /\ IsFiniteSet(Outstanding')
      /\ \A t : ~ PutOff(t) /\ ~ PutOff(t)'
      /\ Shape' /\ ReservedAhead'
      /\ Seen = typeTick
  BY Idle
<1>2. TypeOK'
  BY DEF TypeOK, Inductive, running
<1>3. Ahead' <= Left'
  BY <1>1, RemainingCounts DEF Left, Inductive, TypeOK
<1>4. IndexesFollow'
  BY DEF IndexesFollow
<1>5. Inductive'
  BY <1>1, <1>2, <1>3, <1>4 DEF Inductive
<1>6. Seen' = Seen
  BY <1>1, <1>2 DEF Seen
<1> QED BY <1>1, <1>5, <1>6

LEMMA DirectExhaustedStep ==
    ASSUME Inductive, DirectExhausted
    PROVE  Inductive' /\ Observed!Refuse
<1>1. outdated \subseteq dirty
  BY Idle DEF DirectExhausted
<1>2. present' \subseteq Resources
  BY DEF DirectExhausted, Inductive, TypeOK
<1>3. /\ Inductive' /\ Ahead = 0 /\ Ahead' = 0
      /\ Seen = typeTick /\ Seen' = Seen
  BY <1>1, <1>2, OnlyAnswered DEF DirectExhausted, marks, Inductive, TypeOK
<1>4. Remaining(cursor) = 0
  BY RemainingCounts DEF DirectExhausted, Inductive, TypeOK
<1>5. Observed!Refuse
  BY <1>3, <1>4, SameWords DEF Observed!Refuse, Observed!recordVars, DirectExhausted,
     marks, Seen, Ahead
<1> QED BY <1>3, <1>5

LEMMA TypeChangedSinceStep ==
    ASSUME Inductive, NEW t \in ObservedTypes, NEW since \in Cursors,
           TypeChangedSince(t, since)
    PROVE  Inductive' /\ Observed!AskType(t, since)
<1>1. outdated \subseteq dirty
  BY Idle DEF TypeChangedSince
<1>2. /\ Inductive' /\ Ahead = 0 /\ Ahead' = 0
      /\ Seen = typeTick /\ Seen' = Seen
  BY <1>1, OnlyAnswered DEF TypeChangedSince, marks, Inductive, TypeOK
<1>3. Observed!AskType(t, since)
  BY <1>2, SameWords DEF Observed!AskType, Observed!Told, Observed!recordVars,
     TypeChangedSince, marks, Seen, Ahead
<1> QED BY <1>2, <1>3

LEMMA RowChangedSinceStep ==
    ASSUME Inductive, NEW r \in Rows, NEW since \in Cursors,
           RowChangedSince(r, since)
    PROVE  Inductive' /\ Observed!AskRow(r, since)
<1>1. outdated \subseteq dirty
  BY Idle DEF RowChangedSince
<1>2. /\ Inductive' /\ Ahead = 0 /\ Ahead' = 0
      /\ Seen = typeTick /\ Seen' = Seen
  BY <1>1, OnlyAnswered DEF RowChangedSince, marks, Inductive, TypeOK
<1>3. Observed!AskRow(r, since)
  BY <1>2, SameWords DEF Observed!AskRow, Observed!Told, Observed!recordVars,
     RowChangedSince, marks, Seen, Ahead
<1> QED BY <1>2, <1>3

LEMMA LookupStep ==
    ASSUME Inductive, NEW t \in Components, Lookup(t)
    PROVE  Inductive' /\ Observed!AskIndex
<1>1. outdated \subseteq dirty
  BY Idle DEF Lookup
<1>2. outdated' \subseteq dirty' /\ t \notin outdated'
  BY <1>1 DEF Lookup
<1>3. /\ Inductive' /\ Ahead = 0 /\ Ahead' = 0
      /\ Seen = typeTick /\ Seen' = Seen
  BY <1>2, OnlyAnswered DEF Lookup, Inductive, TypeOK
<1>4. Observed!AskIndex
  BY <1>2, <1>3 DEF Observed!AskIndex, Observed!recordVars, Lookup, Seen, Ahead
<1> QED BY <1>3, <1>4

-----------------------------------------------------------------------------
(* A run.                                                                  *)

(* A run starts with empty journals and is not noticed.                    *)
LEMMA Started ==
    ASSUME Inductive, mode = "idle", mode' \in {"serial", "cohort"},
           journals' \in Seq(Seq(Event)), journals' # <<>>,
           \A j \in DOMAIN journals' : journals'[j] = <<>>,
           working' \subseteq DOMAIN journals',
           reserved' = IF mode' = "serial" THEN Successor(cursor) ELSE reserved,
           UNCHANGED <<marks, present, outdated, at, answer>>
    PROVE  Inductive' /\ UNCHANGED Observed!observedVars
<1>1. Ahead = 0 /\ outdated \subseteq dirty /\ Seen = typeTick
  <2>1. Outstanding = {} /\ Ahead = 0
    BY NoneOutstanding
  <2>2. \A t : ~ PutOff(t) /\ ~ Due(t)
    BY <2>1 DEF PutOff, Due
  <2> QED BY <2>1, <2>2, SeenAsIs DEF Inductive, IndexesFollow
<1>2. Outstanding' = {}
  BY DEF Outstanding
<1>3. IsFiniteSet(Outstanding') /\ Ahead' = 0
  BY <1>2, FS_EmptySet DEF Ahead
<1>4. cursor \in Cursors /\ cursor' = cursor
  BY DEF marks, Inductive, TypeOK
<1>5. Successor(cursor) \subseteq Cursors
  BY <1>4, RemainingCounts DEF Successor
<1>6. TypeOK'
  BY <1>5 DEF TypeOK, Inductive, marks
<1>7. Shape'
  BY DEF Shape, Recording, Inductive
<1>8. Left' = Left /\ Left \in Nat
  BY <1>4, RemainingCounts DEF Left
<1>9. ReservedAhead'
  <2> SUFFICES ASSUME mode' = "serial" PROVE ReservedAhead'
    BY DEF ReservedAhead
  <2>1. CASE Exhausted(cursor)
    <3>1. reserved' = {} /\ Left' = 0
      BY <1>4, <1>8, <2>1, RemainingCounts DEF Successor, Left
    <3> QED BY <1>3, <3>1 DEF ReservedAhead
  <2>2. CASE ~ Exhausted(cursor)
    <3>1. /\ reserved' = {NextCursor(cursor)} /\ NextCursor(cursor) \in Cursors
          /\ Remaining(NextCursor(cursor)) = Left - 1
      BY <1>4, <2>2, RemainingCounts DEF Successor, Left
    <3>2. Left' - Ahead' - 1 = Left - 1
      BY <1>3, <1>8
    <3> QED BY <3>1, <3>2 DEF ReservedAhead
  <2> QED BY <2>1, <2>2
<1>10. IndexesFollow'
  BY <1>1 DEF IndexesFollow, marks
<1>11. Inductive'
  BY <1>3, <1>6, <1>7, <1>8, <1>9, <1>10 DEF Inductive
<1>12. Seen' = typeTick'
  <2>1. \A t : ~ PutOff(t)'
    BY DEF PutOff
  <2> QED BY <1>6, <2>1 DEF Seen, TypeOK
<1>13. UNCHANGED Observed!observedVars
  BY <1>1, <1>3, <1>12 DEF Observed!observedVars, Observed!recordVars, Seen,
     Ahead, marks
<1> QED BY <1>11, <1>13

LEMMA StartSerialStep ==
    ASSUME Inductive, StartSerial
    PROVE  Inductive' /\ UNCHANGED Observed!observedVars
<1>1. journals' \in Seq(Seq(Event)) /\ journals' # <<>> /\ DOMAIN journals' = {1}
      /\ journals'[1] = <<>>
  BY DEF StartSerial
<1> QED BY <1>1, Started DEF StartSerial

LEMMA StartCohortStep ==
    ASSUME Inductive, NEW n \in 1..CohortMax, StartCohort(n)
    PROVE  Inductive' /\ UNCHANGED Observed!observedVars
<1>1. n \in Nat \ {0}
  BY JournalAssumption
<1>2. journals' = [w \in 1..n |-> <<>>]
  BY DEF StartCohort
<1>3. journals' \in [1..n -> Seq(Event)] /\ DOMAIN journals' = 1..n
  BY <1>2
<1>4. journals' \in Seq(Seq(Event))
  BY <1>1, <1>3, SeqDef
<1>5. journals' # <<>>
  BY <1>1, <1>3
<1>6. /\ mode = "idle" /\ mode' = "cohort" /\ working' = 1..n
      /\ reserved' = reserved
      /\ UNCHANGED <<marks, present, outdated, at, answer>>
  BY DEF StartCohort
<1>7. \A j \in DOMAIN journals' : journals'[j] = <<>>
  BY <1>2
<1> HIDE DEF StartCohort
<1> QED BY <1>3, <1>4, <1>5, <1>6, <1>7, Started

(* An event recorded is a position promised.                               *)
LEMMA Recorded ==
    ASSUME Inductive, Recording, NEW w \in working, NEW p \in Places,
           NEW target \in BOOLEAN, Push(w, p, target),
           Ahead < Left, reserved' \subseteq Cursors, ReservedAhead'
    PROVE  Inductive' /\ Observed!Promise
<1>1. /\ journals' \in Seq(Seq(Event)) /\ DOMAIN journals' = DOMAIN journals
      /\ \A j \in DOMAIN journals : \A i \in DOMAIN journals[j] :
            journals'[j][i] = journals[j][i]
      /\ journals'[w][Len(journals[w]) + 1].place = p
  BY PushAppends
<1>2. /\ Outstanding' = Outstanding \union {<<w, Len(journals[w]) + 1>>}
      /\ IsFiniteSet(Outstanding') /\ Ahead' = Ahead + 1
  BY PushOutstanding
<1>3. \A t : ~ PutOff(t) /\ ~ PutOff(t)'
  BY DEF PutOff, Recording, Push
<1>4. Seen = typeTick
  BY <1>3, SeenAsIs
<1>5. TypeOK'
  BY <1>1 DEF TypeOK, Inductive, Push, marks
<1>6. Shape'
  <2>1. mode = "serial" => journals' # <<>>
    BY <1>1 DEF Inductive, Shape
  <2> QED BY <2>1 DEF Shape, Recording, Push, Inductive
<1>7. Left' = Left /\ Left \in Nat /\ Ahead \in Nat
  BY RemainingCounts, FS_CardinalityType DEF Left, Ahead, Inductive, TypeOK, Push, marks
<1>8. IndexesFollow'
  <2> SUFFICES ASSUME NEW t \in outdated' PROVE t \in dirty' \/ Due(t)'
    BY DEF IndexesFollow
  <2>1. CASE t = TypeOf(p)
    <3>1. TypeOf(journals'[w][Len(journals[w]) + 1].place) = t
      BY <1>1, <2>1
    <3>2. <<w, Len(journals[w]) + 1>> \in Outstanding'
      BY <1>2
    <3> QED BY <3>1, <3>2 DEF Due
  <2>2. CASE t \in dirty
    BY <2>2 DEF Push, marks
  <2>3. CASE t \in outdated /\ t \notin dirty
    <3>1. PICK e \in Outstanding : TypeOf(journals[e[1]][e[2]].place) = t
      BY <1>3, <2>3 DEF Inductive, IndexesFollow, Due
    <3>2. /\ e[1] \in DOMAIN journals /\ e[2] \in DOMAIN journals[e[1]]
      BY OutstandingMeans
    <3>3. TypeOf(journals'[e[1]][e[2]].place) = t
      BY <1>1, <3>1, <3>2
    <3> QED BY <1>2, <3>3 DEF Due
  <2> QED BY <2>1, <2>2, <2>3 DEF Push
<1>9. Inductive'
  BY <1>2, <1>5, <1>6, <1>7, <1>8 DEF Inductive
<1>10. Seen' = Seen
  BY <1>3, <1>4, <1>5 DEF Seen, TypeOK, Push, marks
<1>11. Observed!Promise
  BY <1>2, <1>10, SameWords
     DEF Observed!Promise, Observed!recordVars, Seen, Ahead, Left, Push, marks
<1> QED BY <1>9, <1>11

LEMMA TakeReservedStep ==
    ASSUME Inductive, NEW w \in working, NEW p \in Places,
           NEW target \in BOOLEAN, TakeReserved(w, p, target)
    PROVE  Inductive' /\ Observed!Promise
<1>1. Recording /\ Push(w, p, target)
  BY DEF TakeReserved, Recording
<1>2. PICK c \in Cursors : reserved = {c} /\ Remaining(c) = Left - Ahead - 1
  BY DEF TakeReserved, Inductive, ReservedAhead
<1>3. Left \in Nat /\ Ahead \in Nat /\ Left' = Left
  BY <1>1, RemainingCounts, FS_CardinalityType
     DEF Left, Ahead, Inductive, TypeOK, Push, marks
<1>4. Remaining(c) \in Nat
  BY RemainingCounts
<1>5. Ahead < Left
  BY <1>2, <1>3, <1>4
<1>6. reserved' = Successor(c)
  BY <1>2 DEF TakeReserved
<1>7. Ahead' = Ahead + 1
  BY <1>1, PushOutstanding
<1>8. reserved' \subseteq Cursors
  BY <1>6, RemainingCounts DEF Successor
<1>9. ReservedAhead'
  <2>1. CASE Exhausted(c)
    <3>1. reserved' = {} /\ Remaining(c) = 0
      BY <1>6, <2>1, RemainingCounts DEF Successor
    <3>2. Ahead' = Left'
      BY <1>2, <1>3, <1>7, <3>1
    <3> QED BY <3>1, <3>2 DEF ReservedAhead
  <2>2. CASE ~ Exhausted(c)
    <3>1. /\ reserved' = {NextCursor(c)} /\ NextCursor(c) \in Cursors
          /\ Remaining(NextCursor(c)) = Remaining(c) - 1
      BY <1>6, <2>2, RemainingCounts DEF Successor
    <3>2. Remaining(NextCursor(c)) = Left' - Ahead' - 1
      BY <1>2, <1>3, <1>7, <3>1
    <3> QED BY <3>1, <3>2 DEF ReservedAhead
  <2> QED BY <2>1, <2>2
<1> QED BY <1>1, <1>5, <1>8, <1>9, Recorded

LEMMA AdmitStep ==
    ASSUME Inductive, NEW w \in working, NEW p \in Places,
           NEW target \in BOOLEAN, Admit(w, p, target)
    PROVE  Inductive' /\ Observed!Promise
<1>1. Recording /\ Push(w, p, target) /\ Ahead < Left
  BY DEF Admit, Recording, Ahead, Left
<1>2. reserved' \subseteq Cursors /\ ReservedAhead'
  BY DEF Admit, Push, ReservedAhead, Inductive, TypeOK
<1> QED BY <1>1, <1>2, Recorded

(* The invariant and what is told depend on the marks and the run.         *)
LEMMA Undisturbed ==
    ASSUME Inductive, UNCHANGED <<marks, present, outdated, running>>
    PROVE  /\ Inductive'
           /\ UNCHANGED <<cursor, rowTick>> /\ Seen' = Seen /\ Ahead' = Ahead
<1>1. Outstanding' = Outstanding
  BY DEF Outstanding, running
<1>2. \A t : PutOff(t)' <=> PutOff(t)
  BY DEF PutOff, RunGoesOn, Located, running
<1>3. \A t : Due(t)' <=> Due(t)
  BY <1>1 DEF Due, running
<1>4. Ahead' = Ahead /\ Left' = Left
  BY <1>1 DEF Ahead, Left, marks
<1>5. TypeOK' /\ Shape'
  BY DEF TypeOK, Shape, Recording, Inductive, marks, running
<1>6. ReservedAhead'
  BY <1>4 DEF ReservedAhead, Inductive, running
<1>7. IndexesFollow'
  BY <1>2, <1>3 DEF IndexesFollow, Inductive, marks
<1>8. Seen' = Seen
  BY <1>2 DEF Seen, marks
<1> QED BY <1>1, <1>4, <1>5, <1>6, <1>7, <1>8 DEF Inductive, marks

LEMMA RefuseEventStep ==
    ASSUME Inductive, NEW w \in working, NEW p \in Places, RefuseEvent(w, p)
    PROVE  Inductive' /\ Observed!Refuse
<1>1. Left \in Nat /\ Ahead \in Nat
  BY RemainingCounts, FS_CardinalityType DEF Left, Ahead, Inductive, TypeOK
<1>2. Ahead = Left
  <2>1. CASE mode = "serial" /\ reserved = {}
    BY <2>1 DEF Inductive, ReservedAhead
  <2>2. CASE mode = "cohort" /\ Ahead >= Left
    BY <1>1, <2>2 DEF Inductive
  <2> QED BY <2>1, <2>2 DEF RefuseEvent, Ahead, Left
<1>3. Inductive' /\ UNCHANGED <<cursor, rowTick>> /\ Seen' = Seen /\ Ahead' = Ahead
  BY Undisturbed DEF RefuseEvent
<1>4. Observed!Refuse
  BY <1>2, <1>3, SameWords
     DEF Observed!Refuse, Observed!recordVars, RefuseEvent, Seen, Ahead, Left
<1> QED BY <1>3, <1>4

LEMMA EndStep ==
    ASSUME Inductive, NEW w \in working, End(w)
    PROVE  Inductive' /\ UNCHANGED Observed!observedVars
<1>1. at = <<1, 1>> /\ Recording
  BY DEF End, Inductive, Shape, Recording
<1>2. Outstanding' = Outstanding
  BY DEF Outstanding, End
<1>3. \A t : ~ PutOff(t)
  BY <1>1 DEF PutOff, Recording
<1>4. \A j \in DOMAIN journals : 0 \notin DOMAIN journals[j]
  BY DEF Inductive, TypeOK
<1>5. \A t : ~ PutOff(t)'
  BY <1>1, <1>4 DEF PutOff, RunGoesOn, End
<1>6. \A t : Due(t)' <=> Due(t)
  BY <1>2 DEF Due, End
<1>7. Ahead' = Ahead /\ Left' = Left
  BY <1>2 DEF Ahead, Left, End, marks
<1>8. TypeOK'
  BY DEF TypeOK, Inductive, End, marks
<1>9. Shape'
  BY <1>1 DEF Shape, Recording, Inductive, End
<1>10. ReservedAhead'
  BY <1>7 DEF ReservedAhead, Inductive, End
<1>11. IndexesFollow'
  BY <1>3, <1>6 DEF IndexesFollow, Inductive, End, marks
<1>12. Inductive'
  BY <1>2, <1>7, <1>8, <1>9, <1>10, <1>11 DEF Inductive
<1>13. Seen' = Seen
  BY <1>3, <1>5 DEF Seen, End, marks
<1>14. UNCHANGED Observed!observedVars
  BY <1>7, <1>13 DEF Observed!observedVars, Observed!recordVars, Seen, Ahead,
     End, marks
<1> QED BY <1>12, <1>14

(* The event in turn is no longer outstanding, the others are.             *)
LEMMA ReplayOutstanding ==
    ASSUME Inductive, Replay
    PROVE  /\ at \in Outstanding /\ Outstanding' = Outstanding \ {at}
           /\ IsFiniteSet(Outstanding') /\ Ahead' = Ahead - 1
           /\ Ahead \in Nat \ {0}
<1>1. /\ at = <<at[1], at[2]>> /\ at[1] \in Nat \ {0} /\ at[2] \in Nat \ {0}
      /\ at' = <<at[1], at[2] + 1>> /\ journals' = journals
      /\ at[1] \in DOMAIN journals /\ at[2] \in DOMAIN journals[at[1]]
  BY DEF Inductive, TypeOK, Shape, Replay
<1>2. at \in Outstanding
  BY <1>1, OutstandingMeans
<1>3. \A j \in DOMAIN journals : /\ j \in Nat
                                 /\ \A i \in DOMAIN journals[j] : i \in Nat
  BY DEF Inductive, TypeOK
<1>4. \A j, i : <<j, i>> \in Outstanding' <=>
         /\ j \in DOMAIN journals /\ i \in DOMAIN journals[j]
         /\ j > at[1] \/ (j = at[1] /\ i >= at[2] + 1)
  BY <1>1 DEF Outstanding
<1>5. \A e \in Outstanding' : e = <<e[1], e[2]>>
  BY DEF Outstanding
<1>6. \A j, i : <<j, i>> \in Outstanding' <=>
         <<j, i>> \in Outstanding /\ <<j, i>> # at
  <2> SUFFICES ASSUME NEW j \in DOMAIN journals, NEW i \in DOMAIN journals[j]
               PROVE  <<j, i>> \in Outstanding' <=>
                         <<j, i>> \in Outstanding /\ <<j, i>> # at
    BY <1>4, OutstandingMeans
  <2>1. <<j, i>> # at <=> j # at[1] \/ i # at[2]
    BY <1>1
  <2>2. j \in Nat /\ i \in Nat
    BY <1>3
  <2>3. (j > at[1] \/ (j = at[1] /\ i >= at[2] + 1)) <=>
            /\ j > at[1] \/ (j = at[1] /\ i >= at[2])
            /\ j # at[1] \/ i # at[2]
    BY <1>1, <2>2
  <2>4. <<j, i>> \in Outstanding' <=> j > at[1] \/ (j = at[1] /\ i >= at[2] + 1)
    BY <1>4
  <2>5. <<j, i>> \in Outstanding <=> j > at[1] \/ (j = at[1] /\ i >= at[2])
    BY OutstandingMeans
  <2> QED BY <2>1, <2>3, <2>4, <2>5
<1>7. Outstanding' = Outstanding \ {at}
  <2>1. \A e \in Outstanding' : e \in Outstanding \ {at}
    BY <1>5, <1>6
  <2>2. \A e \in Outstanding \ {at} : e \in Outstanding'
    BY <1>6, OutstandingMeans
  <2> QED BY <2>1, <2>2
<1>8. IsFiniteSet(Outstanding)
  BY DEF Inductive
<1>9. IsFiniteSet(Outstanding') /\ Ahead' = Ahead - 1
  BY <1>2, <1>7, <1>8, FS_RemoveElement DEF Ahead
<1>10. Ahead \in Nat \ {0}
  BY <1>2, <1>8, FS_CardinalityType, FS_EmptySet DEF Ahead
<1> QED BY <1>2, <1>7, <1>9, <1>10

(* A type's mark is put off exactly by an event whose run goes on.         *)
LEMMA ReplayPutsOff ==
    ASSUME Inductive, Replay, NEW t
    PROVE  /\ PutOff(t)' <=> /\ RunGoesOn(at[1], at[2])
                             /\ t = TypeOf(journals[at[1]][at[2]].place)
           /\ PutOff(t) => t = TypeOf(journals[at[1]][at[2]].place)
<1>1. /\ mode = "replay" /\ mode' = "replay"
      /\ at'[1] = at[1] /\ at'[2] = at[2] + 1 /\ journals' = journals
      /\ at[1] \in DOMAIN journals /\ at[2] \in Nat
  BY DEF Replay, Inductive, Shape
<1>2. at'[2] - 1 = at[2]
  BY <1>1
<1> QED BY <1>1, <1>2 DEF PutOff, RunGoesOn, Located

LEMMA ReplayStep ==
    ASSUME Inductive, Replay
    PROVE  /\ Inductive'
           /\ \E p \in Places : Observed!Keep(p)
<1> DEFINE p == journals[at[1]][at[2]].place
<1>1. p \in Places
  <2>1. at[1] \in DOMAIN journals /\ at[2] \in DOMAIN journals[at[1]]
    BY DEF Replay
  <2>2. journals[at[1]] \in Seq(Event)
    BY <2>1 DEF Inductive, TypeOK
  <2>3. journals[at[1]][at[2]] \in Event
    BY <2>1, <2>2
  <2> QED BY <2>3 DEF Event
<1>2. TypeOf(p) \in ObservedTypes
  BY <1>1, TypesOfPlaces
<1>3. /\ Advance(p)
      /\ IF RunGoesOn(at[1], at[2]) THEN UNCHANGED <<typeTick, dirty>>
         ELSE MarkType(TypeOf(p))
      /\ UNCHANGED <<present, outdated, mode, journals, working, reserved, answer>>
      /\ ~ Exhausted(cursor)
  BY DEF Replay
<1>4. \A t : /\ PutOff(t)' <=> RunGoesOn(at[1], at[2]) /\ t = TypeOf(p)
             /\ PutOff(t) => t = TypeOf(p)
  BY ReplayPutsOff
<1>5. /\ at \in Outstanding /\ Outstanding' = Outstanding \ {at}
      /\ IsFiniteSet(Outstanding') /\ Ahead' = Ahead - 1
      /\ Ahead \in Nat \ {0}
  BY ReplayOutstanding
<1>6. /\ cursor \in Cursors /\ cursor' \in Cursors
      /\ Left \in Nat /\ Left' = Left - 1
  BY <1>3, RemainingCounts DEF Inductive, TypeOK, Advance, Left
<1>7. journals[at[1]][at[2]].place = p
  OBVIOUS
<1> HIDE DEF p
<1>8. TypeOK'
  <2>1. typeTick' \in [ObservedTypes -> Cursors] /\ dirty' \subseteq Components
    BY <1>2, <1>3, <1>6 DEF TypeOK, Inductive, MarkType
  <2>2. rowTick' \in [Rows -> Cursors]
    BY <1>3, <1>6 DEF TypeOK, Inductive, Advance
  <2>3. at' \in Nat \X Nat
    BY DEF Replay, Inductive, TypeOK
  <2> QED BY <1>3, <1>6, <2>1, <2>2, <2>3 DEF TypeOK, Inductive
<1>9. Shape'
  BY DEF Shape, Recording, Inductive, Replay
<1>10. Ahead' <= Left' /\ ReservedAhead'
  BY <1>5, <1>6 DEF Inductive, ReservedAhead, Replay
<1>11. IndexesFollow'
  <2> SUFFICES ASSUME NEW t \in outdated', ~ PutOff(t)'
               PROVE  t \in dirty' \/ Due(t)'
    BY DEF IndexesFollow
  <2>1. t \in outdated /\ t \in Components
    BY <1>3 DEF Inductive, TypeOK
  <2>2. CASE t \in dirty
    BY <1>3, <2>2 DEF MarkType
  <2>3. CASE t = TypeOf(p)
    BY <1>3, <1>4, <2>1, <2>3 DEF MarkType
  <2>4. CASE t \notin dirty /\ t # TypeOf(p)
    <3>1. PICK e \in Outstanding : TypeOf(journals[e[1]][e[2]].place) = t
      BY <1>4, <2>1, <2>4 DEF Inductive, IndexesFollow, Due
    <3>2. e # at
      BY <1>7, <2>4, <3>1
    <3>3. e \in Outstanding'
      BY <1>5, <3>2
    <3> QED BY <1>3, <3>1, <3>3 DEF Due
  <2> QED BY <2>2, <2>3, <2>4
<1>12. Inductive'
  BY <1>5, <1>8, <1>9, <1>10, <1>11 DEF Inductive
<1>13. Seen' = [Seen EXCEPT ![TypeOf(p)] = cursor']
  <2>1. ASSUME NEW t \in ObservedTypes
        PROVE  Seen'[t] = IF t = TypeOf(p) THEN cursor' ELSE Seen[t]
    <3>1. Seen'[t] = IF PutOff(t)' THEN cursor' ELSE typeTick'[t]
      BY DEF Seen
    <3>2. CASE t = TypeOf(p)
      BY <1>2, <1>3, <1>4, <3>1, <3>2 DEF MarkType, Inductive, TypeOK
    <3>3. CASE t # TypeOf(p)
      <4>1. ~ PutOff(t)' /\ ~ PutOff(t)
        BY <1>4, <3>3
      <4>2. typeTick'[t] = typeTick[t]
        BY <1>3, <3>3 DEF MarkType, Inductive, TypeOK
      <4> QED BY <3>1, <3>3, <4>1, <4>2 DEF Seen
    <3> QED BY <3>2, <3>3
  <2>2. DOMAIN Seen = ObservedTypes
    BY DEF Seen
  <2>3. Seen' = [t \in ObservedTypes |-> Seen'[t]]
    BY DEF Seen
  <2>4. Seen = [t \in ObservedTypes |-> Seen[t]]
    BY DEF Seen
  <2> QED BY <2>1, <2>2, <2>3, <2>4
<1>14. Observed!Mark(p)
  BY <1>3, <1>13, SameWords
     DEF Observed!Mark, Observed!MarkRow, Advance, Seen
<1>15. Observed!Keep(p)
  BY <1>3, <1>5, <1>14 DEF Observed!Keep, Ahead
<1>16. \E q \in Places : Observed!Keep(q)
  BY <1>1, <1>15 DEF Observed!Keep, Observed!Mark, Observed!MarkRow, Observed!TypeOf
<1> QED BY <1>12, <1>16

(* From one journal to the next, and out of the replay.                    *)
LEMMA NextJournalStep ==
    ASSUME Inductive, NextJournal
    PROVE  Inductive' /\ UNCHANGED Observed!observedVars
<1>1. /\ at = <<at[1], at[2]>> /\ at[1] \in Nat \ {0} /\ at[2] \in Nat \ {0}
      /\ at' = <<at[1] + 1, 1>> /\ journals' = journals
      /\ at[1] \in DOMAIN journals /\ at[2] \notin DOMAIN journals[at[1]]
  BY DEF Inductive, TypeOK, Shape, NextJournal
<1>2. \A j \in DOMAIN journals :
         /\ j \in Nat
         /\ \A i \in DOMAIN journals[j] : i \in Nat \ {0}
  BY DEF Inductive, TypeOK
<1>3. \A i \in DOMAIN journals[at[1]] : ~ (i >= at[2])
  BY DEF Inductive, TypeOK, NextJournal
<1>4. \A j, i : <<j, i>> \in Outstanding' <=>
         /\ j \in DOMAIN journals /\ i \in DOMAIN journals[j]
         /\ j > at[1] + 1 \/ (j = at[1] + 1 /\ i >= 1)
  BY <1>1 DEF Outstanding
<1>5. \A j, i : <<j, i>> \in Outstanding' <=> <<j, i>> \in Outstanding
  <2> SUFFICES ASSUME NEW j \in DOMAIN journals, NEW i \in DOMAIN journals[j]
               PROVE  <<j, i>> \in Outstanding' <=> <<j, i>> \in Outstanding
    BY <1>4, OutstandingMeans
  <2>1. j \in Nat /\ i \in Nat \ {0}
    BY <1>2
  <2>2. j > at[1] <=> j > at[1] + 1 \/ (j = at[1] + 1 /\ i >= 1)
    BY <1>1, <2>1
  <2>3. j = at[1] => ~ (i >= at[2])
    BY <1>3
  <2>4. <<j, i>> \in Outstanding' <=> j > at[1] + 1 \/ (j = at[1] + 1 /\ i >= 1)
    BY <1>4
  <2>5. <<j, i>> \in Outstanding <=> j > at[1] \/ (j = at[1] /\ i >= at[2])
    BY OutstandingMeans
  <2> QED BY <2>2, <2>3, <2>4, <2>5
<1>6. Outstanding' = Outstanding
  <2>1. \A e \in Outstanding' : e = <<e[1], e[2]>>
    BY DEF Outstanding
  <2> QED BY <1>5, <2>1, OutstandingMeans
<1>7. \A t : ~ PutOff(t)
  BY <1>1, NothingPutOff
<1>8. \A t : ~ PutOff(t)'
  BY <1>1, <1>2 DEF PutOff, RunGoesOn
<1>9. \A t : Due(t)' <=> Due(t)
  BY <1>1, <1>6 DEF Due
<1>10. Ahead' = Ahead /\ Left' = Left
  BY <1>6 DEF Ahead, Left, NextJournal, marks
<1>11. TypeOK' /\ Shape'
  BY <1>1 DEF TypeOK, Shape, Recording, Inductive, NextJournal, marks
<1>12. ReservedAhead'
  BY <1>10 DEF ReservedAhead, Inductive, NextJournal
<1>13. IndexesFollow'
  BY <1>7, <1>9 DEF IndexesFollow, Inductive, NextJournal, marks
<1>14. Inductive'
  BY <1>6, <1>10, <1>11, <1>12, <1>13 DEF Inductive
<1>15. Seen' = Seen
  BY <1>7, <1>8 DEF Seen, NextJournal, marks
<1>16. UNCHANGED Observed!observedVars
  BY <1>10, <1>15 DEF Observed!observedVars, Observed!recordVars, Seen, Ahead,
     NextJournal, marks
<1> QED BY <1>14, <1>16

LEMMA ReplayedStep ==
    ASSUME Inductive, Replayed
    PROVE  Inductive' /\ UNCHANGED Observed!observedVars
<1>1. /\ at[1] \in Nat /\ at[1] > Len(journals) /\ journals \in Seq(Seq(Event))
      /\ journals' = <<>>
  BY DEF Inductive, TypeOK, Replayed
<1>2. at[1] \notin DOMAIN journals /\ \A j \in DOMAIN journals : ~ (j >= at[1])
  BY <1>1
<1>3. Outstanding = {}
  BY <1>1, <1>2, OutstandingMeans
<1>4. Outstanding' = {}
  BY <1>1 DEF Outstanding
<1>5. \A t : ~ PutOff(t) /\ ~ PutOff(t)'
  BY <1>2 DEF PutOff, Replayed
<1>6. \A t : ~ Due(t)
  BY <1>3 DEF Due
<1>7. Ahead' = Ahead /\ Left' = Left /\ IsFiniteSet(Outstanding')
  BY <1>3, <1>4 DEF Ahead, Left, Replayed, marks, Inductive
<1>8. TypeOK' /\ Shape'
  <2>1. working = {} \/ working' = {}
    BY DEF Inductive, Shape, Replayed, Recording
  <2> QED BY <1>1, <2>1 DEF TypeOK, Shape, Recording, Inductive, Replayed, marks
<1>9. ReservedAhead' /\ IndexesFollow'
  BY <1>5, <1>6 DEF ReservedAhead, IndexesFollow, Inductive, Replayed, marks
<1>10. Inductive'
  BY <1>7, <1>8, <1>9 DEF Inductive
<1>11. Seen' = Seen
  BY <1>5 DEF Seen, Replayed, marks
<1>12. UNCHANGED Observed!observedVars
  BY <1>7, <1>11 DEF Observed!observedVars, Observed!recordVars, Seen, Ahead,
     Replayed, marks
<1> QED BY <1>10, <1>12

-----------------------------------------------------------------------------
LEMMA EveryStep ==
    Inductive /\ [Next]_journalVars =>
        Inductive' /\ [Observed!ObservedNext]_(Observed!observedVars)
<1> SUFFICES ASSUME Inductive, [Next]_journalVars
             PROVE  Inductive' /\ [Observed!ObservedNext]_(Observed!observedVars)
  OBVIOUS
<1> USE SameWords
<1>1. ASSUME NEW p \in Places, Direct(p) PROVE Inductive' /\ Observed!ObservedNext
  BY <1>1, DirectStep DEF Observed!ObservedNext
<1>2. ASSUME NEW t \in Resources, RemoveResource(t)
      PROVE  Inductive' /\ Observed!ObservedNext
  <2>1. <<NoEntity, t>> \in Places
    BY DEF Places
  <2> QED BY <1>2, <2>1, RemoveResourceStep DEF Observed!ObservedNext
<1>3. CASE DirectExhausted
  BY <1>3, DirectExhaustedStep DEF Observed!ObservedNext
<1>4. ASSUME NEW since \in Cursors, NEW t \in ObservedTypes,
             TypeChangedSince(t, since)
      PROVE  Inductive' /\ Observed!ObservedNext
  BY <1>4, TypeChangedSinceStep DEF Observed!ObservedNext
<1>5. ASSUME NEW since \in Cursors, NEW r \in Rows, RowChangedSince(r, since)
      PROVE  Inductive' /\ Observed!ObservedNext
  BY <1>5, RowChangedSinceStep DEF Observed!ObservedNext
<1>6. ASSUME NEW t \in Components, Lookup(t)
      PROVE  Inductive' /\ Observed!ObservedNext
  BY <1>6, LookupStep DEF Observed!ObservedNext
<1>7. CASE StartSerial
  BY <1>7, StartSerialStep
<1>8. ASSUME NEW n \in 1..CohortMax, StartCohort(n)
      PROVE  Inductive' /\ UNCHANGED Observed!observedVars
  BY <1>8, StartCohortStep
<1>9. ASSUME NEW w \in working, End(w)
      PROVE  Inductive' /\ UNCHANGED Observed!observedVars
  BY <1>9, EndStep
<1>10. ASSUME NEW w \in working, NEW p \in Places, RefuseEvent(w, p)
       PROVE  Inductive' /\ Observed!ObservedNext
  BY <1>10, RefuseEventStep DEF Observed!ObservedNext
<1>11. ASSUME NEW w \in working, NEW p \in Places, NEW target \in Targets(p),
              TakeReserved(w, p, target) \/ Admit(w, p, target)
       PROVE  Inductive' /\ Observed!ObservedNext
  <2>1. target \in BOOLEAN
    BY DEF Targets
  <2> QED BY <1>11, <2>1, TakeReservedStep, AdmitStep DEF Observed!ObservedNext
<1>12. CASE Replay
  BY <1>12, ReplayStep DEF Observed!ObservedNext
<1>13. CASE NextJournal
  BY <1>13, NextJournalStep
<1>14. CASE Replayed
  BY <1>14, ReplayedStep
<1>15. CASE UNCHANGED journalVars
  <2>1. UNCHANGED <<marks, present, outdated, running>> /\ UNCHANGED answer
    BY <1>15 DEF journalVars
  <2>2. /\ Inductive'
        /\ UNCHANGED <<cursor, rowTick>> /\ Seen' = Seen /\ Ahead' = Ahead
    BY <2>1, Undisturbed
  <2>3. UNCHANGED Observed!observedVars
    BY <2>1, <2>2 DEF Observed!observedVars, Observed!recordVars, Seen, Ahead
  <2> QED BY <2>2, <2>3
<1> QED BY <1>1, <1>2, <1>3, <1>4, <1>5, <1>6, <1>7, <1>8, <1>9, <1>10, <1>11,
           <1>12, <1>13, <1>14, <1>15 DEF Next, Outside, Inside

(* Every reachable state satisfies the invariant.                          *)
THEOREM InductiveInvariant == Spec => []Inductive
BY InductiveAtFirst, EveryStep, PTL DEF Spec

(* No replay meets an exhausted cursor, and a serial journal has a         *)
(* position reserved exactly while one is left.                            *)
THEOREM PositionsTheorem == Spec => []PositionsSuffice
<1>1. Inductive => PositionsSuffice
  <2> SUFFICES ASSUME Inductive PROVE PositionsSuffice
    OBVIOUS
  <2>1. ASSUME mode = "serial", Ahead = Left PROVE reserved = {}
    <3> SUFFICES ASSUME NEW c \in Cursors, Remaining(c) = Left - Ahead - 1
                 PROVE  FALSE
      BY <2>1 DEF Inductive, ReservedAhead
    <3>1. Left \in Nat /\ Remaining(c) \in Nat
      BY RemainingCounts DEF Left, Inductive, TypeOK
    <3> QED BY <2>1, <3>1
  <2>2. ASSUME mode = "serial", reserved = {} PROVE Ahead = Left
    BY <2>2 DEF Inductive, ReservedAhead
  <2> QED BY <2>1, <2>2 DEF PositionsSuffice, Inductive, Ahead, Left
<1> QED BY <1>1, InductiveInvariant, PTL

(* Journals implement the record of changes in which every mutation is     *)
(* marked in full when its turn comes.                                     *)
THEOREM JournalTheorem == Spec => ImplementsObserved
<1>1. Init => Observed!ObservedInit
  <2> SUFFICES ASSUME Init PROVE Observed!ObservedInit
    OBVIOUS
  <2>1. Outstanding = {}
    BY DEF Init, Outstanding
  <2>2. \A t : ~ PutOff(t)
    BY DEF Init, PutOff
  <2> QED BY <2>1, <2>2, SameWords, FS_EmptySet DEF Observed!ObservedInit, Init
<1>2. Observed!ObservedInit /\ [][Observed!ObservedNext]_(Observed!observedVars)
         => ImplementsObserved
  BY DEF ImplementsObserved, Observed!ObservedSpec
<1> QED BY <1>1, <1>2, InductiveInvariant, EveryStep, PTL DEF Spec
=============================================================================
