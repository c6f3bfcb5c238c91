--------------------------- MODULE MutationCapacity ---------------------------
(***************************************************************************)
(* world/mutation_journal.rs: how the workers of one parallel step reserve *)
(* the change-cursor positions of the mutations they are about to record.  *)
(*                                                                         *)
(* The positions left start in `unassigned', behind the distribution lock. *)
(* A worker is granted them in batches, into its own escrow; it claims one *)
(* per event by compare-and-swap, without the lock.  When nothing is       *)
(* unassigned it holds the lock and claims from any escrow, so a credit    *)
(* granted to a paused worker is never trapped.                            *)
(*                                                                         *)
(* Every access to shared state is a step of its own.  The atomics are     *)
(* Relaxed: a load, or a failed swap, may return any value the escrow has  *)
(* held since it was last deposited into, but never an older value than    *)
(* the same attempt has already seen.  Values before the last deposit are  *)
(* out of reach: the deposit is by the reader itself or was made under the *)
(* lock the reader now holds.                                              *)
(***************************************************************************)
EXTENDS Integers, FiniteSets

CONSTANTS
    NumWorkers,     \* members of the parallel step, one escrow each
    Capacity,       \* u128::MAX - (epoch << 64 | tick) at the cohort's base
    Batch           \* WORKER_CREDIT_BATCH

ASSUME CapacityAssumption ==
    /\ NumWorkers \in Nat \ {0}
    /\ Capacity \in Nat
    /\ Batch \in Nat \ {0}

Workers == 1..NumWorkers

Free == 0           \* the distribution lock is not held

VARIABLES
    unassigned,     \* positions no worker has been granted (Mutex<u128>)
    holder,         \* who holds the distribution lock, or Free
    escrow,         \* per slot: granted and not yet claimed (AtomicUsize)
    deposited,      \* per slot: the value of its last deposit
    pc,             \* per worker: the next step of try_reserve
    stage,          \* per worker: where its claim attempt stands
    slot,           \* per worker: the escrow its claim attempt is at
    observed,       \* per worker: the balance its claim attempt last saw
    grant,          \* per worker: taken from unassigned, not yet deposited
    admitted        \* events admitted so far

vars == <<unassigned, holder, escrow, deposited, pc, stage, slot, observed,
          grant, admitted>>

Steps == {"idle", "load", "swap", "acquire", "take", "check", "store",
          "refused", "violation"}

(* A claim attempt runs at three places: the lock-free fast path, the      *)
(* recheck once the lock is held, the scan of every donor.                 *)
Stages == {"fast", "recheck", "scan"}

CapacityInit ==
    /\ unassigned = Capacity
    /\ holder = Free
    /\ escrow = [w \in Workers |-> 0]
    /\ deposited = [w \in Workers |-> 0]
    /\ pc = [w \in Workers |-> "idle"]
    /\ stage = [w \in Workers |-> "fast"]
    /\ slot = [w \in Workers |-> w]
    /\ observed = [w \in Workers |-> 0]
    /\ grant = [w \in Workers |-> 0]
    /\ admitted = 0

-----------------------------------------------------------------------------
(* Worker w goes to step p; where it starts an attempt, at slot s.         *)
Goto(w, p) == pc' = [pc EXCEPT ![w] = p]

StartClaim(w, st, s) ==
    /\ Goto(w, "load")
    /\ stage' = [stage EXCEPT ![w] = st]
    /\ slot' = [slot EXCEPT ![w] = s]

(* Leaving try_reserve drops the guard, if this worker has one.            *)
ReleaseIfHeld(w) == holder' = IF holder = w THEN Free ELSE holder

(* Mutated: the last donor's zero is taken for credit still to come back,  *)
(* and the worker tries again.                                             *)
MissAwaitsPeers(w) ==
    \/ /\ stage[w] = "fast"
       /\ Goto(w, "acquire")
       /\ UNCHANGED <<holder, stage, slot>>
    \/ /\ stage[w] = "recheck"
       /\ Goto(w, "take")
       /\ UNCHANGED <<holder, stage, slot>>
    \/ /\ stage[w] = "scan"
       /\ slot[w] < NumWorkers
       /\ StartClaim(w, "scan", slot[w] + 1)
       /\ UNCHANGED holder
    \/ /\ stage[w] = "scan"
       /\ slot[w] = NumWorkers
       /\ StartClaim(w, "fast", w)
       /\ ReleaseIfHeld(w)

(* The attempt has seen zero: take the lock, distribute, or go on to the   *)
(* next donor; the last donor's zero is the refusal.                       *)
Miss(w) ==
    \/ /\ stage[w] = "fast"
       /\ Goto(w, "acquire")
       /\ UNCHANGED <<holder, stage, slot>>
    \/ /\ stage[w] = "recheck"
       /\ Goto(w, "take")
       /\ UNCHANGED <<holder, stage, slot>>
    \/ /\ stage[w] = "scan"
       /\ slot[w] < NumWorkers
       /\ StartClaim(w, "scan", slot[w] + 1)
       /\ UNCHANGED holder
    \/ /\ stage[w] = "scan"
       /\ slot[w] = NumWorkers
       /\ Goto(w, "refused")
       /\ ReleaseIfHeld(w)
       /\ UNCHANGED <<stage, slot>>

(* A worker's journal asks for the position of its next event.             *)
Reserve(w) ==
    /\ pc[w] = "idle"
    /\ StartClaim(w, "fast", w)
    /\ UNCHANGED <<unassigned, holder, escrow, deposited, observed, grant,
                   admitted>>

(* What a Relaxed read of escrow s may return.                             *)
Visible(s) == escrow[s]..deposited[s]

Saw(w, v) ==
    /\ observed' = [observed EXCEPT ![w] = v]
    /\ IF v = 0
       THEN Miss(w)
       ELSE Goto(w, "swap") /\ UNCHANGED <<holder, stage, slot>>

Load(w) ==
    /\ pc[w] = "load"
    /\ \E v \in Visible(slot[w]) : Saw(w, v)
    /\ UNCHANGED <<unassigned, escrow, deposited, grant, admitted>>

(* Mutated: a store instead of the compare-and-swap.                       *)
ClaimByStore(w) ==
    /\ pc[w] = "swap"
    /\ escrow' = [escrow EXCEPT ![slot[w]] = observed[w] - 1]
    /\ admitted' = admitted + 1
    /\ Goto(w, "idle")
    /\ ReleaseIfHeld(w)
    /\ UNCHANGED <<unassigned, deposited, stage, slot, observed, grant>>

(* compare_exchange_weak succeeds: one credit becomes one admitted event.  *)
Claim(w) ==
    /\ pc[w] = "swap"
    /\ escrow[slot[w]] = observed[w]
    /\ escrow' = [escrow EXCEPT ![slot[w]] = @ - 1]
    /\ admitted' = admitted + 1
    /\ Goto(w, "idle")
    /\ ReleaseIfHeld(w)
    /\ UNCHANGED <<unassigned, deposited, stage, slot, observed, grant>>

(* Mutated: a lost swap is taken for an empty escrow.                      *)
LoseSwapGivesUp(w) ==
    /\ pc[w] = "swap"
    /\ \E v \in Visible(slot[w]) : v < observed[w]
    /\ Miss(w)
    /\ UNCHANGED <<unassigned, escrow, deposited, observed, grant, admitted>>

(* It fails because the balance has changed.  (A spurious failure returns  *)
(* the value already observed: a stuttering step.)                         *)
LoseSwap(w) ==
    /\ pc[w] = "swap"
    /\ \E v \in Visible(slot[w]) : v < observed[w] /\ Saw(w, v)
    /\ UNCHANGED <<unassigned, escrow, deposited, grant, admitted>>

(* Mutated: distribution without mutual exclusion.                         *)
AcquireUnlocked(w) ==
    /\ pc[w] = "acquire"
    /\ holder' = w
    /\ StartClaim(w, "recheck", w)
    /\ UNCHANGED <<unassigned, escrow, deposited, observed, grant, admitted>>

Acquire(w) ==
    /\ pc[w] = "acquire"
    /\ holder = Free
    /\ holder' = w
    /\ StartClaim(w, "recheck", w)
    /\ UNCHANGED <<unassigned, escrow, deposited, observed, grant, admitted>>

Least(a, b) == IF a < b THEN a ELSE b

(* Under the lock, with an empty escrow: a batch of what is unassigned.    *)
Take(w) ==
    /\ pc[w] = "take"
    /\ unassigned # 0
    /\ grant' = [grant EXCEPT ![w] = Least(unassigned, Batch)]
    /\ unassigned' = unassigned - grant'[w]
    /\ Goto(w, "check")
    /\ UNCHANGED <<holder, escrow, deposited, stage, slot, observed, admitted>>

(* Mutated: the scan passes over the first donor.                          *)
BeginScanAtSecond(w) ==
    /\ pc[w] = "take"
    /\ unassigned = 0
    /\ StartClaim(w, "scan", Least(2, NumWorkers))
    /\ UNCHANGED <<unassigned, holder, escrow, deposited, observed, grant,
                   admitted>>

(* Nothing is unassigned: scan the donors, still under the lock.           *)
BeginScan(w) ==
    /\ pc[w] = "take"
    /\ unassigned = 0
    /\ StartClaim(w, "scan", 1)
    /\ UNCHANGED <<unassigned, holder, escrow, deposited, observed, grant,
                   admitted>>

(* deposit: the escrow must still be empty.                                *)
CheckEmpty(w) ==
    /\ pc[w] = "check"
    /\ Goto(w, IF escrow[w] = 0 THEN "store" ELSE "violation")
    /\ UNCHANGED <<unassigned, holder, escrow, deposited, stage, slot,
                   observed, grant, admitted>>

(* ... and is overwritten; the next turn of the loop drops the guard.      *)
Deposit(w) ==
    /\ pc[w] = "store"
    /\ escrow' = [escrow EXCEPT ![w] = grant[w]]
    /\ deposited' = [deposited EXCEPT ![w] = grant[w]]
    /\ grant' = [grant EXCEPT ![w] = 0]
    /\ StartClaim(w, "fast", w)
    /\ ReleaseIfHeld(w)
    /\ UNCHANGED <<unassigned, observed, admitted>>

-----------------------------------------------------------------------------
(* The steps of try_reserve; user code decides when to call it again.      *)
Proceed(w) ==
    \/ Load(w) \/ Claim(w) \/ LoseSwap(w) \/ Acquire(w) \/ Take(w)
    \/ BeginScan(w) \/ CheckEmpty(w) \/ Deposit(w)

CapacityNext == \E w \in Workers : Reserve(w) \/ Proceed(w)

CapacitySpec == CapacityInit /\ [][CapacityNext]_vars

(* Reserve is not fair: a worker may pause in user code for ever.          *)
FairSpec == CapacitySpec /\ \A w \in Workers : WF_vars(Proceed(w))

-----------------------------------------------------------------------------
CapacityTypeOK ==
    /\ unassigned \in 0..Capacity
    /\ holder \in Workers \union {Free}
    /\ escrow \in [Workers -> 0..Capacity]
    /\ deposited \in [Workers -> 0..Capacity]
    /\ pc \in [Workers -> Steps]
    /\ stage \in [Workers -> Stages]
    /\ slot \in [Workers -> Workers]
    /\ observed \in [Workers -> 0..Capacity]
    /\ grant \in [Workers -> 0..Capacity]
    /\ admitted \in 0..Capacity

(* The credits out in the escrows and in the hands of a refilling worker,  *)
(* counted one by one.                                                     *)
Credits(balance) ==
    {c \in Workers \X (1..Capacity) : c[2] <= balance[c[1]]}

(* No position is lost and none is made up, whatever the workers do: this  *)
(* is what test total_admitted_after_join can only see after the join.     *)
Conservation ==
    unassigned + Cardinality(Credits(escrow)) + Cardinality(Credits(grant))
        + admitted = Capacity

(* A refused worker panics with cursor exhaustion: by then every position  *)
(* really has been admitted; none waits in the escrow of a paused worker.  *)
ExactExhaustion ==
    (\E w \in Workers : pc[w] = "refused") => admitted = Capacity

(* deposit never finds the escrow nonempty (its framework violation), nor  *)
(* overwrites credits that appeared between its check and its store.       *)
RefillOnlyEmpty ==
    \A w \in Workers :
        /\ pc[w] # "violation"
        /\ pc[w] \in {"check", "store"} => escrow[w] = 0

(* While a worker scans with nothing unassigned no balance increases: what *)
(* the scan has passed stays empty, so its zeros hold at one instant.      *)
ScanIsSnapshot ==
    \A w \in Workers :
        pc[w] \in {"load", "swap"} /\ stage[w] = "scan" =>
            \A s \in 1..(slot[w] - 1) : escrow[s] = 0

(* The strengthening under which the properties above are inductive.  The  *)
(* lock is held exactly by the worker that distributes or scans ...        *)
Holding(w) ==
    \/ pc[w] \in {"take", "check", "store"}
    \/ pc[w] \in {"load", "swap"} /\ stage[w] # "fast"

LockDiscipline == \A w \in Workers : Holding(w) <=> holder = w

(* ... which, outside the scan, only ever looks at its own escrow and      *)
(* distributes after having seen it empty ...                              *)
OwnSlot ==
    \A w \in Workers :
        /\ pc[w] \in {"load", "swap"} /\ stage[w] # "scan" => slot[w] = w
        /\ pc[w] = "take" => escrow[w] = 0
        /\ pc[w] = "swap" => observed[w] # 0
        /\ pc[w] \in {"check", "store"} \/ grant[w] = 0

(* ... a scan has nothing to distribute, and after a refusal neither the   *)
(* pool nor an escrow nor a refill holds a credit.                         *)
Drained ==
    /\ \A w \in Workers :
           pc[w] \in {"load", "swap"} /\ stage[w] = "scan" => unassigned = 0
    /\ (\E w \in Workers : pc[w] = "refused") =>
           /\ unassigned = 0
           /\ \A s \in Workers : escrow[s] = 0 /\ grant[s] = 0

CapacityInductive ==
    /\ CapacityTypeOK
    /\ LockDiscipline
    /\ OwnSlot
    /\ RefillOnlyEmpty
    /\ ScanIsSnapshot
    /\ Drained
    /\ Conservation

(* The promise.                                                            *)
Request(w) ==
    CASE pc[w] = "idle" -> "none"
      [] pc[w] = "refused" -> "refused"
      [] OTHER -> "pending"

Admission == INSTANCE MutationAdmission
                WITH request <- [w \in Workers |-> Request(w)]

ExactAdmission == Admission!Spec

(* A request is answered without waiting for any worker's user code.       *)
RequestsAnswered ==
    \A w \in Workers : pc[w] = "load" ~> pc[w] \in {"idle", "refused"}

=============================================================================
