---------------------------- MODULE EntityAllocator ----------------------------
(***************************************************************************)
(* entity.rs: the identities of one world's entities.                      *)
(*                                                                         *)
(* An entity is a slot's index and a generation.  Freeing it moves the     *)
(* slot to its next generation and onto the free list, or retires the slot *)
(* when there is no next generation.  IndexLimit and GenerationMax stand   *)
(* for the 32-bit ranges of the two.  Handles of other worlds carry        *)
(* another scope and are refused before the slots are looked at; they are  *)
(* not modelled.                                                           *)
(***************************************************************************)
EXTENDS Integers, Sequences, FiniteSets

CONSTANTS IndexLimit, GenerationMax

ASSUME AllocatorAssumption == IndexLimit \in Nat /\ GenerationMax \in Nat

Indices == 0..(IndexLimit - 1)
Generations == 0..GenerationMax
Entities == [index : Indices, generation : Generations]

None == -1

VARIABLES
    nextIndex,      \* next_index, which is also the number of slots
    slots,          \* generation, state and last_freed_generation by index
    freeList,
    issued,         \* history: how often an entity has been handed out
    freed           \* history: the entities freed

allocatorVars == <<nextIndex, slots, freeList, issued, freed>>

Slot == [generation : Generations, state : {"absent", "live", "free", "retired"},
         lastFreed : Generations \union {None}]

AllocatorInit ==
    /\ nextIndex = 0
    /\ slots = [i \in Indices |->
                  [generation |-> 0, state |-> "absent", lastFreed |-> None]]
    /\ freeList = <<>>
    /\ issued = [e \in Entities |-> 0]
    /\ freed = {}

-----------------------------------------------------------------------------
(* Mutated: only the index is compared.                                    *)
VerdictOnIndex(e) ==
    LET slot == slots[e.index]
    IN  CASE e.index >= nextIndex    -> "unknown"
          [] slot.state = "live"     -> "ok"
          [] OTHER                   -> "freed"

(* validate_entity_slots                                                   *)
Verdict(e) ==
    LET slot == slots[e.index]
    IN  IF e.index >= nextIndex THEN "unknown"
        ELSE IF slot.state = "live"
             THEN IF e.generation = slot.generation THEN "ok" ELSE "stale"
             ELSE IF e.generation = slot.lastFreed THEN "freed"
             ELSE IF e.generation # slot.generation THEN "stale" ELSE "unknown"

(* Mutated: the slot stays on the free list.                               *)
ReuseKeepsListed(e) ==
    /\ freeList # <<>>
    /\ LET i == freeList[Len(freeList)]
       IN  /\ e = [index |-> i, generation |-> slots[i].generation]
           /\ slots' = [slots EXCEPT ![i].state = "live", ![i].lastFreed = None]
    /\ UNCHANGED <<nextIndex, freeList>>

(* The entity of the slot freed last is handed out again, at the slot's    *)
(* generation.                                                             *)
Reuse(e) ==
    /\ freeList # <<>>
    /\ LET i == freeList[Len(freeList)]
       IN  /\ e = [index |-> i, generation |-> slots[i].generation]
           /\ slots' = [slots EXCEPT ![i].state = "live", ![i].lastFreed = None]
    /\ freeList' = SubSeq(freeList, 1, Len(freeList) - 1)
    /\ UNCHANGED nextIndex

Extend(e) ==
    /\ freeList = <<>>
    /\ nextIndex < IndexLimit
    /\ e = [index |-> nextIndex, generation |-> 0]
    /\ slots' = [slots EXCEPT ![nextIndex].state = "live"]
    /\ nextIndex' = nextIndex + 1
    /\ UNCHANGED freeList

(* allocate() returns e.  When no index is left it returns an error and    *)
(* changes nothing.                                                        *)
Allocate(e) ==
    /\ Reuse(e) \/ Extend(e)
    /\ issued' = [issued EXCEPT ![e] = @ + 1]
    /\ UNCHANGED freed

(* Mutated: a slot without a next generation is reused at its last.        *)
FreeNeverRetires(e) ==
    /\ Verdict(e) = "ok"
    /\ LET slot == slots[e.index]
       IN  /\ slots' = [slots EXCEPT ![e.index] =
                 [generation |-> IF slot.generation < GenerationMax
                                 THEN slot.generation + 1 ELSE slot.generation,
                  state |-> "free", lastFreed |-> slot.generation]]
           /\ freeList' = Append(freeList, e.index)
    /\ freed' = freed \union {e}
    /\ UNCHANGED <<nextIndex, issued>>

(* Mutated: the freed generation is not remembered.                        *)
FreeForgets(e) ==
    /\ Verdict(e) = "ok"
    /\ LET slot == slots[e.index]
       IN  IF slot.generation < GenerationMax
           THEN /\ slots' = [slots EXCEPT ![e.index] =
                      [generation |-> slot.generation + 1, state |-> "free",
                       lastFreed |-> None]]
                /\ freeList' = Append(freeList, e.index)
           ELSE /\ slots' = [slots EXCEPT ![e.index].state = "retired"]
                /\ UNCHANGED freeList
    /\ freed' = freed \union {e}
    /\ UNCHANGED <<nextIndex, issued>>

(* free(e) succeeds; otherwise it returns the verdict and changes nothing. *)
Free(e) ==
    /\ Verdict(e) = "ok"
    /\ LET slot == slots[e.index]
       IN  IF slot.generation < GenerationMax
           THEN /\ slots' = [slots EXCEPT ![e.index] =
                      [generation |-> slot.generation + 1, state |-> "free",
                       lastFreed |-> slot.generation]]
                /\ freeList' = Append(freeList, e.index)
           ELSE /\ slots' = [slots EXCEPT ![e.index].state = "retired",
                                          ![e.index].lastFreed = slot.generation]
                /\ UNCHANGED freeList
    /\ freed' = freed \union {e}
    /\ UNCHANGED <<nextIndex, issued>>

AllocatorNext == \E e \in Entities : Allocate(e) \/ Free(e)

AllocatorSpec == AllocatorInit /\ [][AllocatorNext]_allocatorVars

-----------------------------------------------------------------------------
AllocatorTypeOK ==
    /\ nextIndex \in 0..IndexLimit
    /\ slots \in [Indices -> Slot]
    /\ freeList \in Seq(Indices)
    /\ issued \in [Entities -> Nat]
    /\ freed \in SUBSET Entities

(* However slots are reused, no entity is ever handed out twice: a handle  *)
(* kept across a despawn never comes to name another entity.               *)
NeverReissued == \A e \in Entities : issued[e] <= 1

(* An entity is valid exactly while it has been handed out and not freed;  *)
(* handles whose generation lies in a slot's future or past are not.       *)
ValidWhileAlive ==
    \A e \in Entities : Verdict(e) = "ok" <=> (issued[e] > 0 /\ e \notin freed)

(* A rejected handle is rejected for the true reason: one that was handed  *)
(* out is never called unknown, the last one freed of a slot that was not  *)
(* reused is called already freed, and nothing else is.                    *)
RejectionTruthful ==
    \A e \in Entities :
        /\ (issued[e] > 0 /\ e \in freed) => Verdict(e) \in {"freed", "stale"}
        /\ Verdict(e) = "freed" <=>
              /\ e \in freed
              /\ \A f \in Entities :
                    (f.index = e.index /\ f.generation > e.generation)
                        => issued[f] = 0

(* No slot is lost or shared: one that is neither live nor retired is on   *)
(* the free list once, and only a slot at its last generation is retired.  *)
SlotsAccounted ==
    \A i \in 0..(nextIndex - 1) :
        LET listed == {k \in DOMAIN freeList : freeList[k] = i}
        IN  /\ slots[i].state = "free" => Cardinality(listed) = 1
            /\ slots[i].state # "free" => listed = {}
            /\ slots[i].state = "retired" => slots[i].generation = GenerationMax

=============================================================================
