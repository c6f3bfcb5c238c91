-------------------------- MODULE CommandRecorder --------------------------
(***************************************************************************)
(* Deferred commands from the call that records them to their application: *)
(* crates/runen-ecs/src/commands/ and the part of system/runtime.rs that   *)
(* makes, finalizes, keeps, publishes and discards recorders in a serial   *)
(* run.  Commands and LocalCommands differ in what may be captured and in  *)
(* nothing modelled here.                                                  *)
(*                                                                         *)
(* All recorders that are parameters of one system are handles to one      *)
(* queue.  A command is known by its effects: one, or those of a batch.    *)
(* Commands are applied in order, each to its end or its first failure, so *)
(* queues are kept as sequences of effects.                                *)
(***************************************************************************)
EXTENDS Naturals, Sequences, FiniteSets

CONSTANTS Handles,       \* recorders a program can hold at a time
          Systems,       \* number of systems in the schedule, by rank
          Params,        \* Params[r]: handles the system of rank r gets
          Exclusive,     \* ranks of systems that have the world as well
          Cuts,          \* ranks after which there is a frontier
          MaxEffects     \* bound: effects a program ever records

ASSUME RecorderConstants ==
  /\ Systems \in Nat /\ MaxEffects \in Nat
  /\ Params \in [1..Systems -> SUBSET Handles]
  /\ Exclusive \subseteq 1..Systems /\ Cuts \subseteq 1..Systems

\* What the plan guarantees: after a system that can record there is a frontier.
ASSUME CutsSuffice == \A r \in 1..Systems : Params[r] # {} => \E c \in Cuts : r <= c

VARIABLES stage,         \* what the runtime is doing
          rank,          \* the system it is doing it for
          storage,       \* what each recorder stores to: nothing, itself, the shared queue
          own,           \* queue of a recorder that stores to itself
          shared,        \* queue of the invocation in progress
          batches,       \* batches being built, innermost last
          pending,       \* the runtime's deferred buffers
          world,         \* effects the world has seen
          issued         \* effects recorded so far

recVars == <<stage, rank, storage, own, shared, batches, pending, world, issued>>

Effects == 1..MaxEffects
None == "none"
Owned == "owned"
External == "external"

RecInit ==
  /\ stage = "idle" /\ rank = 0
  /\ storage = [h \in Handles |-> None] /\ own = [h \in Handles |-> <<>>]
  /\ shared = <<>> /\ batches = <<>> /\ pending = <<>> /\ world = <<>> /\ issued = 0

-----------------------------------------------------------------------------
(* What a program does with recorders: in a system, in the callback of a   *)
(* frontier, or outside a run.                                             *)

UserCode == stage \in {"idle", "body", "boundary"}

\* A recorder is borrowed by the batch that is built for it.
Unbatched(h) == \A i \in 1..Len(batches) : batches[i].for # h

\* Where `&mut World` can be had.
HasWorld == stage # "body" \/ rank \in Exclusive

\* Commands::new, World::commands
NewOwned(h) ==
  /\ UserCode /\ storage[h] = None
  /\ storage' = [storage EXCEPT ![h] = Owned]
  /\ UNCHANGED <<stage, rank, own, shared, batches, pending, world, issued>>

\* push_erased: a recorder that is a parameter stores to the shared queue.
Push(h, es) ==
  /\ own' = IF storage[h] = Owned THEN [own EXCEPT ![h] = @ \o es] ELSE own
  /\ shared' = IF storage[h] = External THEN shared \o es ELSE shared

NextEffect == issued + 1

\* queue, spawn, despawn, insert, remove and the relation commands
Record(h) ==
  /\ UserCode /\ storage[h] # None /\ Unbatched(h) /\ issued < MaxEffects
  /\ Push(h, <<NextEffect>>)
  /\ issued' = NextEffect
  /\ UNCHANGED <<stage, rank, storage, batches, pending, world>>

\* batch runs the closure on a queue of its own ...
OpenBatch(h) ==
  /\ UserCode /\ storage[h] # None /\ Unbatched(h)
  /\ batches' = Append(batches, [for |-> h, queue |-> <<>>])
  /\ UNCHANGED <<stage, rank, storage, own, shared, pending, world, issued>>

InBatch == batches # <<>>
Innermost == batches[Len(batches)]
Outer == SubSeq(batches, 1, Len(batches) - 1)

RecordInBatch ==
  /\ UserCode /\ InBatch /\ issued < MaxEffects
  /\ batches' = [batches EXCEPT ![Len(batches)].queue = Append(@, NextEffect)]
  /\ issued' = NextEffect
  /\ UNCHANGED <<stage, rank, storage, own, shared, pending, world>>

\* ... and pushes it when the closure has returned, or drops it if it panics
\* and the caller catches that.
PushBatch(b) == Push(b.for, b.queue)

CloseBatch ==
  /\ UserCode /\ InBatch
  /\ PushBatch(Innermost)
  /\ batches' = Outer
  /\ UNCHANGED <<stage, rank, storage, pending, world, issued>>

AbandonBatch ==
  /\ UserCode /\ InBatch
  /\ batches' = Outer
  /\ UNCHANGED <<stage, rank, storage, own, shared, pending, world, issued>>

Drop(h) ==
  /\ UserCode /\ storage[h] # None /\ Unbatched(h)
  /\ storage' = [storage EXCEPT ![h] = None]
  /\ own' = [own EXCEPT ![h] = <<>>]
  /\ UNCHANGED <<stage, rank, shared, batches, pending, world, issued>>

\* The first k effects happen; effect k + 1, if there is one, fails.
Applied(es, k) == world \o SubSeq(es, 1, k)

\* apply drains what the recorder stores to; what fails takes the rest with it.
Drained(h) == IF storage[h] = Owned THEN own[h] ELSE shared

\* Mutated: the shared queue is read and left as it is.
TakeQueueAgain(h) == own' = [own EXCEPT ![h] = <<>>] /\ UNCHANGED shared

TakeQueue(h) ==
  /\ own' = [own EXCEPT ![h] = <<>>]
  /\ shared' = IF storage[h] = External THEN <<>> ELSE shared

Apply(h) ==
  /\ UserCode /\ HasWorld /\ storage[h] # None /\ Unbatched(h)
  /\ \E k \in 0..Len(Drained(h)) : world' = Applied(Drained(h), k)
  /\ TakeQueue(h)
  /\ storage' = [storage EXCEPT ![h] = None]
  /\ UNCHANGED <<stage, rank, batches, pending, issued>>

-----------------------------------------------------------------------------
(* The runtime.                                                            *)

\* A run ends; what is pending was published, or is discarded.
Stop == stage' = "idle" /\ rank' = 0

\* Mutated: buffers of a run that failed stay for the next.
DiscardLater == UNCHANGED pending

Discard == pending' = <<>>

\* The parameters of an invocation go when it ends; a recorder of its own may
\* have been put where it survives.
DropParams ==
  /\ storage' = [h \in Handles |-> IF storage[h] = External THEN None ELSE storage[h]]
  /\ batches' = <<>>

StartRun ==
  /\ stage = "idle" /\ ~InBatch
  /\ IF Systems = 0 THEN UNCHANGED <<stage, rank>> ELSE stage' = "invoke" /\ rank' = 1
  /\ UNCHANGED <<storage, own, shared, batches, pending, world, issued>>

\* The recorder of the invocation is made, and each parameter gets a handle.
\* A handle's slot is free when it is handed out.
Extract ==
  /\ stage = "invoke"
  /\ \A h \in Params[rank] : storage[h] = None
  /\ stage' = "body"
  /\ shared' = <<>>
  /\ storage' = [h \in Handles |-> IF h \in Params[rank] THEN External ELSE storage[h]]
  /\ UNCHANGED <<rank, own, batches, pending, world, issued>>

\* A parameter that follows is not there, or the system's registration is gone.
ExtractionFails ==
  /\ stage = "invoke"
  /\ Stop /\ Discard
  /\ UNCHANGED <<storage, own, shared, batches, world, issued>>

\* finalize_external_owner drains the queue; the runtime keeps the buffer.
BodyEnds ==
  /\ stage = "body" /\ ~InBatch
  /\ stage' = "ended"
  /\ pending' = pending \o shared
  /\ shared' = <<>>
  /\ DropParams
  /\ UNCHANGED <<rank, own, world, issued>>

\* An error comes after the buffer was made, and drops it with the others; a
\* panic drops the queue, and the guard of the run clears the buffers.
BodyFails ==
  /\ stage = "body"
  /\ Stop /\ Discard
  /\ shared' = <<>>
  /\ DropParams
  /\ UNCHANGED <<own, world, issued>>

\* publish_deferred_commands takes the buffers before it applies them.
Publish(k) ==
  /\ stage = "ended" /\ rank \in Cuts
  /\ world' = Applied(pending, k)
  /\ pending' = <<>>
  /\ IF k = Len(pending) THEN stage' = "boundary" /\ UNCHANGED rank ELSE Stop
  /\ UNCHANGED <<storage, own, shared, batches, issued>>

NextSystem ==
  /\ IF rank < Systems THEN stage' = "invoke" /\ rank' = rank + 1 ELSE Stop
  /\ UNCHANGED <<storage, own, shared, batches, pending, world, issued>>

Skip == stage = "ended" /\ rank \notin Cuts /\ NextSystem

CallbackEnds == stage = "boundary" /\ ~InBatch /\ NextSystem

CallbackFails ==
  /\ stage = "boundary"
  /\ Stop /\ Discard
  /\ batches' = <<>>
  /\ UNCHANGED <<storage, own, shared, world, issued>>

Program ==
  \/ \E h \in Handles : NewOwned(h) \/ Record(h) \/ OpenBatch(h) \/ Drop(h) \/ Apply(h)
  \/ RecordInBatch \/ CloseBatch \/ AbandonBatch

RuntimeStep ==
  \/ StartRun \/ Extract \/ ExtractionFails \/ BodyEnds \/ BodyFails
  \/ \E k \in 0..Len(pending) : Publish(k)
  \/ Skip \/ CallbackEnds \/ CallbackFails

RecNext == Program \/ RuntimeStep

RecSpec == RecInit /\ [][RecNext]_recVars

-----------------------------------------------------------------------------
EffectsRecorded == Seq(Effects)

TypeOK ==
  /\ stage \in {"idle", "invoke", "body", "ended", "boundary"} /\ rank \in 0..Systems
  /\ storage \in [Handles -> {None, Owned, External}]
  /\ own \in [Handles -> EffectsRecorded]
  /\ batches \in Seq([for : Handles, queue : EffectsRecorded])
  /\ shared \in EffectsRecorded /\ pending \in EffectsRecorded /\ world \in EffectsRecorded
  /\ issued \in 0..MaxEffects

\* Handles to the shared queue, and what it holds, do not outlive a body.
Inside ==
  /\ stage # "idle" => rank >= 1
  /\ \A h \in Handles : storage[h] = External => stage = "body" /\ h \in Params[rank]
  /\ shared # <<>> => stage = "body" /\ Params[rank] # {}

\* Buffers wait for a frontier that has not been passed.
AwaitFrontier ==
  /\ stage \in {"idle", "boundary"} => pending = <<>>
  /\ pending # <<>> => \E r \in 1..rank : Params[r] # {} /\ \A c \in Cuts : r <= c => rank <= c

Inductive == TypeOK /\ Inside /\ AwaitFrontier

\* Where a recorded effect may be.
Queues == {<<"world">>, <<"pending">>, <<"shared">>}
            \cup {<<"own", h>> : h \in Handles} \cup {<<"batch", i>> : i \in 1..Len(batches)}

Queue(q) == CASE q[1] = "world" -> world
              [] q[1] = "pending" -> pending
              [] q[1] = "shared" -> shared
              [] q[1] = "own" -> own[q[2]]
              [] q[1] = "batch" -> batches[q[2]].queue

(***************************************************************************)
(* An effect is in one place at most, once: none is applied twice, by two  *)
(* handles to one queue, by a handle and the runtime, or by two runs.      *)
(***************************************************************************)
OneOwner ==
  \A p, q \in Queues : \A i \in 1..Len(Queue(p)), j \in 1..Len(Queue(q)) :
    Queue(p)[i] = Queue(q)[j] => p = q /\ i = j

(***************************************************************************)
(* Handles, batches and buffers implement the promise that effects asked   *)
(* for by a system that ends well happen at the next publication, in the   *)
(* order their commands were completed and up to the first failure, that   *)
(* those of any other system never happen, and that a run that has ended   *)
(* leaves nothing for a later one (ADR 0003, fail-stop publication).       *)
(***************************************************************************)
Deferral == INSTANCE DeferredEffects
              WITH running <- stage # "idle", said <- shared, owed <- pending, done <- world
ImplementsDeferral == Deferral!DeferredSpec
=============================================================================
