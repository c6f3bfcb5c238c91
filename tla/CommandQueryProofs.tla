-------------------------- MODULE CommandQueryProofs --------------------------
(***************************************************************************)
(* What a program and its systems hold on to between calls: recorders of   *)
(* commands and query states.                                              *)
(*                                                                         *)
(* Recorders keep the promise of deferred effects, for any systems, any    *)
(* parameters and any frontiers that follow each system that can record.   *)
(* Typing is not enough: that a run which ends well owes nothing needs     *)
(* that what is pending waits for a frontier still to come, and that what  *)
(* a system says ends with it needs that no handle outlives its body.      *)
(* That an effect has one owner is a count over every queue, batch and     *)
(* buffer: a step puts one effect down, moves some or lets some go.        *)
(*                                                                         *)
(* Query states are told every change once, for any worlds, entities,      *)
(* states, shapes and filters.  Needed for that: no mark is ahead of its   *)
(* clock, and what is lent for writing is there, and known to every state  *)
(* of its world or still to be marked.                                     *)
(***************************************************************************)
EXTENDS CommandRecorder, DirectQueries, TLAPS, FiniteSetTheorems, SequenceTheorems,
        WellFoundedInduction

-----------------------------------------------------------------------------
(* Recorders.                                                              *)

(* What is put behind a sequence makes it grow.                            *)
LEMMA Growing ==
    ASSUME NEW old \in EffectsRecorded, NEW more \in EffectsRecorded
    PROVE  /\ old \o more \in EffectsRecorded
           /\ Deferral!Grown(old, old \o more)
           /\ old \o more = <<>> => old = <<>> /\ more = <<>>
<1>1. /\ old \o more \in EffectsRecorded
      /\ Len(old \o more) = Len(old) + Len(more)
      /\ Len(old) \in Nat /\ Len(more) \in Nat
  BY ConcatProperties DEF EffectsRecorded
<1>2. SubSeq(old \o more, 1, Len(old)) = old
  <2>1. CASE Len(old) = 0
    <3>1. old = <<>>
      BY <2>1, EmptySeq DEF EffectsRecorded
    <3>2. SubSeq(old \o more, 1, 0) = <<>>
      BY SubSeqEmpty
    <3> QED BY <2>1, <3>1, <3>2
  <2>2. CASE Len(old) # 0
    <3>1. 1 \in 1..Len(old) /\ Len(old) \in 1..Len(old)
      BY <1>1, <2>2
    <3> QED BY <3>1, SubSeqOfConcat1, SubSeqFull DEF EffectsRecorded
  <2> QED BY <2>1, <2>2
<1>3. Len(old) <= Len(old \o more)
  BY <1>1
<1>4. old \o more = <<>> => old = <<>> /\ more = <<>>
  BY ConcatEqualIffEmpty, <1>1, EmptySeq DEF EffectsRecorded
<1> QED BY <1>1, <1>2, <1>3, <1>4 DEF Deferral!Grown

(* A part of what is due is put behind what has happened.                  *)
LEMMA Applying ==
    ASSUME Inductive, NEW es \in EffectsRecorded, NEW k \in 0..Len(es)
    PROVE  /\ Applied(es, k) \in EffectsRecorded
           /\ Applied(es, k) = world \o Deferral!UpTo(k, es)
           /\ Deferral!Grown(world, Applied(es, k))
           /\ k \in Nat /\ k <= Len(es)
<1>1. Len(es) \in Nat /\ k \in Nat
  BY LenProperties DEF EffectsRecorded
<1>2. SubSeq(es, 1, k) \in EffectsRecorded
  <2>1. \A i \in 1..k : es[i] \in Effects
    <3>1. \A i \in 1..k : i \in 1..Len(es)
      BY <1>1
    <3> QED BY <3>1, ElementOfSeq DEF EffectsRecorded
  <2>2. 1 \in Int /\ k \in Int
    BY <1>1
  <2> QED BY <2>1, <2>2, SubSeqProperties DEF EffectsRecorded
<1>3. world \in EffectsRecorded
  BY DEF Inductive, TypeOK
<1> QED BY <1>1, <1>2, <1>3, Growing DEF Applied, Deferral!UpTo

-----------------------------------------------------------------------------
Promised == Inductive' /\ [Deferral!DeferredNext]_(Deferral!deferredVars)

LEMMA InductiveAtFirst == RecInit => Inductive /\ Deferral!DeferredInit
<1>1. <<>> \in EffectsRecorded /\ <<>> \in Seq([for : Handles, queue : EffectsRecorded])
  BY EmptySeq DEF EffectsRecorded
<1> QED BY <1>1, RecorderConstants DEF RecInit, Inductive, TypeOK, Inside, AwaitFrontier,
       Deferral!DeferredInit, None, External

LEMMA NewOwnedStep ==
    ASSUME Inductive, NEW h \in Handles, NewOwned(h)
    PROVE  Promised
BY DEF Inductive, TypeOK, Inside, AwaitFrontier, NewOwned, Owned, External,
   Promised, Deferral!deferredVars

(* What is pushed by the program goes to a recorder's own queue, or is     *)
(* said by the system in progress.                                         *)
LEMMA Pushing ==
    ASSUME Inductive, NEW h \in Handles, NEW es \in EffectsRecorded, Push(h, es)
    PROVE  /\ own' \in [Handles -> EffectsRecorded] /\ shared' \in EffectsRecorded
           /\ \/ shared' = shared
              \/ /\ stage = "body" /\ Params[rank] # {}
                 /\ Deferral!Grown(shared, shared')
<1>1. own[h] \in EffectsRecorded /\ shared \in EffectsRecorded
  BY DEF Inductive, TypeOK
<1>2. own[h] \o es \in EffectsRecorded /\ shared \o es \in EffectsRecorded
      /\ Deferral!Grown(shared, shared \o es)
  BY <1>1, Growing
<1>3. own' \in [Handles -> EffectsRecorded]
  BY <1>2 DEF Inductive, TypeOK, Push
<1> QED BY <1>1, <1>2, <1>3 DEF Inductive, Inside, Push

LEMMA RecordStep ==
    ASSUME Inductive, NEW h \in Handles, Record(h)
    PROVE  Promised
<1>1. issued + 1 \in Effects /\ issued + 1 \in 0..MaxEffects
  BY RecorderConstants DEF Inductive, TypeOK, Record, Effects
<1>2. <<NextEffect>> \in EffectsRecorded
  BY <1>1 DEF NextEffect, EffectsRecorded
<1>3. /\ own' \in [Handles -> EffectsRecorded] /\ shared' \in EffectsRecorded
      /\ \/ shared' = shared
         \/ stage = "body" /\ Params[rank] # {} /\ Deferral!Grown(shared, shared')
  BY <1>2, Pushing DEF Record
<1>4. Inductive'
  BY <1>1, <1>3 DEF Inductive, TypeOK, Inside, AwaitFrontier, Record, NextEffect
<1>5. [Deferral!DeferredNext]_(Deferral!deferredVars)
  <2>1. CASE shared' = shared
    BY <2>1 DEF Record, Deferral!deferredVars
  <2>2. CASE stage = "body" /\ Deferral!Grown(shared, shared')
    BY <2>2 DEF Record, Deferral!DeferredNext, Deferral!Say
  <2> QED BY <1>3, <2>1, <2>2
<1> QED BY <1>4, <1>5 DEF Promised

LEMMA OpenBatchStep ==
    ASSUME Inductive, NEW h \in Handles, OpenBatch(h)
    PROVE  Promised
<1>1. <<>> \in EffectsRecorded
  BY EmptySeq DEF EffectsRecorded
<1>2. batches' \in Seq([for : Handles, queue : EffectsRecorded])
  BY <1>1, AppendProperties DEF Inductive, TypeOK, OpenBatch
<1> QED BY <1>2 DEF Inductive, TypeOK, Inside, AwaitFrontier, OpenBatch,
       Promised, Deferral!deferredVars

(* The batches without, and the innermost itself.                          *)
LEMMA Batches ==
    ASSUME Inductive, InBatch
    PROVE  /\ Len(batches) \in DOMAIN batches
           /\ Innermost \in [for : Handles, queue : EffectsRecorded]
           /\ Outer \in Seq([for : Handles, queue : EffectsRecorded])
<1> DEFINE Batch == [for : Handles, queue : EffectsRecorded]
<1>1. batches \in Seq(Batch) /\ batches # <<>>
  BY DEF Inductive, TypeOK, InBatch
<1> HIDE DEF Batch
<1>2. Len(batches) \in Nat /\ Len(batches) # 0 /\ DOMAIN batches = 1..Len(batches)
  BY <1>1, LenProperties, EmptySeq
<1>3. Len(batches) \in DOMAIN batches
  BY <1>2
<1>4. Innermost \in Batch
  BY <1>1, <1>2, <1>3, ElementOfSeq DEF Innermost
<1>5. \A i \in 1..(Len(batches) - 1) : batches[i] \in Batch
  <2>1. \A i \in 1..(Len(batches) - 1) : i \in 1..Len(batches)
    BY <1>2
  <2> QED BY <1>1, <2>1, ElementOfSeq
<1>6. 1 \in Int /\ Len(batches) - 1 \in Int
  BY <1>2
<1>7. Outer \in Seq(Batch)
  BY <1>5, <1>6, SubSeqProperties DEF Outer
<1> QED BY <1>3, <1>4, <1>7 DEF Batch

LEMMA RecordInBatchStep ==
    ASSUME Inductive, RecordInBatch
    PROVE  Promised
<1>1. issued + 1 \in Effects /\ issued + 1 \in 0..MaxEffects
  BY RecorderConstants DEF Inductive, TypeOK, RecordInBatch, Effects
<1>2. /\ Len(batches) \in DOMAIN batches
      /\ batches[Len(batches)] \in [for : Handles, queue : EffectsRecorded]
  BY Batches DEF RecordInBatch, Innermost
<1> DEFINE longer == Append(batches[Len(batches)].queue, NextEffect)
           grown == [batches[Len(batches)] EXCEPT !.queue = longer]
<1>3. longer \in EffectsRecorded
  BY <1>1, <1>2, AppendProperties DEF EffectsRecorded, NextEffect
<1>4. grown \in [for : Handles, queue : EffectsRecorded]
  <2> HIDE DEF longer
  <2> QED BY <1>2, <1>3
<1>5. batches' = [batches EXCEPT ![Len(batches)] = grown]
  BY DEF RecordInBatch
<1> HIDE DEF grown
<1>6. batches' \in Seq([for : Handles, queue : EffectsRecorded])
  BY <1>2, <1>4, <1>5, ExceptSeq DEF Inductive, TypeOK
<1> QED BY <1>1, <1>6 DEF Inductive, TypeOK, Inside, AwaitFrontier, RecordInBatch,
       NextEffect, Promised, Deferral!deferredVars

LEMMA CloseBatchStep ==
    ASSUME Inductive, CloseBatch
    PROVE  Promised
<1>1. /\ Innermost \in [for : Handles, queue : EffectsRecorded]
      /\ Outer \in Seq([for : Handles, queue : EffectsRecorded])
  BY Batches DEF CloseBatch
<1>2. Innermost.for \in Handles /\ Innermost.queue \in EffectsRecorded
  BY <1>1
<1>3. /\ own' \in [Handles -> EffectsRecorded] /\ shared' \in EffectsRecorded
      /\ \/ shared' = shared
         \/ stage = "body" /\ Params[rank] # {} /\ Deferral!Grown(shared, shared')
  BY <1>2, Pushing DEF CloseBatch, PushBatch
<1>4. Inductive'
  BY <1>1, <1>3 DEF Inductive, TypeOK, Inside, AwaitFrontier, CloseBatch
<1>5. [Deferral!DeferredNext]_(Deferral!deferredVars)
  <2>1. CASE shared' = shared
    BY <2>1 DEF CloseBatch, Deferral!deferredVars
  <2>2. CASE stage = "body" /\ Deferral!Grown(shared, shared')
    BY <2>2 DEF CloseBatch, Deferral!DeferredNext, Deferral!Say
  <2> QED BY <1>3, <2>1, <2>2
<1> QED BY <1>4, <1>5 DEF Promised

LEMMA AbandonBatchStep ==
    ASSUME Inductive, AbandonBatch
    PROVE  Promised
BY Batches DEF Inductive, TypeOK, Inside, AwaitFrontier, AbandonBatch, Promised,
   Deferral!deferredVars

LEMMA DropStep ==
    ASSUME Inductive, NEW h \in Handles, Drop(h)
    PROVE  Promised
<1>1. <<>> \in EffectsRecorded
  BY EmptySeq DEF EffectsRecorded
<1> QED BY <1>1 DEF Inductive, TypeOK, Inside, AwaitFrontier, Drop, None, External,
       Promised, Deferral!deferredVars

LEMMA ApplyStep ==
    ASSUME Inductive, NEW h \in Handles, Apply(h)
    PROVE  Promised
<1>1. Drained(h) \in EffectsRecorded /\ <<>> \in EffectsRecorded
  BY EmptySeq DEF Drained, Inductive, TypeOK, EffectsRecorded
<1>2. PICK k \in 0..Len(Drained(h)) : world' = Applied(Drained(h), k)
  BY DEF Apply
<1>3. /\ world' \in EffectsRecorded
      /\ world' = world \o Deferral!UpTo(k, Drained(h))
      /\ Deferral!Grown(world, world')
      /\ k \in Nat /\ k <= Len(Drained(h))
  BY <1>1, <1>2, Applying
<1>4. Inductive'
  BY <1>1, <1>3 DEF Inductive, TypeOK, Inside, AwaitFrontier, Apply, TakeQueue,
     None, External
<1>5. [Deferral!DeferredNext]_(Deferral!deferredVars)
  <2>1. CASE storage[h] = External
    <3>1. stage = "body" /\ Drained(h) = shared /\ shared' = <<>>
      BY <2>1 DEF Inductive, Inside, Drained, Apply, TakeQueue, Owned, External
    <3>2. Deferral!Now(k)
      BY <1>3, <3>1 DEF Deferral!Now, Apply
    <3> QED BY <1>2, <3>1, <3>2 DEF Deferral!DeferredNext
  <2>2. CASE storage[h] # External
    BY <1>3, <2>2 DEF Deferral!Direct, Deferral!DeferredNext, Apply, TakeQueue
  <2> QED BY <2>1, <2>2
<1> QED BY <1>4, <1>5 DEF Promised

-----------------------------------------------------------------------------
LEMMA StartRunStep ==
    ASSUME Inductive, StartRun
    PROVE  Promised
<1>1. 0 \in 0..Systems /\ (Systems # 0 => 1 \in 0..Systems)
  BY RecorderConstants
<1> QED BY <1>1 DEF Inductive, TypeOK, Inside, AwaitFrontier, StartRun, Promised,
       Deferral!deferredVars, Deferral!DeferredNext, Deferral!Begin

LEMMA ExtractStep ==
    ASSUME Inductive, Extract
    PROVE  Promised
<1>1. shared = <<>>
  BY DEF Inductive, Inside, Extract
<1> QED BY <1>1 DEF Inductive, TypeOK, Inside, AwaitFrontier, Extract, External,
       Promised, Deferral!deferredVars

(* A run that breaks off leaves nothing behind.                            *)
LEMMA ExtractionFailsStep ==
    ASSUME Inductive, ExtractionFails
    PROVE  Promised
<1>1. shared = <<>> /\ <<>> \in EffectsRecorded
  BY EmptySeq DEF Inductive, Inside, ExtractionFails, EffectsRecorded
<1>2. 0 \in 0..Systems
  BY RecorderConstants
<1> QED BY <1>1, <1>2 DEF Inductive, TypeOK, Inside, AwaitFrontier, ExtractionFails, Stop,
       Discard, Promised, Deferral!DeferredNext, Deferral!Fail

LEMMA BodyEndsStep ==
    ASSUME Inductive, BodyEnds
    PROVE  Promised
<1>1. shared \in EffectsRecorded /\ pending \in EffectsRecorded
  BY DEF Inductive, TypeOK
<1>2. /\ pending \o shared \in EffectsRecorded
      /\ pending \o shared = <<>> => pending = <<>> /\ shared = <<>>
      /\ <<>> \in EffectsRecorded /\ <<>> \in Seq([for : Handles, queue : EffectsRecorded])
  BY <1>1, Growing, EmptySeq DEF EffectsRecorded
<1>3. pending' # <<>> =>
        \E r \in 1..rank : Params[r] # {} /\ \A c \in Cuts : r <= c => rank <= c
  <2>1. CASE pending # <<>>
    BY <2>1 DEF Inductive, AwaitFrontier
  <2>2. CASE shared # <<>>
    <3>1. rank \in 1..rank /\ Params[rank] # {}
      BY <2>2, RecorderConstants DEF Inductive, TypeOK, Inside, BodyEnds
    <3> QED BY <3>1
  <2>3. CASE pending = <<>> /\ shared = <<>>
    <3>1. pending' = <<>>
      BY <1>1, <2>3, ConcatEmptySeq DEF BodyEnds, EffectsRecorded
    <3> QED BY <3>1
  <2> QED BY <2>1, <2>2, <2>3
<1>4. Inductive'
  BY <1>2, <1>3 DEF Inductive, TypeOK, Inside, AwaitFrontier, BodyEnds, DropParams,
     None, External
<1>5. Deferral!Settle
  BY DEF BodyEnds, Deferral!Settle
<1> QED BY <1>4, <1>5 DEF Promised, Deferral!DeferredNext

LEMMA BodyFailsStep ==
    ASSUME Inductive, BodyFails
    PROVE  Promised
<1>1. <<>> \in EffectsRecorded /\ <<>> \in Seq([for : Handles, queue : EffectsRecorded])
  BY EmptySeq DEF EffectsRecorded
<1>2. 0 \in 0..Systems
  BY RecorderConstants
<1> QED BY <1>1, <1>2 DEF Inductive, TypeOK, Inside, AwaitFrontier, BodyFails, Stop, Discard,
       DropParams, None, External, Promised, Deferral!DeferredNext, Deferral!Fail

LEMMA PublishStep ==
    ASSUME Inductive, NEW k \in 0..Len(pending), Publish(k)
    PROVE  Promised
<1>1. pending \in EffectsRecorded /\ <<>> \in EffectsRecorded
  BY EmptySeq DEF Inductive, TypeOK, EffectsRecorded
<1>2. /\ world' \in EffectsRecorded
      /\ world' = world \o Deferral!UpTo(k, pending)
      /\ k \in Nat /\ k <= Len(pending)
  BY <1>1, Applying DEF Publish
<1>3. shared = <<>> /\ 0 \in 0..Systems
  BY RecorderConstants DEF Inductive, Inside, Publish
<1>4. Inductive'
  BY <1>1, <1>2, <1>3 DEF Inductive, TypeOK, Inside, AwaitFrontier, Publish, Stop
<1>5. Deferral!Publish(k)
  BY <1>2, <1>3 DEF Deferral!Publish, Publish, Stop
<1> QED BY <1>4, <1>5 DEF Promised, Deferral!DeferredNext

(* Going on to the next system, or ending the run, once nothing is pending *)
(* that was meant for the frontier passed.                                 *)
LEMMA NextSystemStep ==
    ASSUME Inductive, NextSystem, stage \in {"ended", "boundary"},
           stage = "ended" => rank \notin Cuts
    PROVE  Promised
<1>1. rank \in 1..Systems /\ shared = <<>> /\ Systems \in Nat
  BY RecorderConstants DEF Inductive, TypeOK, Inside
<1>2. pending # <<>> => /\ stage = "ended"
                        /\ \E r \in 1..rank : /\ Params[r] # {}
                                             /\ \A c \in Cuts : r <= c => rank + 1 <= c
  <2>1. ASSUME NEW c \in Cuts, c # rank, rank <= c PROVE rank + 1 <= c
    BY <1>1, <2>1, RecorderConstants
  <2> QED BY <1>1, <2>1 DEF Inductive, AwaitFrontier
<1>3. CASE rank < Systems
  <2>1. stage' = "invoke" /\ rank' = rank + 1 /\ rank + 1 \in 0..Systems /\ rank + 1 >= 1
    BY <1>1, <1>3 DEF NextSystem
  <2>2. AwaitFrontier'
    <3>1. \A r \in 1..rank : r \in 1..(rank + 1)
      BY <1>1
    <3> QED BY <1>2, <2>1, <3>1 DEF AwaitFrontier, NextSystem
  <2>3. Inductive'
    BY <1>1, <2>1, <2>2 DEF Inductive, TypeOK, Inside, NextSystem
  <2> QED BY <2>1, <2>3 DEF Promised, NextSystem, Deferral!deferredVars
<1>4. CASE ~ (rank < Systems)
  <2>1. pending = <<>>
    <3> SUFFICES ASSUME pending # <<>> PROVE FALSE
      OBVIOUS
    <3>1. PICK r \in 1..rank : Params[r] # {} /\ \A c \in Cuts : r <= c => rank + 1 <= c
      BY <1>2
    <3>2. r \in 1..Systems
      BY <1>1
    <3>3. PICK c \in Cuts : r <= c
      BY <3>1, <3>2, CutsSuffice
    <3>4. c \in 1..Systems /\ rank + 1 <= c
      BY <3>1, <3>3, RecorderConstants
    <3> QED BY <1>1, <1>4, <3>4
  <2>2. stage' = "idle" /\ rank' = 0 /\ 0 \in 0..Systems
    BY <1>1, <1>4 DEF NextSystem, Stop
  <2>3. Inductive'
    BY <1>1, <2>1, <2>2 DEF Inductive, TypeOK, Inside, AwaitFrontier, NextSystem
  <2>4. Deferral!EndWell
    BY <1>1, <2>1, <2>2 DEF Deferral!EndWell, NextSystem
  <2> QED BY <2>3, <2>4 DEF Promised, Deferral!DeferredNext
<1> QED BY <1>3, <1>4

LEMMA CallbackFailsStep ==
    ASSUME Inductive, CallbackFails
    PROVE  Promised
<1>1. <<>> \in EffectsRecorded /\ <<>> \in Seq([for : Handles, queue : EffectsRecorded])
  BY EmptySeq DEF EffectsRecorded
<1>2. shared = <<>> /\ 0 \in 0..Systems
  BY RecorderConstants DEF Inductive, Inside, CallbackFails
<1> QED BY <1>1, <1>2 DEF Inductive, TypeOK, Inside, AwaitFrontier, CallbackFails, Stop,
       Discard, Promised, Deferral!DeferredNext, Deferral!Fail

-----------------------------------------------------------------------------
LEMMA EveryStep ==
    ASSUME Inductive, [RecNext]_recVars
    PROVE  Promised
<1>1. ASSUME NEW h \in Handles,
             NewOwned(h) \/ Record(h) \/ OpenBatch(h) \/ Drop(h) \/ Apply(h)
      PROVE  Promised
  BY <1>1, NewOwnedStep, RecordStep, OpenBatchStep, DropStep, ApplyStep
<1>2. CASE RecordInBatch \/ CloseBatch \/ AbandonBatch
  BY <1>2, RecordInBatchStep, CloseBatchStep, AbandonBatchStep
<1>3. CASE StartRun \/ Extract \/ ExtractionFails \/ BodyEnds \/ BodyFails
  BY <1>3, StartRunStep, ExtractStep, ExtractionFailsStep, BodyEndsStep, BodyFailsStep
<1>4. ASSUME NEW k \in 0..Len(pending), Publish(k) PROVE Promised
  BY <1>4, PublishStep
<1>5. CASE Skip
  BY <1>5, NextSystemStep DEF Skip
<1>6. CASE CallbackEnds
  BY <1>6, NextSystemStep DEF CallbackEnds
<1>7. CASE CallbackFails
  BY <1>7, CallbackFailsStep
<1>8. CASE UNCHANGED recVars
  BY <1>8 DEF recVars, Inductive, TypeOK, Inside, AwaitFrontier, Promised,
     Deferral!deferredVars
<1> QED BY <1>1, <1>2, <1>3, <1>4, <1>5, <1>6, <1>7, <1>8 DEF RecNext, Program, RuntimeStep

(***************************************************************************)
(* Recorders have their types, no handle outlives the body it was made     *)
(* for, and what is pending waits for a frontier still to come.            *)
(***************************************************************************)
THEOREM InductiveInvariant == RecSpec => []Inductive
<1>1. RecInit => Inductive
  BY InductiveAtFirst
<1>2. Inductive /\ [RecNext]_recVars => Inductive'
  BY EveryStep DEF Promised
<1> QED BY <1>1, <1>2, PTL DEF RecSpec

(***************************************************************************)
(* For any systems with any recorders, and frontiers after each of them,   *)
(* handles, batches and buffers implement deferral: a failure loses what   *)
(* was not published and nothing else, and no run inherits from another.   *)
(***************************************************************************)
THEOREM DeferralTheorem == RecSpec => ImplementsDeferral
<1>1. RecInit => Deferral!DeferredInit
  BY InductiveAtFirst
<1>2. Inductive /\ [RecNext]_recVars => [Deferral!DeferredNext]_(Deferral!deferredVars)
  BY EveryStep DEF Promised
<1> QED BY <1>1, <1>2, InductiveInvariant, PTL DEF RecSpec, ImplementsDeferral, Deferral!DeferredSpec
-----------------------------------------------------------------------------
(* An effect is in one place, once.  What a step does to the queues is one *)
(* of three things: they keep what they have or lose it, one of them grows *)
(* by an effect never recorded before, or the first effects of one are put *)
(* behind another.                                                         *)

Contents == [q \in Queues |-> Queue(q)]

Once(c) ==
    \A p, q \in DOMAIN c : \A i \in 1..Len(c[p]), j \in 1..Len(c[q]) :
        c[p][i] = c[q][j] => p = q /\ i = j

UpToEffect(c, n) == \A q \in DOMAIN c : \A i \in 1..Len(c[q]) : c[q][i] <= n

Sequences(c) == \A q \in DOMAIN c : c[q] \in Seq(Nat)

KeptOrLost(c, d, q) == d[q] = <<>> \/ (q \in DOMAIN c /\ d[q] = c[q])

Owners == Once(Contents) /\ UpToEffect(Contents, issued)

LEMMA Fewer ==
    ASSUME NEW c, NEW d, NEW n, Once(c), UpToEffect(c, n),
           \A q \in DOMAIN d : KeptOrLost(c, d, q)
    PROVE  Once(d) /\ UpToEffect(d, n)
<1>1. \A q \in DOMAIN d : \A i \in 1..Len(d[q]) : q \in DOMAIN c /\ d[q] = c[q]
  BY DEF KeptOrLost
<1> QED BY <1>1 DEF Once, UpToEffect

LEMMA Gaining ==
    ASSUME NEW c, NEW d, NEW n \in Nat, NEW at \in DOMAIN c,
           Sequences(c), Once(c), UpToEffect(c, n),
           d[at] = Append(c[at], n + 1),
           \A q \in DOMAIN d : q = at \/ KeptOrLost(c, d, q)
    PROVE  Once(d) /\ UpToEffect(d, n + 1)
<1>1. /\ Len(c[at]) \in Nat
      /\ Len(d[at]) = Len(c[at]) + 1
      /\ \A i \in 1..Len(c[at]) : d[at][i] = c[at][i]
      /\ d[at][Len(c[at]) + 1] = n + 1
  <2>1. c[at] \in Seq(Nat) /\ n + 1 \in Nat
    BY DEF Sequences
  <2> QED BY <2>1, AppendProperties, LenProperties
<1>2. ASSUME NEW q \in DOMAIN d, NEW i \in 1..Len(d[q])
      PROVE  \/ q = at /\ i = Len(c[at]) + 1 /\ d[q][i] = n + 1
             \/ q \in DOMAIN c /\ i \in 1..Len(c[q]) /\ d[q][i] = c[q][i] /\ d[q][i] <= n
  <2>1. CASE q = at
    BY <1>1, <2>1 DEF UpToEffect
  <2>2. CASE q # at
    BY <2>2 DEF KeptOrLost, UpToEffect
  <2> QED BY <2>1, <2>2
<1>3. ASSUME NEW q \in DOMAIN d, NEW i \in 1..Len(d[q]),
             NEW p \in DOMAIN d, NEW j \in 1..Len(d[p]), d[q][i] = d[p][j]
      PROVE  q = p /\ i = j
  <2>1. \/ q = at /\ i = Len(c[at]) + 1 /\ d[q][i] = n + 1
        \/ q \in DOMAIN c /\ i \in 1..Len(c[q]) /\ d[q][i] = c[q][i] /\ d[q][i] <= n
    BY <1>2
  <2>2. \/ p = at /\ j = Len(c[at]) + 1 /\ d[p][j] = n + 1
        \/ p \in DOMAIN c /\ j \in 1..Len(c[p]) /\ d[p][j] = c[p][j] /\ d[p][j] <= n
    BY <1>2
  <2>3. ~ (n + 1 <= n)
    OBVIOUS
  <2> QED BY <1>3, <2>1, <2>2, <2>3 DEF Once
<1>4. UpToEffect(d, n + 1)
  <2>1. ASSUME NEW q \in DOMAIN d, NEW i \in 1..Len(d[q]) PROVE d[q][i] <= n + 1
    <3>1. CASE d[q][i] = n + 1
      BY <3>1
    <3>2. CASE q \in DOMAIN c /\ i \in 1..Len(c[q]) /\ d[q][i] = c[q][i] /\ d[q][i] <= n
      <4>1. c[q][i] \in Nat
        BY <3>2, ElementOfSeq DEF Sequences
      <4> QED BY <3>2, <4>1
    <3> QED BY <1>2, <3>1, <3>2
  <2> QED BY <2>1 DEF UpToEffect
<1> QED BY <1>3, <1>4 DEF Once

LEMMA Moved ==
    ASSUME NEW c, NEW d, NEW n, NEW from \in DOMAIN c, NEW to \in DOMAIN c, from # to,
           Sequences(c), Once(c), UpToEffect(c, n), NEW k \in 0..Len(c[from]),
           d[to] = c[to] \o SubSeq(c[from], 1, k),
           \A q \in DOMAIN d : q = to \/ d[q] = <<>> \/ (q # from /\ KeptOrLost(c, d, q))
    PROVE  Once(d) /\ UpToEffect(d, n)
<1>1. /\ c[to] \in Seq(Nat) /\ c[from] \in Seq(Nat)
      /\ Len(c[to]) \in Nat /\ Len(c[from]) \in Nat /\ k \in Nat
  BY LenProperties DEF Sequences
<1>2. /\ SubSeq(c[from], 1, k) \in Seq(Nat)
      /\ Len(SubSeq(c[from], 1, k)) = k
      /\ \A i \in 1..k : SubSeq(c[from], 1, k)[i] = c[from][i]
  <2>1. \A i \in 1..k : c[from][i] \in Nat
    <3>1. \A i \in 1..k : i \in 1..Len(c[from])
      BY <1>1
    <3> QED BY <1>1, <3>1, ElementOfSeq
  <2> QED BY <1>1, <2>1, SubSeqProperties
<1>3. /\ Len(d[to]) = Len(c[to]) + k
      /\ \A i \in 1..Len(c[to]) : d[to][i] = c[to][i]
      /\ \A i \in 1..k : d[to][Len(c[to]) + i] = c[from][i]
  BY <1>1, <1>2, ConcatProperties
<1>4. ASSUME NEW q \in DOMAIN d, NEW i \in 1..Len(d[q])
      PROVE  \/ /\ q = to /\ i \in (Len(c[to]) + 1)..(Len(c[to]) + k)
                /\ i - Len(c[to]) \in 1..Len(c[from])
                /\ d[q][i] = c[from][i - Len(c[to])]
             \/ /\ q \in DOMAIN c /\ q # from /\ i \in 1..Len(c[q]) /\ d[q][i] = c[q][i]
                /\ q = to => i \in 1..Len(c[to])
  <2>1. CASE q = to /\ i \in 1..Len(c[to])
    BY <1>3, <2>1
  <2>2. CASE q = to /\ i \notin 1..Len(c[to])
    <3>1. i - Len(c[to]) \in 1..k /\ i = Len(c[to]) + (i - Len(c[to]))
      BY <1>1, <1>3, <2>2
    <3>2. d[q][i] = c[from][i - Len(c[to])]
      BY <1>3, <2>2, <3>1
    <3> QED BY <1>1, <2>2, <3>1, <3>2
  <2>3. CASE q # to
    BY <2>3 DEF KeptOrLost
  <2> QED BY <2>1, <2>2, <2>3
<1>5. ASSUME NEW q \in DOMAIN d, NEW i \in 1..Len(d[q]),
             NEW p \in DOMAIN d, NEW j \in 1..Len(d[p]), d[q][i] = d[p][j]
      PROVE  q = p /\ i = j
  <2> DEFINE Came(r, m) == /\ r = to /\ m \in (Len(c[to]) + 1)..(Len(c[to]) + k)
                           /\ m - Len(c[to]) \in 1..Len(c[from])
                           /\ d[r][m] = c[from][m - Len(c[to])]
             Was(r, m) == /\ r \in DOMAIN c /\ r # from /\ m \in 1..Len(c[r])
                          /\ d[r][m] = c[r][m]
  <2>1. (Came(q, i) \/ Was(q, i)) /\ (Came(p, j) \/ Was(p, j))
    BY <1>4
  <2>2. CASE Came(q, i) /\ Came(p, j)
    <3>1. i - Len(c[to]) = j - Len(c[to])
      BY <1>5, <2>2 DEF Once
    <3> QED BY <1>1, <2>2, <3>1
  <2>3. ~ (Came(q, i) /\ Was(p, j)) /\ ~ (Was(q, i) /\ Came(p, j))
    BY <1>5, SMTT(30) DEF Once
  <2>4. CASE Was(q, i) /\ Was(p, j)
    <3>1. c[q][i] = c[p][j]
      BY <1>5, <2>4
    <3> QED BY <2>4, <3>1 DEF Once
  <2> QED BY <2>1, <2>2, <2>3, <2>4
<1>6. UpToEffect(d, n)
  <2>1. ASSUME NEW q \in DOMAIN d, NEW i \in 1..Len(d[q]) PROVE d[q][i] <= n
    BY <1>4, <2>1 DEF UpToEffect
  <2> QED BY <2>1 DEF UpToEffect
<1> QED BY <1>5, <1>6 DEF Once

(* Where the queues are, and what each holds.                              *)
Laid(c, w, p, s, o, b) ==
    /\ {<<"world">>, <<"pending">>, <<"shared">>} \subseteq DOMAIN c
    /\ c[<<"world">>] = w /\ c[<<"pending">>] = p /\ c[<<"shared">>] = s
    /\ \A h \in Handles : <<"own", h>> \in DOMAIN c /\ c[<<"own", h>>] = o[h]
    /\ \A i \in 1..Len(b) : <<"batch", i>> \in DOMAIN c /\ c[<<"batch", i>>] = b[i].queue
    /\ \A q \in DOMAIN c :
          \/ q \in {<<"world">>, <<"pending">>, <<"shared">>}
          \/ \E h \in Handles : q = <<"own", h>>
          \/ \E i \in 1..Len(b) : q = <<"batch", i>>

LEMMA Queued == Laid(Contents, world, pending, shared, own, batches)
<1>1. /\ Queue(<<"world">>) = world /\ Queue(<<"pending">>) = pending
      /\ Queue(<<"shared">>) = shared
  BY DEF Queue
<1>2. \A h \in Handles : Queue(<<"own", h>>) = own[h]
  BY DEF Queue
<1>3. \A i \in 1..Len(batches) : Queue(<<"batch", i>>) = batches[i].queue
  BY DEF Queue
<1> QED BY <1>1, <1>2, <1>3 DEF Laid, Contents, Queues

LEMMA QueuedNext == Laid(Contents', world', pending', shared', own', batches')
<1>1. Laid(Contents, world, pending, shared, own, batches)'
  BY Queued, PTL
<1> QED BY <1>1 DEF Laid

(* What all queues but some keep or lose in a step.                        *)
Left(old, new) == new = old \/ new = <<>>

Frame(but) ==
    /\ <<"world">> \in but \/ Left(world, world')
    /\ <<"pending">> \in but \/ Left(pending, pending')
    /\ <<"shared">> \in but \/ Left(shared, shared')
    /\ \A h \in Handles : <<"own", h>> \in but \/ Left(own[h], own'[h])
    /\ \A i \in 1..Len(batches') :
          \/ <<"batch", i>> \in but
          \/ batches'[i].queue = <<>>
          \/ i \in 1..Len(batches) /\ batches'[i].queue = batches[i].queue

LEMMA Framed ==
    ASSUME NEW but, Frame(but), NEW c, NEW d,
           Laid(c, world, pending, shared, own, batches),
           Laid(d, world', pending', shared', own', batches')
    PROVE  \A q \in DOMAIN d : q \in but \/ KeptOrLost(c, d, q)
<1> SUFFICES ASSUME NEW q \in DOMAIN d, q \notin but PROVE KeptOrLost(c, d, q)
  OBVIOUS
<1>1. CASE q \in {<<"world">>, <<"pending">>, <<"shared">>}
  BY <1>1 DEF Frame, Left, KeptOrLost, Laid
<1>2. ASSUME NEW h \in Handles, q = <<"own", h>> PROVE KeptOrLost(c, d, q)
  BY <1>2 DEF Frame, Left, KeptOrLost, Laid
<1>3. ASSUME NEW i \in 1..Len(batches'), q = <<"batch", i>> PROVE KeptOrLost(c, d, q)
  <2>1. \/ batches'[i].queue = <<>>
        \/ i \in 1..Len(batches) /\ batches'[i].queue = batches[i].queue
    BY <1>3 DEF Frame
  <2> QED BY <1>3, <2>1 DEF KeptOrLost, Laid
<1> QED BY <1>1, <1>2, <1>3 DEF Laid

LEMMA QueuesTyped ==
    ASSUME Inductive, NEW c, Laid(c, world, pending, shared, own, batches)
    PROVE  Sequences(c)
<1>1. \A s \in EffectsRecorded : s \in Seq(Nat)
  <2>1. Effects \subseteq Nat
    BY RecorderConstants DEF Effects
  <2> QED BY <2>1, SeqMonotonic DEF EffectsRecorded
<1>2. \A i \in 1..Len(batches) : batches[i].queue \in EffectsRecorded
  <2>1. \A i \in 1..Len(batches) : batches[i] \in [for : Handles, queue : EffectsRecorded]
    BY ElementOfSeq DEF Inductive, TypeOK
  <2> QED BY <2>1
<1>3. /\ world \in EffectsRecorded /\ pending \in EffectsRecorded
      /\ shared \in EffectsRecorded /\ \A h \in Handles : own[h] \in EffectsRecorded
  BY DEF Inductive, TypeOK
<1>4. ASSUME NEW q \in DOMAIN c PROVE c[q] \in EffectsRecorded
  BY <1>2, <1>3 DEF Laid
<1> QED BY <1>1, <1>4 DEF Sequences

(* The three kinds of step.                                                *)
LEMMA FewerStep ==
    ASSUME Owners, Frame({}), issued' = issued
    PROVE  Owners'
<1>1. PICK c : c = Contents
  OBVIOUS
<1>2. PICK d : d = Contents'
  OBVIOUS
<1>3. PICK n : n = issued
  OBVIOUS
<1>4. Laid(c, world, pending, shared, own, batches)
  BY <1>1, Queued
<1>5. Laid(d, world', pending', shared', own', batches')
  BY <1>2, QueuedNext
<1>6. PICK but : but = {}
  OBVIOUS
<1>7. \A q \in DOMAIN d : KeptOrLost(c, d, q)
  <2>1. Frame(but)
    BY <1>6
  <2> QED BY <1>4, <1>5, <1>6, <2>1, Framed
<1>8. Once(c) /\ UpToEffect(c, n)
  BY <1>1, <1>3 DEF Owners
<1>9. Once(d) /\ UpToEffect(d, n)
  BY <1>7, <1>8, Fewer
<1> QED BY <1>2, <1>3, <1>9 DEF Owners

LEMMA AddedStep ==
    ASSUME Inductive, Owners, NEW at \in Queues, Frame({at}), issued' = issued + 1,
           Contents'[at] = Append(Contents[at], issued + 1)
    PROVE  Owners'
<1>1. PICK c : c = Contents
  OBVIOUS
<1>2. PICK d : d = Contents'
  OBVIOUS
<1>3. PICK n : n = issued
  OBVIOUS
<1>4. Laid(c, world, pending, shared, own, batches)
  BY <1>1, Queued
<1>5. Laid(d, world', pending', shared', own', batches')
  BY <1>2, QueuedNext
<1>6. PICK but : but = {at}
  OBVIOUS
<1>7. \A q \in DOMAIN d : q = at \/ KeptOrLost(c, d, q)
  <2>1. Frame(but)
    BY <1>6
  <2> QED BY <1>4, <1>5, <1>6, <2>1, Framed
<1>8. /\ Once(c) /\ UpToEffect(c, n) /\ Sequences(c) /\ n \in Nat
      /\ at \in DOMAIN c /\ d[at] = Append(c[at], n + 1)
  BY <1>1, <1>2, <1>3, <1>4, QueuesTyped, RecorderConstants
     DEF Owners, Inductive, TypeOK, Contents
<1>9. Once(d) /\ UpToEffect(d, n + 1)
  BY <1>7, <1>8, Gaining
<1> QED BY <1>2, <1>3, <1>9 DEF Owners

LEMMA MovedStep ==
    ASSUME Inductive, Owners, NEW from \in Queues, NEW to \in Queues, from # to,
           Frame({from, to}), issued' = issued, NEW k \in 0..Len(Contents[from]),
           Contents'[to] = Contents[to] \o SubSeq(Contents[from], 1, k),
           from \notin Queues' \/ Contents'[from] = <<>>
    PROVE  Owners'
<1>1. PICK c : c = Contents
  OBVIOUS
<1>2. PICK d : d = Contents'
  OBVIOUS
<1>3. PICK n : n = issued
  OBVIOUS
<1>4. Laid(c, world, pending, shared, own, batches)
  BY <1>1, Queued
<1>5. Laid(d, world', pending', shared', own', batches')
  BY <1>2, QueuedNext
<1>6. PICK but : but = {from, to}
  OBVIOUS
<1>7. \A q \in DOMAIN d : q \in {from, to} \/ KeptOrLost(c, d, q)
  <2>1. Frame(but)
    BY <1>6
  <2> QED BY <1>4, <1>5, <1>6, <2>1, Framed
<1>8. /\ Once(c) /\ UpToEffect(c, n) /\ Sequences(c)
      /\ from \in DOMAIN c /\ to \in DOMAIN c /\ k \in 0..Len(c[from])
      /\ d[to] = c[to] \o SubSeq(c[from], 1, k)
      /\ from \notin DOMAIN d \/ d[from] = <<>>
  BY <1>1, <1>2, <1>3, <1>4, QueuesTyped DEF Owners, Contents
<1>9. \A q \in DOMAIN d : q = to \/ d[q] = <<>> \/ (q # from /\ KeptOrLost(c, d, q))
  BY <1>7, <1>8
<1>10. Once(d) /\ UpToEffect(d, n)
  BY <1>8, <1>9, Moved
<1> QED BY <1>2, <1>3, <1>10 DEF Owners

-----------------------------------------------------------------------------
LEMMA OwnersAtFirst == RecInit => Owners
<1> SUFFICES ASSUME RecInit PROVE Owners
  OBVIOUS
<1>1. \A q \in DOMAIN Contents : Contents[q] = <<>>
  <2>1. 1..Len(batches) = {}
    BY DEF RecInit
  <2> QED BY <2>1, Queued DEF RecInit, Laid
<1> QED BY <1>1 DEF Owners, Once, UpToEffect

(* Steps that put nothing anywhere.                                        *)
LEMMA BatchesWithin ==
    ASSUME Inductive, InBatch, batches' = Outer
    PROVE  /\ Len(batches') = Len(batches) - 1 /\ Len(batches) \in Nat \ {0}
           /\ \A i \in 1..Len(batches') : i \in 1..Len(batches) /\ batches'[i] = batches[i]
<1> DEFINE Batch == [for : Handles, queue : EffectsRecorded]
<1>1. batches \in Seq(Batch) /\ batches # <<>>
  BY DEF Inductive, TypeOK, InBatch
<1> HIDE DEF Batch
<1>2. Len(batches) \in Nat \ {0}
  BY <1>1, EmptySeq
<1>3. \A i \in 1..(Len(batches) - 1) : batches[i] \in Batch
  <2>1. \A i \in 1..(Len(batches) - 1) : i \in 1..Len(batches)
    BY <1>2
  <2> QED BY <1>1, <2>1, ElementOfSeq
<1>4. 1 \in Int /\ Len(batches) - 1 \in Int
  BY <1>2
<1>5. /\ Len(Outer) = Len(batches) - 1
      /\ \A i \in 1..(Len(batches) - 1) : Outer[i] = batches[i]
  <2>1. PICK m : m = Len(batches) - 1
    OBVIOUS
  <2>2. /\ m \in Nat
        /\ Len(SubSeq(batches, 1, m)) = IF 1 <= m THEN m - 1 + 1 ELSE 0
        /\ \A i \in 1..(m - 1 + 1) : SubSeq(batches, 1, m)[i] = batches[1 + i - 1]
    BY <1>2, <1>3, <1>4, <2>1, SubSeqProperties
  <2>3. /\ Len(SubSeq(batches, 1, m)) = m
        /\ \A i \in 1..m : SubSeq(batches, 1, m)[i] = batches[i]
    BY <2>2
  <2> QED BY <2>1, <2>3 DEF Outer
<1>6. Len(batches') = Len(batches) - 1
  BY <1>5
<1>7. \A i \in 1..(Len(batches) - 1) : i \in 1..Len(batches) /\ batches'[i] = batches[i]
  BY <1>2, <1>5
<1> QED BY <1>2, <1>6, <1>7

LEMMA OpenBatchOwned ==
    ASSUME Inductive, Owners, NEW h \in Handles, OpenBatch(h)
    PROVE  Owners'
<1>1. [for |-> h, queue |-> <<>>] \in [for : Handles, queue : EffectsRecorded]
  BY EmptySeq DEF EffectsRecorded
<1>2. PICK b : b = [for |-> h, queue |-> <<>>]
  OBVIOUS
<1>3. /\ Len(batches') = Len(batches) + 1 /\ Len(batches) \in Nat
      /\ \A i \in 1..Len(batches) : batches'[i] = batches[i]
      /\ batches'[Len(batches) + 1] = b
  BY <1>1, <1>2, AppendProperties, LenProperties DEF Inductive, TypeOK, OpenBatch
<1>4. ASSUME NEW i \in 1..Len(batches')
      PROVE  \/ batches'[i].queue = <<>>
             \/ i \in 1..Len(batches) /\ batches'[i].queue = batches[i].queue
  BY <1>2, <1>3
<1>5. Frame({})
  BY <1>4 DEF Frame, Left, OpenBatch
<1> QED BY <1>5, FewerStep DEF OpenBatch

LEMMA NothingPut ==
    ASSUME Inductive, Owners,
           \/ \E h \in Handles : NewOwned(h) \/ Drop(h)
           \/ AbandonBatch \/ StartRun \/ Extract \/ ExtractionFails \/ BodyFails
           \/ Skip \/ CallbackEnds \/ CallbackFails \/ UNCHANGED recVars
    PROVE  Owners'
<1>1. issued' = issued /\ world' = world /\ Left(pending, pending') /\ Left(shared, shared')
  BY DEF NewOwned, Drop, AbandonBatch, StartRun, Extract, ExtractionFails, BodyFails,
     Skip, CallbackEnds, NextSystem, CallbackFails, Discard, recVars, Left
<1>2. \A h \in Handles : Left(own[h], own'[h])
  BY DEF NewOwned, Drop, AbandonBatch, StartRun, Extract, ExtractionFails, BodyFails,
     Skip, CallbackEnds, NextSystem, CallbackFails, Discard, recVars, Left, Inductive, TypeOK
<1>3. \/ batches' = batches \/ batches' = <<>> \/ (InBatch /\ batches' = Outer)
  BY DEF NewOwned, Drop, AbandonBatch, StartRun, Extract, ExtractionFails, BodyFails,
     Skip, CallbackEnds, NextSystem, CallbackFails, DropParams, recVars
<1>4. \A i \in 1..Len(batches') : i \in 1..Len(batches) /\ batches'[i] = batches[i]
  BY <1>3, BatchesWithin
<1>5. Frame({})
  BY <1>1, <1>2, <1>4 DEF Frame, Left
<1> QED BY <1>1, <1>5, FewerStep

(* Where a recorder stores.                                                *)
StoresAt(h) == IF storage[h] = Owned THEN <<"own", h>> ELSE <<"shared">>

(* A push grows one queue, and leaves the others.                          *)
LEMMA PushedAt ==
    ASSUME Inductive, NEW h \in Handles, storage[h] # None, NEW es, Push(h, es)
    PROVE  /\ StoresAt(h) \in Queues
           /\ Contents'[StoresAt(h)] = Contents[StoresAt(h)] \o es
           /\ <<"shared">> = StoresAt(h) \/ shared' = shared
           /\ \A g \in Handles : <<"own", g>> = StoresAt(h) \/ own'[g] = own[g]
<1>1. storage[h] = Owned \/ storage[h] = External
  BY DEF Inductive, TypeOK
<1>2. StoresAt(h) \in Queues
  BY DEF StoresAt, Queues
<1>3. own \in [Handles -> EffectsRecorded]
  BY DEF Inductive, TypeOK
<1>4. CASE storage[h] = Owned
  <2>1. own' = [own EXCEPT ![h] = @ \o es] /\ shared' = shared
    BY <1>4 DEF Push, Owned, External
  <2>2. own'[h] = own[h] \o es /\ \A g \in Handles : g = h \/ own'[g] = own[g]
    BY <1>3, <2>1
  <2>3. StoresAt(h) = <<"own", h>>
    BY <1>4 DEF StoresAt
  <2>4. Contents'[<<"own", h>>] = own'[h] /\ Contents[<<"own", h>>] = own[h]
    BY Queued, QueuedNext DEF Laid
  <2> QED BY <1>2, <2>1, <2>2, <2>3, <2>4
<1>5. CASE storage[h] = External
  <2>1. own' = own /\ shared' = shared \o es
    BY <1>5 DEF Push, Owned, External
  <2>2. StoresAt(h) = <<"shared">>
    BY <1>5 DEF StoresAt, Owned, External
  <2>3. Contents'[<<"shared">>] = shared' /\ Contents[<<"shared">>] = shared
    BY Queued, QueuedNext DEF Laid
  <2> QED BY <1>2, <2>1, <2>2, <2>3
<1> QED BY <1>1, <1>4, <1>5

LEMMA ContentsTyped ==
    ASSUME Inductive, NEW q \in Queues
    PROVE  Contents[q] \in Seq(Nat)
<1>1. PICK c : c = Contents
  OBVIOUS
<1>2. Sequences(c) /\ DOMAIN c = Queues
  BY <1>1, Queued, QueuesTyped DEF Contents
<1> QED BY <1>1, <1>2 DEF Sequences

LEMMA RecordOwned ==
    ASSUME Inductive, Owners, NEW h \in Handles, Record(h)
    PROVE  Owners'
<1>1. PICK at : at = StoresAt(h)
  OBVIOUS
<1>2. /\ at \in Queues /\ Contents'[at] = Contents[at] \o <<issued + 1>>
      /\ <<"shared">> = at \/ shared' = shared
      /\ \A g \in Handles : <<"own", g>> = at \/ own'[g] = own[g]
  BY <1>1, PushedAt DEF Record, NextEffect
<1>3. Contents[at] \in Seq(Nat) /\ issued + 1 \in Nat
  BY <1>2, ContentsTyped, RecorderConstants DEF Inductive, TypeOK
<1>4. Contents'[at] = Append(Contents[at], issued + 1)
  <2>1. Append(Contents[at], issued + 1) = Contents[at] \o <<issued + 1>>
    BY <1>3, AppendIsConcat
  <2> QED BY <1>2, <2>1
<1>5. Frame({at})
  BY <1>2 DEF Frame, Left, Record
<1> QED BY <1>2, <1>4, <1>5, AddedStep DEF Record, NextEffect

LEMMA RecordInBatchOwned ==
    ASSUME Inductive, Owners, RecordInBatch
    PROVE  Owners'
<1>1. PICK n : n = Len(batches)
  OBVIOUS
<1>2. PICK at : at = <<"batch", n>>
  OBVIOUS
<1>3. n \in 1..Len(batches) /\ n \in Nat \ {0} /\ n \in DOMAIN batches
      /\ batches[n] \in [for : Handles, queue : EffectsRecorded]
  <2>1. n \in DOMAIN batches /\ batches[n] \in [for : Handles, queue : EffectsRecorded]
    BY <1>1, Batches DEF RecordInBatch, Innermost
  <2> QED BY <1>1, <2>1, LenProperties DEF Inductive, TypeOK
<1> DEFINE grown == [batches[n] EXCEPT !.queue = Append(@, NextEffect)]
<1>4. batches' = [batches EXCEPT ![n] = grown]
  BY <1>1 DEF RecordInBatch
<1>5. grown.queue = Append(batches[n].queue, issued + 1)
  BY <1>3 DEF NextEffect
<1> HIDE DEF grown
<1>6. /\ Len(batches') = Len(batches) /\ batches'[n] = grown
      /\ \A i \in 1..Len(batches') : i = n \/ (i \in 1..Len(batches) /\ batches'[i] = batches[i])
  <2>1. /\ DOMAIN batches' = DOMAIN batches
        /\ batches'[n] = grown /\ \A i \in DOMAIN batches : i = n \/ batches'[i] = batches[i]
    BY <1>3, <1>4
  <2>2. DOMAIN batches = 1..Len(batches) /\ Len(batches) \in Nat
    BY LenProperties DEF Inductive, TypeOK
  <2>3. batches' \in Seq([for : Handles, queue : EffectsRecorded])
    <3>1. Inductive'
      BY RecordInBatchStep DEF Promised
    <3> QED BY <3>1 DEF Inductive, TypeOK
  <2>4. DOMAIN batches' = 1..Len(batches') /\ Len(batches') \in Nat
    BY <2>3, LenProperties
  <2>5. Len(batches') = Len(batches)
    BY <2>1, <2>2, <2>4
  <2> QED BY <2>1, <2>2, <2>5
<1>7. /\ at \in Queues /\ Contents[at] = batches[n].queue
      /\ Contents'[at] = batches'[n].queue
  <2>1. n \in 1..Len(batches')
    BY <1>3, <1>6
  <2> QED BY <1>2, <1>3, <2>1, Queued, QueuedNext DEF Laid, Contents
<1>8. Contents'[at] = Append(Contents[at], issued + 1)
  BY <1>5, <1>6, <1>7
<1>9. Frame({at})
  <2>1. own' = own /\ shared' = shared /\ pending' = pending /\ world' = world
    BY DEF RecordInBatch
  <2>2. \A i \in 1..Len(batches') :
           \/ <<"batch", i>> \in {at}
           \/ i \in 1..Len(batches) /\ batches'[i].queue = batches[i].queue
    BY <1>2, <1>6
  <2> QED BY <2>1, <2>2 DEF Frame, Left
<1> QED BY <1>7, <1>8, <1>9, AddedStep DEF RecordInBatch, NextEffect

LEMMA AllOf ==
    ASSUME NEW s \in Seq(Nat)
    PROVE  Len(s) \in 0..Len(s) /\ SubSeq(s, 1, Len(s)) = s
<1>1. Len(s) \in Nat
  BY LenProperties
<1> QED BY <1>1, SubSeqFull

LEMMA CloseBatchOwned ==
    ASSUME Inductive, Owners, CloseBatch, storage[Innermost.for] # None
    PROVE  Owners'
<1>1. PICK n : n = Len(batches)
  OBVIOUS
<1>2. PICK h : h = batches[n].for
  OBVIOUS
<1>3. PICK from : from = <<"batch", n>>
  OBVIOUS
<1>4. PICK to : to = StoresAt(h)
  OBVIOUS
<1>5. /\ n \in Nat \ {0} /\ n \in 1..Len(batches) /\ Len(batches') = n - 1
      /\ \A i \in 1..Len(batches') : i \in 1..Len(batches) /\ batches'[i] = batches[i]
  BY <1>1, BatchesWithin DEF CloseBatch
<1>6. h \in Handles /\ storage[h] # None /\ Push(h, batches[n].queue)
  BY <1>1, <1>2, Batches DEF CloseBatch, PushBatch, Innermost
<1>7. /\ to \in Queues /\ Contents'[to] = Contents[to] \o batches[n].queue
      /\ <<"shared">> = to \/ shared' = shared
      /\ \A g \in Handles : <<"own", g>> = to \/ own'[g] = own[g]
  BY <1>4, <1>6, PushedAt
<1>8. from \in Queues /\ Contents[from] = batches[n].queue
  BY <1>3, <1>5, Queued DEF Laid, Contents
<1>9. from # to
  BY <1>3, <1>4 DEF StoresAt
<1>10. from \notin Queues'
  <2>1. n \notin 1..Len(batches')
    BY <1>5
  <2> QED BY <1>3, <2>1 DEF Queues
<1>11. PICK k : k = Len(Contents[from])
  OBVIOUS
<1>12. k \in 0..Len(Contents[from]) /\ SubSeq(Contents[from], 1, k) = Contents[from]
  BY <1>8, <1>11, ContentsTyped, AllOf
<1>13. Contents'[to] = Contents[to] \o SubSeq(Contents[from], 1, k)
  BY <1>7, <1>8, <1>12
<1>14. Frame({from, to})
  <2>1. pending' = pending /\ world' = world
    BY DEF CloseBatch
  <2> QED BY <1>5, <1>7, <2>1 DEF Frame, Left
<1>15. issued' = issued
  BY DEF CloseBatch
<1> QED BY <1>7, <1>8, <1>9, <1>10, <1>12, <1>13, <1>14, <1>15, MovedStep

LEMMA ApplyOwned ==
    ASSUME Inductive, Owners, NEW h \in Handles, Apply(h)
    PROVE  Owners'
<1>1. PICK from : from = StoresAt(h)
  OBVIOUS
<1>2. PICK to : to = <<"world">>
  OBVIOUS
<1>3. from \in Queues /\ to \in Queues /\ from # to
  BY <1>1, <1>2 DEF StoresAt, Queues
<1>4. storage[h] = Owned \/ storage[h] = External
  BY DEF Inductive, TypeOK, Apply
<1>5. Contents[from] = Drained(h) /\ Contents[to] = world /\ Contents'[to] = world'
  BY <1>1, <1>2, Queued, QueuedNext DEF Laid, StoresAt, Drained
<1>6. PICK k \in 0..Len(Contents[from]) : world' = Applied(Contents[from], k)
  BY <1>5 DEF Apply
<1>7. Contents'[to] = Contents[to] \o SubSeq(Contents[from], 1, k)
  BY <1>5, <1>6 DEF Applied
<1>8. own \in [Handles -> EffectsRecorded]
  BY DEF Inductive, TypeOK
<1>9. own'[h] = <<>> /\ \A g \in Handles : g = h \/ own'[g] = own[g]
  BY <1>8 DEF Apply, TakeQueue
<1>10. storage[h] = External => shared' = <<>>
  BY DEF Apply, TakeQueue
<1>11. Contents'[from] = <<>>
  BY <1>1, <1>4, <1>9, <1>10, QueuedNext DEF Laid, StoresAt
<1>12. Left(shared, shared') /\ pending' = pending /\ batches' = batches /\ issued' = issued
  BY DEF Apply, TakeQueue, Left
<1>13. Frame({from, to})
  BY <1>2, <1>9, <1>12 DEF Frame, Left
<1> QED BY <1>3, <1>6, <1>7, <1>11, <1>12, <1>13, MovedStep

LEMMA BodyEndsOwned ==
    ASSUME Inductive, Owners, BodyEnds
    PROVE  Owners'
<1>1. PICK from : from = <<"shared">>
  OBVIOUS
<1>2. PICK to : to = <<"pending">>
  OBVIOUS
<1>3. from \in Queues /\ to \in Queues /\ from # to
  BY <1>1, <1>2 DEF Queues
<1>4. /\ Contents[from] = shared /\ Contents[to] = pending
      /\ Contents'[from] = shared' /\ Contents'[to] = pending'
  BY <1>1, <1>2, Queued, QueuedNext DEF Laid
<1>5. PICK k : k = Len(Contents[from])
  OBVIOUS
<1>6. k \in 0..Len(Contents[from]) /\ SubSeq(Contents[from], 1, k) = Contents[from]
  BY <1>3, <1>5, ContentsTyped, AllOf
<1>7. Contents'[to] = Contents[to] \o SubSeq(Contents[from], 1, k) /\ Contents'[from] = <<>>
  BY <1>4, <1>6 DEF BodyEnds
<1>8. own' = own /\ world' = world /\ issued' = issued /\ batches' = <<>>
  BY DEF BodyEnds, DropParams
<1>9. Frame({from, to})
  BY <1>1, <1>2, <1>8 DEF Frame, Left
<1> QED BY <1>3, <1>6, <1>7, <1>8, <1>9, MovedStep

LEMMA PublishOwned ==
    ASSUME Inductive, Owners, NEW k \in 0..Len(pending), Publish(k)
    PROVE  Owners'
<1>1. PICK from : from = <<"pending">>
  OBVIOUS
<1>2. PICK to : to = <<"world">>
  OBVIOUS
<1>3. from \in Queues /\ to \in Queues /\ from # to
  BY <1>1, <1>2 DEF Queues
<1>4. /\ Contents[from] = pending /\ Contents[to] = world
      /\ Contents'[from] = pending' /\ Contents'[to] = world'
  BY <1>1, <1>2, Queued, QueuedNext DEF Laid
<1>5. /\ k \in 0..Len(Contents[from])
      /\ Contents'[to] = Contents[to] \o SubSeq(Contents[from], 1, k)
      /\ Contents'[from] = <<>>
  BY <1>4 DEF Publish, Applied
<1>6. own' = own /\ shared' = shared /\ issued' = issued /\ batches' = batches
  BY DEF Publish
<1>7. Frame({from, to})
  BY <1>1, <1>2, <1>6 DEF Frame, Left
<1> QED BY <1>3, <1>5, <1>6, <1>7, MovedStep

(* Were the recorder of a batch gone, the batch would be lost.             *)
LEMMA CloseNowhereOwned ==
    ASSUME Inductive, Owners, CloseBatch, storage[Innermost.for] = None
    PROVE  Owners'
<1>1. own' = own /\ shared' = shared
  BY DEF CloseBatch, PushBatch, Push, None, Owned, External
<1>2. \A i \in 1..Len(batches') : i \in 1..Len(batches) /\ batches'[i] = batches[i]
  BY BatchesWithin DEF CloseBatch
<1>3. pending' = pending /\ world' = world /\ issued' = issued
  BY DEF CloseBatch
<1>4. Frame({})
  BY <1>1, <1>2, <1>3 DEF Frame, Left
<1> QED BY <1>3, <1>4, FewerStep

(***************************************************************************)
(* For any recorders, parameters and frontiers, an effect is in one place  *)
(* at most, once, and so is applied once at most, however batches nest and *)
(* whoever else has a handle to its queue.                                 *)
(***************************************************************************)
THEOREM OwnershipTheorem == RecSpec => []OneOwner
<1>1. RecInit => Owners
  BY OwnersAtFirst
<1>2. ASSUME Inductive, Owners, [RecNext]_recVars PROVE Owners'
  <2>1. ASSUME NEW h \in Handles,
               NewOwned(h) \/ Record(h) \/ OpenBatch(h) \/ Drop(h) \/ Apply(h)
        PROVE  Owners'
    BY <1>2, <2>1, NothingPut, RecordOwned, OpenBatchOwned, ApplyOwned
  <2>2. CASE RecordInBatch
    BY <1>2, <2>2, RecordInBatchOwned
  <2>3. CASE CloseBatch
    BY <1>2, <2>3, CloseBatchOwned, CloseNowhereOwned
  <2>4. CASE BodyEnds
    BY <1>2, <2>4, BodyEndsOwned
  <2>5. ASSUME NEW k \in 0..Len(pending), Publish(k) PROVE Owners'
    BY <1>2, <2>5, PublishOwned
  <2>6. CASE \/ AbandonBatch \/ StartRun \/ Extract \/ ExtractionFails \/ BodyFails
             \/ Skip \/ CallbackEnds \/ CallbackFails \/ UNCHANGED recVars
    BY <1>2, <2>6, NothingPut
  <2> QED BY <1>2, <2>1, <2>2, <2>3, <2>4, <2>5, <2>6 DEF RecNext, Program, RuntimeStep
<1>3. ASSUME Owners PROVE OneOwner
  BY <1>3 DEF Owners, Once, Contents, OneOwner
<1>4. Inductive /\ Owners /\ [RecNext]_recVars => Owners'
  BY <1>2
<1>5. Owners => OneOwner
  BY <1>3
<1> QED BY <1>1, <1>4, <1>5, InductiveInvariant, PTL DEF RecSpec

-----------------------------------------------------------------------------
(* Query states: the shapes they may ask for.                              *)

(* A shape that has segments needs every column it may hand out.           *)
Exclusives(form) == {d.on : d \in {b \in ElementsOf(form.declares) : b.mode = "exclusive"}}
Complete(form) == form.segments => Exclusives(form) \subseteq ElementsOf(form.needs)

LEMMA SingleComplete ==
    ASSUME NEW form, NEW T, NEW d, form.needs = <<T>>, form.declares = <<d>>, d.on = T
    PROVE  Complete(form)
<1>1. \A b \in ElementsOf(form.declares) : b = d
  BY DEF ElementsOf
<1>2. T \in ElementsOf(form.needs)
  BY DEF ElementsOf
<1> QED BY <1>1, <1>2 DEF Complete, Exclusives

LEMMA PairComplete ==
    ASSUME NEW form, NEW A, NEW B, NEW c, NEW d, form.needs = <<A, B>>,
           form.declares = <<c, d>>, c.on = A, d.on = B
    PROVE  Complete(form)
<1>1. \A b \in ElementsOf(form.declares) : b = c \/ b = d
  BY DEF ElementsOf
<1>2. A \in ElementsOf(form.needs) /\ B \in ElementsOf(form.needs)
  BY DEF ElementsOf
<1> QED BY <1>1, <1>2 DEF Complete, Exclusives

LEMMA OnIs ==
    \A T : Read(T).on = T /\ Write(T).on = T
BY DEF Read, Write

LEMMA OneComplete == ASSUME NEW A, NEW form \in OnOne(A) PROVE Complete(form)
<1>1. Complete(Ref(A))
  <2>1. Ref(A).needs = <<A>> /\ Ref(A).declares = <<Read(A)>>
    BY DEF Ref, Form
  <2> QED BY <2>1, OnIs, SingleComplete
<1>2. Complete(Mut(A))
  <2>1. Mut(A).needs = <<A>> /\ Mut(A).declares = <<Write(A)>>
    BY DEF Mut, Form
  <2> QED BY <2>1, OnIs, SingleComplete
<1>3. Complete(EntityRef(A))
  <2>1. EntityRef(A).needs = <<A>> /\ EntityRef(A).declares = <<Read(A)>>
    BY DEF EntityRef, Form
  <2> QED BY <2>1, OnIs, SingleComplete
<1>4. Complete(EntityMut(A))
  <2>1. EntityMut(A).needs = <<A>> /\ EntityMut(A).declares = <<Write(A)>>
    BY DEF EntityMut, Form
  <2> QED BY <2>1, OnIs, SingleComplete
<1>5. Complete(OptRef(A))
  <2>1. ~ OptRef(A).segments
    BY DEF OptRef, Form
  <2> QED BY <2>1 DEF Complete
<1>6. Complete(OptMut(A))
  <2>1. ~ OptMut(A).segments
    BY DEF OptMut, Form
  <2> QED BY <2>1 DEF Complete
<1>7. Complete(EntityOptRef(A))
  <2>1. ~ EntityOptRef(A).segments
    BY DEF EntityOptRef, Form
  <2> QED BY <2>1 DEF Complete
<1> QED BY <1>1, <1>2, <1>3, <1>4, <1>5, <1>6, <1>7 DEF OnOne

LEMMA TwoComplete == ASSUME NEW A, NEW B, NEW form \in OnTwo(A, B) PROVE Complete(form)
<1>1. Complete(RefRef(A, B))
  <2>1. RefRef(A, B).needs = <<A, B>> /\ RefRef(A, B).declares = <<Read(A), Read(B)>>
    BY DEF RefRef, Form
  <2> QED BY <2>1, OnIs, PairComplete
<1>2. Complete(MutRef(A, B))
  <2>1. MutRef(A, B).needs = <<A, B>> /\ MutRef(A, B).declares = <<Write(A), Read(B)>>
    BY DEF MutRef, Form
  <2> QED BY <2>1, OnIs, PairComplete
<1>3. Complete(RefMut(A, B))
  <2>1. RefMut(A, B).needs = <<A, B>> /\ RefMut(A, B).declares = <<Read(A), Write(B)>>
    BY DEF RefMut, Form
  <2> QED BY <2>1, OnIs, PairComplete
<1>4. Complete(MutMut(A, B))
  <2>1. MutMut(A, B).needs = <<A, B>> /\ MutMut(A, B).declares = <<Write(A), Write(B)>>
    BY DEF MutMut, Form
  <2> QED BY <2>1, OnIs, PairComplete
<1>5. Complete(MutOptRef(A, B))
  <2>1. ~ MutOptRef(A, B).segments
    BY DEF MutOptRef, Form
  <2> QED BY <2>1 DEF Complete
<1>6. Complete(RefOptRef(A, B))
  <2>1. ~ RefOptRef(A, B).segments
    BY DEF RefOptRef, Form
  <2> QED BY <2>1 DEF Complete
<1>7. Complete(RefOptMut(A, B))
  <2>1. ~ RefOptMut(A, B).segments
    BY DEF RefOptMut, Form
  <2> QED BY <2>1 DEF Complete
<1>8. Complete(MutOptMut(A, B))
  <2>1. ~ MutOptMut(A, B).segments
    BY DEF MutOptMut, Form
  <2> QED BY <2>1 DEF Complete
<1> QED BY <1>1, <1>2, <1>3, <1>4, <1>5, <1>6, <1>7, <1>8 DEF OnTwo

LEMMA ShapesComplete == ASSUME NEW CS, NEW form \in Forms(CS) PROVE Complete(form)
<1>1. ASSUME NEW A, NEW B, NEW C, NEW f \in OnThree(A, B, C) PROVE ~ f.segments
  <2>1. ~ RefRefRef(A, B, C).segments
    BY DEF RefRefRef, Form
  <2>2. ~ MutRefRef(A, B, C).segments
    BY DEF MutRefRef, Form
  <2>3. ~ MutMutRef(A, B, C).segments
    BY DEF MutMutRef, Form
  <2> QED BY <2>1, <2>2, <2>3 DEF OnThree
<1>2. PICK A \in CS : \/ form \in OnOne(A)
                      \/ \E B \in CS : form \in FormsOn(A, B, CS)
  BY DEF Forms
<1>3. CASE form \in OnOne(A)
  BY <1>3, OneComplete
<1>4. ASSUME NEW B \in CS, form \in FormsOn(A, B, CS) PROVE Complete(form)
  <2>1. form \in OnTwo(A, B) \/ \E C \in CS : form \in OnThree(A, B, C)
    BY <1>4 DEF FormsOn
  <2>2. CASE form \in OnTwo(A, B)
    BY <2>2, TwoComplete
  <2>3. ASSUME NEW C \in CS, form \in OnThree(A, B, C) PROVE Complete(form)
    BY <1>1, <2>3 DEF Complete
  <2> QED BY <2>1, <2>2, <2>3
<1> QED BY <1>2, <1>3, <1>4

LEMMA ColumnsNeeded ==
    ASSUME DirectTypeOK, NEW q \in States, Segmented(q), NEW w, NEW e, Fits(q, w, e)
    PROVE  Columns(q) \subseteq has[w][e]
<1>1. asks[q].form \in Forms(Types) /\ asks[q].form.segments
  BY DirectAssumption DEF DirectTypeOK, Segmented
<1>2. Columns(q) = Exclusives(asks[q].form)
  BY DEF Columns, Exclusives
<1>3. Columns(q) \subseteq ElementsOf(asks[q].form.needs)
  BY <1>1, <1>2, ShapesComplete DEF Complete
<1>4. ElementsOf(asks[q].form.needs) \subseteq has[w][e]
  BY DEF Fits, Required
<1> QED BY <1>3, <1>4

LEMMA AtomsTyped ==
    ASSUME DirectTypeOK, NEW q \in States, NEW a \in TickAtoms(asks[q].filter)
    PROVE  a.on \in Types /\ a.is \in {"changed", "added"}
<1>1. asks[q].filter \in Seq(Atoms(Types))
  BY DirectAssumption DEF DirectTypeOK
<1>2. a \in ElementsOf(asks[q].filter) /\ a.is \in {"changed", "added"}
  BY DEF TickAtoms
<1>3. PICK i \in DOMAIN asks[q].filter : a = asks[q].filter[i]
  BY <1>2 DEF ElementsOf
<1>4. a \in Atoms(Types)
  BY <1>1, <1>3, LenProperties
<1>5. a.on \in Types
  BY <1>4 DEF Atoms, With, Without, Changed, Added
<1> QED BY <1>2, <1>5

-----------------------------------------------------------------------------
(* Worlds as the first state finds them.                                   *)

LEMMA LeastBound ==
    ASSUME NEW T \in SUBSET Nat, T # {}
    PROVE  \E x \in T : \A y \in T : x <= y
<1> DEFINE R == {pair \in Nat \X Nat : pair[1] < pair[2]}
<1>1. IsWellFoundedOn(R, Nat)
  BY NatLessThanWellFounded DEF OpToRel
<1> HIDE DEF R
<1>2. PICK x \in T : \A y \in T : ~ (<<y, x>> \in R)
  BY <1>1, WFMin
<1>3. \A y \in T : ~ (y < x)
  BY <1>2 DEF R
<1> QED BY <1>3

LEMMA GreatestOf ==
    ASSUME NEW S, NEW f \in [S -> Nat], NEW a \in S, NEW n \in Nat, \A x \in S : f[x] <= n
    PROVE  \E m \in {f[x] : x \in S} : \A x \in S : f[x] <= m
<1> DEFINE T == {m \in Nat : \A x \in S : f[x] <= m}
<1>1. T \in SUBSET Nat /\ T # {}
  OBVIOUS
<1>2. PICK m \in T : \A k \in T : m <= k
  <2> HIDE DEF T
  <2> QED BY <1>1, LeastBound
<1>3. m \in Nat /\ \A x \in S : f[x] <= m
  OBVIOUS
<1>4. \E x \in S : f[x] = m
  <2> SUFFICES ASSUME \A x \in S : f[x] # m PROVE FALSE
    OBVIOUS
  <2>1. \A x \in S : f[x] <= m - 1
    BY <1>3
  <2>2. f[a] \in Nat /\ f[a] <= m - 1
    BY <2>1
  <2>3. m - 1 \in Nat
    BY <1>3, <2>2
  <2>4. m - 1 \in T
    BY <2>1, <2>3
  <2> QED BY <1>2, <1>3, <2>4
<1> QED BY <1>3, <1>4

LEMMA Aged ==
    ASSUME NEW S, IsFiniteSet(S)
    PROVE  /\ Cardinality(S) \in Nat
           /\ Ages(S) \in [S -> 1..Cardinality(S)]
<1>1. Cardinality(S) \in Nat /\ ExistsBijection(1..Cardinality(S), S)
  BY FS_CardinalityType
<1> DEFINE n == Cardinality(S)
<1>2. PICK g \in Bijection(1..n, S) : TRUE
  BY <1>1 DEF ExistsBijection
<1>3. /\ g \in [1..n -> S] /\ \A c \in S : \E i \in 1..n : g[i] = c
  BY <1>2 DEF Bijection, Injection, Surjection
<1> DEFINE f == [c \in S |-> CHOOSE i \in 1..n : g[i] = c]
<1>4. \A c \in S : f[c] \in 1..n /\ g[f[c]] = c
  BY <1>3
<1>5. f \in [S -> 1..n] /\ \A c, d \in S : f[c] = f[d] => c = d
  <2>1. f \in [S -> 1..n]
    BY <1>4
  <2>2. \A c, d \in S : f[c] = f[d] => c = d
    BY <1>4
  <2> QED BY <2>1, <2>2
<1> HIDE DEF f, n
<1>6. \E a \in [S -> 1..n] : \A c, d \in S : a[c] = a[d] => c = d
  BY <1>5
<1> QED BY <1>1, <1>6 DEF Ages, n

LEMMA PresentFinite ==
    ASSUME NEW w
    PROVE  IsFiniteSet(Present(w)) /\ Present(w) \subseteq Cells
<1>1. IsFiniteSet(Cells)
  BY DirectAssumption, FS_Product DEF Cells
<1>2. Present(w) \subseteq Cells
  BY DEF Present
<1> QED BY <1>1, <1>2, FS_Subset

LEMMA AtFirst ==
    ASSUME Init, NEW w \in Worlds
    PROVE  /\ clock[w] = Cardinality(Present(w)) /\ clock[w] \in Nat
           /\ changed[w] \in [Cells -> Nat] /\ added[w] = changed[w]
           /\ \A c \in Cells : IF c \in Present(w) THEN changed[w][c] \in 1..clock[w]
                               ELSE changed[w][c] = Never
           /\ \A t \in Types : /\ typeMark[w][t] \in Nat /\ typeMark[w][t] <= clock[w]
                               /\ \A e \in Entities : changed[w][<<e, t>>] <= typeMark[w][t]
<1>1. /\ clock[w] = Cardinality(Present(w)) /\ added[w] = changed[w]
      /\ changed[w] = [c \in Cells |-> IF c \in Present(w) THEN Ages(Present(w))[c] ELSE Never]
      /\ \A t \in Types : typeMark[w][t] = LatestOf(w, t)
  BY DEF Init
<1>2. Cardinality(Present(w)) \in Nat
      /\ Ages(Present(w)) \in [Present(w) -> 1..Cardinality(Present(w))]
  BY PresentFinite, Aged
<1>3. \A c \in Cells : IF c \in Present(w) THEN changed[w][c] \in 1..clock[w]
                       ELSE changed[w][c] = Never
  BY <1>1, <1>2
<1>4. \A c \in Cells : changed[w][c] \in Nat /\ changed[w][c] <= clock[w]
  BY <1>1, <1>2, <1>3 DEF Never
<1>5. changed[w] \in [Cells -> Nat]
  BY <1>1, <1>4
<1>6. ASSUME NEW t \in Types
      PROVE  /\ typeMark[w][t] \in Nat /\ typeMark[w][t] <= clock[w]
             /\ \A e \in Entities : changed[w][<<e, t>>] <= typeMark[w][t]
  <2> DEFINE f == [e \in Entities |-> changed[w][<<e, t>>]]
  <2>1. \A e \in Entities : <<e, t>> \in Cells
    BY DEF Cells
  <2>2. f \in [Entities -> Nat] /\ \A e \in Entities : f[e] <= clock[w]
    BY <1>4, <2>1
  <2>3. PICK e0 \in Entities : TRUE
    BY DirectAssumption
  <2>4. clock[w] \in Nat
    BY <1>1, <1>2
  <2>5. {changed[w][<<e, t>>] : e \in Entities} = {f[e] : e \in Entities}
    OBVIOUS
  <2>6. \E m \in {f[e] : e \in Entities} : \A e \in Entities : f[e] <= m
    <3> HIDE DEF f
    <3> QED BY <2>2, <2>3, <2>4, GreatestOf
  <2>7. \E m \in {changed[w][<<e, t>>] : e \in Entities} :
           \A e \in Entities : changed[w][<<e, t>>] <= m
    BY <2>5, <2>6
  <2>8. /\ LatestOf(w, t) \in {changed[w][<<e, t>>] : e \in Entities}
        /\ \A e \in Entities : changed[w][<<e, t>>] <= LatestOf(w, t)
    BY <2>7 DEF LatestOf
  <2> QED BY <1>1, <1>4, <2>1, <2>8
<1> QED BY <1>1, <1>2, <1>3, <1>5, <1>6

LEMMA DirectAtFirst == Init => DirectInductive
<1> SUFFICES ASSUME Init PROVE DirectInductive
  OBVIOUS
<1>1. DirectTypeOK
  <2>1. /\ has \in [Worlds -> [Entities -> SUBSET Types]] /\ asks \in Catalogue
        /\ home \in [States -> Worlds] /\ last \in [States -> Nat]
    BY DirectAssumption DEF Init, Origin
  <2>2. \A w \in Worlds : clock[w] \in Nat /\ changed[w] \in [Cells -> Nat]
                          /\ \A t \in Types : typeMark[w][t] \in Nat
    BY AtFirst
  <2>3. clock \in [Worlds -> Nat] /\ changed \in [Worlds -> [Cells -> Nat]] /\ added = changed
    BY <2>2 DEF Init
  <2>4. typeMark \in [Worlds -> [Types -> Nat]]
    BY <2>2 DEF Init
  <2>5. loan \in [Worlds -> [by : States \cup {"nobody"}, rows : SUBSET Entities,
                            ahead : SUBSET Entities, segments : SUBSET SUBSET Entities,
                            recorded : SUBSET SUBSET Entities]]
    BY DEF Init, Closed, Lent
  <2>6. marking \in [in : Worlds \cup {"nowhere"}, cells : SUBSET Cells,
                    piece : SUBSET Entities, exposes : SUBSET Cells]
    BY DEF Init, Resting
  <2> QED BY <2>1, <2>3, <2>4, <2>5, <2>6 DEF DirectTypeOK
<1>2. InOrder
  <2>1. ASSUME NEW w \in Worlds, NEW c \in Cells
        PROVE  /\ added[w][c] <= changed[w][c] /\ changed[w][c] <= typeMark[w][c[2]]
               /\ IF c \in Present(w) THEN Never < added[w][c] ELSE changed[w][c] = Never
    <3>1. c[1] \in Entities /\ c[2] \in Types /\ c = <<c[1], c[2]>>
      BY DEF Cells
    <3>2. changed[w][c] \in Nat /\ added[w][c] = changed[w][c]
      BY AtFirst
    <3>3. changed[w][c] <= typeMark[w][c[2]]
      BY <3>1, AtFirst
    <3>4. IF c \in Present(w) THEN changed[w][c] \in 1..clock[w] ELSE changed[w][c] = Never
      BY AtFirst
    <3> QED BY <3>2, <3>3, <3>4 DEF Never
  <2>2. \A w \in Worlds : \A t \in Types : typeMark[w][t] <= clock[w]
    BY AtFirst
  <2>3. ASSUME NEW q \in States PROVE last[q] <= clock[home[q]]
    <3>1. home[q] \in Worlds /\ last[q] = 0
      BY DEF Init, Origin
    <3> QED BY <3>1, AtFirst
  <2> QED BY <2>1, <2>2, <2>3 DEF InOrder
<1>3. Lending
  BY DEF Init, Closed, Lent, Lending
<1>4. MarkingSound
  BY DEF Init, MarkingSound
<1> QED BY <1>1, <1>2, <1>3, <1>4 DEF DirectInductive

-----------------------------------------------------------------------------
(* News: what ticks say to a state that was last used at l.                *)

News(ch, ad, l) ==
    {<<"changed", c[1], c[2]>> : c \in {d \in Cells : ch[d] > l}}
    \cup {<<"added", c[1], c[2]>> : c \in {d \in Cells : ad[d] > l}}

LEMMA NewsAre ==
    ASSUME NEW ch, NEW ad, NEW l, NEW x
    PROVE  x \in News(ch, ad, l) <=>
             \E c \in Cells : \/ x = <<"changed", c[1], c[2]>> /\ ch[c] > l
                              \/ x = <<"added", c[1], c[2]>> /\ ad[c] > l
BY DEF News

LEMMA CellsAre ==
    /\ \A c \in Cells : c[1] \in Entities /\ c[2] \in Types /\ c = <<c[1], c[2]>>
    /\ \A e \in Entities, t \in Types : <<e, t>> \in Cells
BY DEF Cells

LEMMA NewsOfCell ==
    ASSUME NEW ch, NEW ad, NEW l, NEW e \in Entities, NEW t \in Types
    PROVE  /\ <<"changed", e, t>> \in News(ch, ad, l) <=> ch[<<e, t>>] > l
           /\ <<"added", e, t>> \in News(ch, ad, l) <=> ad[<<e, t>>] > l
<1>1. <<e, t>> \in Cells /\ <<e, t>>[1] = e /\ <<e, t>>[2] = t
  BY CellsAre
<1>2. ASSUME <<"changed", e, t>> \in News(ch, ad, l) PROVE ch[<<e, t>>] > l
  <2>1. PICK c \in Cells : \/ <<"changed", e, t>> = <<"changed", c[1], c[2]>> /\ ch[c] > l
                           \/ <<"changed", e, t>> = <<"added", c[1], c[2]>> /\ ad[c] > l
    BY <1>2, NewsAre
  <2>2. c[1] = e /\ c[2] = t /\ ch[c] > l
    BY <2>1
  <2>3. c = <<e, t>>
    BY <2>2, CellsAre
  <2> QED BY <2>2, <2>3
<1>3. ASSUME <<"added", e, t>> \in News(ch, ad, l) PROVE ad[<<e, t>>] > l
  <2>1. PICK c \in Cells : \/ <<"added", e, t>> = <<"changed", c[1], c[2]>> /\ ch[c] > l
                           \/ <<"added", e, t>> = <<"added", c[1], c[2]>> /\ ad[c] > l
    BY <1>3, NewsAre
  <2>2. c[1] = e /\ c[2] = t /\ ad[c] > l
    BY <2>1
  <2>3. c = <<e, t>>
    BY <2>2, CellsAre
  <2> QED BY <2>2, <2>3
<1> QED BY <1>1, <1>2, <1>3, NewsAre

(* Sets of news are equal if they say the same of every cell.              *)
LEMMA SameNews ==
    ASSUME NEW ch, NEW ad, NEW l, NEW S,
           \A x \in S : \E e \in Entities, t \in Types :
               x = <<"changed", e, t>> \/ x = <<"added", e, t>>,
           \A e \in Entities, t \in Types :
               /\ <<"changed", e, t>> \in S <=> ch[<<e, t>>] > l
               /\ <<"added", e, t>> \in S <=> ad[<<e, t>>] > l
    PROVE  News(ch, ad, l) = S
<1>1. ASSUME NEW x \in News(ch, ad, l) PROVE x \in S
  <2>1. PICK c \in Cells : \/ x = <<"changed", c[1], c[2]>> /\ ch[c] > l
                           \/ x = <<"added", c[1], c[2]>> /\ ad[c] > l
    BY NewsAre
  <2>2. c[1] \in Entities /\ c[2] \in Types /\ c = <<c[1], c[2]>>
    BY CellsAre
  <2>3. ch[c] = ch[<<c[1], c[2]>>] /\ ad[c] = ad[<<c[1], c[2]>>]
    BY <2>2
  <2> QED BY <2>1, <2>2, <2>3
<1>2. ASSUME NEW x \in S PROVE x \in News(ch, ad, l)
  <2>1. PICK e \in Entities, t \in Types : x = <<"changed", e, t>> \/ x = <<"added", e, t>>
    OBVIOUS
  <2>2. CASE x = <<"changed", e, t>>
    <3>1. ch[<<e, t>>] > l
      BY <2>2, <1>2
    <3> QED BY <2>2, <3>1, NewsOfCell
  <2>3. CASE x = <<"added", e, t>>
    <3>1. ad[<<e, t>>] > l
      BY <2>3, <1>2
    <3> QED BY <2>3, <3>1, NewsOfCell
  <2> QED BY <2>1, <2>2, <2>3
<1> QED BY <1>1, <1>2

LEMMA NewsNamed ==
    ASSUME NEW ch, NEW ad, NEW l, NEW x \in News(ch, ad, l)
    PROVE  \E e \in Entities, t \in Types : x = <<"changed", e, t>> \/ x = <<"added", e, t>>
BY NewsAre, CellsAre

(* A state used now has no news; to one that never was, all there is, is.  *)
LEMMA NoNews ==
    ASSUME NEW ch \in [Cells -> Nat], NEW ad \in [Cells -> Nat], NEW l \in Nat,
           \A c \in Cells : ch[c] <= l /\ ad[c] <= l
    PROVE  News(ch, ad, l) = {}
<1>1. \A c \in Cells : ~ (ch[c] > l) /\ ~ (ad[c] > l)
  OBVIOUS
<1>2. \A x : x \notin News(ch, ad, l)
  BY <1>1, NewsAre
<1> QED BY <1>2

(* One value differs.                                                      *)
NewsBut(ch, ad, old, was, c) ==
    \A d \in Cells : d # c => ch[d] = old[d] /\ ad[d] = was[d]

LEMMA NewsElsewhere ==
    ASSUME NEW ch, NEW ad, NEW old, NEW was, NEW l, NEW e \in Entities, NEW t \in Types,
           NewsBut(ch, ad, old, was, <<e, t>>),
           NEW f \in Entities, NEW u \in Types, f # e \/ u # t
    PROVE  /\ <<"changed", f, u>> \in News(ch, ad, l) <=> <<"changed", f, u>> \in News(old, was, l)
           /\ <<"added", f, u>> \in News(ch, ad, l) <=> <<"added", f, u>> \in News(old, was, l)
<1>1. <<f, u>> \in Cells /\ <<f, u>> # <<e, t>>
  BY CellsAre
<1>2. ch[<<f, u>>] = old[<<f, u>>] /\ ad[<<f, u>>] = was[<<f, u>>]
  BY <1>1 DEF NewsBut
<1> QED BY <1>2, NewsOfCell

Gained(ch, ad, old, was, l, e, t, S) ==
    /\ NewsBut(ch, ad, old, was, <<e, t>>)
    /\ S \subseteq {<<"changed", e, t>>, <<"added", e, t>>}
    /\ ch[<<e, t>>] > l <=> <<"changed", e, t>> \in S \/ old[<<e, t>>] > l
    /\ ad[<<e, t>>] > l <=> <<"added", e, t>> \in S \/ was[<<e, t>>] > l

LEMMA NewsMore ==
    ASSUME NEW ch, NEW ad, NEW old, NEW was, NEW l, NEW S, NEW e \in Entities, NEW t \in Types,
           Gained(ch, ad, old, was, l, e, t, S)
    PROVE  \A x : x \in News(ch, ad, l) <=> x \in News(old, was, l) \/ x \in S
<1> USE DEF Gained
<1> DEFINE N == News(ch, ad, l)
           O == News(old, was, l)
<1>1. /\ <<"changed", e, t>> \in N <=> <<"changed", e, t>> \in S \/ <<"changed", e, t>> \in O
      /\ <<"added", e, t>> \in N <=> <<"added", e, t>> \in S \/ <<"added", e, t>> \in O
  BY NewsOfCell
<1>2. ASSUME NEW f \in Entities, NEW u \in Types
      PROVE  /\ <<"changed", f, u>> \in N <=> <<"changed", f, u>> \in O \cup S
             /\ <<"added", f, u>> \in N <=> <<"added", f, u>> \in O \cup S
  <2>1. CASE f = e /\ u = t
    BY <1>1, <2>1
  <2>2. CASE f # e \/ u # t
    BY <2>2, NewsElsewhere
  <2> QED BY <2>1, <2>2
<1>3. \A x \in N \cup O \cup S : \E f \in Entities, u \in Types :
          x = <<"changed", f, u>> \/ x = <<"added", f, u>>
  BY NewsNamed
<1> HIDE DEF N, O
<1>4. ASSUME NEW x PROVE x \in N <=> x \in O \/ x \in S
  <2>1. CASE x \in N \cup O \cup S
    <3>1. PICK f \in Entities, u \in Types : x = <<"changed", f, u>> \/ x = <<"added", f, u>>
      BY <1>3, <2>1
    <3>2. CASE x = <<"changed", f, u>>
      BY <1>2, <3>2
    <3>3. CASE x = <<"added", f, u>>
      BY <1>2, <3>3
    <3> QED BY <3>1, <3>2, <3>3
  <2>2. CASE x \notin N \cup O \cup S
    BY <2>2
  <2> QED BY <2>1, <2>2
<1> QED BY <1>4 DEF N, O

LEMMA NewsLost ==
    ASSUME NEW ch, NEW ad, NEW old, NEW was, NEW l, NEW e \in Entities, NEW t \in Types,
           NewsBut(ch, ad, old, was, <<e, t>>),
           ~ (ch[<<e, t>>] > l), ~ (ad[<<e, t>>] > l)
    PROVE  News(ch, ad, l) = News(old, was, l) \ {<<"changed", e, t>>, <<"added", e, t>>}
<1> DEFINE N == News(ch, ad, l)
           O == News(old, was, l)
           S == {<<"changed", e, t>>, <<"added", e, t>>}
<1>1. <<"changed", e, t>> \notin N /\ <<"added", e, t>> \notin N
  BY NewsOfCell
<1>2. ASSUME NEW f \in Entities, NEW u \in Types
      PROVE  /\ <<"changed", f, u>> \in N <=> <<"changed", f, u>> \in O \ S
             /\ <<"added", f, u>> \in N <=> <<"added", f, u>> \in O \ S
  <2>1. CASE f = e /\ u = t
    BY <1>1, <2>1
  <2>2. CASE f # e \/ u # t
    BY <2>2, NewsElsewhere
  <2> QED BY <2>1, <2>2
<1>3. \A x \in N \cup O : \E f \in Entities, u \in Types :
          x = <<"changed", f, u>> \/ x = <<"added", f, u>>
  BY NewsNamed
<1> HIDE DEF N, O, S
<1>4. ASSUME NEW x PROVE x \in N <=> x \in O \ S
  <2>1. CASE x \in N \cup O
    <3>1. PICK f \in Entities, u \in Types : x = <<"changed", f, u>> \/ x = <<"added", f, u>>
      BY <1>3, <2>1
    <3>2. CASE x = <<"changed", f, u>>
      BY <1>2, <3>2
    <3>3. CASE x = <<"added", f, u>>
      BY <1>2, <3>3
    <3> QED BY <3>1, <3>2, <3>3
  <2>2. CASE x \notin N \cup O
    BY <2>2
  <2> QED BY <2>1, <2>2
<1> QED BY <1>4 DEF N, O, S

-----------------------------------------------------------------------------
(* A step that gives a value the next position, and its type too.          *)

LEMMA NewsInIs ==
    ASSUME NEW q
    PROVE  NewsIn(q) = News(changed[home[q]], added[home[q]], last[q])
BY DEF NewsIn, News

Ticked(w, e, t) ==
    /\ Advance(w) /\ MarkType(w, t)
    /\ changed' = [changed EXCEPT ![w][<<e, t>>] = clock'[w]]
    /\ UNCHANGED <<asks, home, last>>
    /\ \/ t \in has[w][e] /\ UNCHANGED <<has, added>>
       \/ /\ has' = [has EXCEPT ![w][e] = @ \cup {t}]
          /\ added' = [added EXCEPT ![w][<<e, t>>] = clock'[w]]

ElsewhereSame(w, c) ==
    \A v \in Worlds, d \in Cells : v # w \/ d # c =>
        changed'[v][d] = changed[v][d] /\ added'[v][d] = added[v][d]
OthersSame(w, t) ==
    \A v \in Worlds, u \in Types : v # w \/ u # t => typeMark'[v][u] = typeMark[v][u]

LEMMA TickedValues ==
    ASSUME DirectTypeOK, NEW w \in Worlds, NEW e \in Entities, NEW t \in Types, Ticked(w, e, t)
    PROVE  /\ clock' \in [Worlds -> Nat] /\ typeMark' \in [Worlds -> [Types -> Nat]]
           /\ added' \in [Worlds -> [Cells -> Nat]] /\ changed' \in [Worlds -> [Cells -> Nat]]
           /\ has' \in [Worlds -> [Entities -> SUBSET Types]]
           /\ clock'[w] = clock[w] + 1
           /\ \A v \in Worlds : v # w => clock'[v] = clock[v]
           /\ ElsewhereSame(w, <<e, t>>) /\ OthersSame(w, t)
           /\ changed'[w][<<e, t>>] = clock'[w]
           /\ \/ added'[w][<<e, t>>] = clock'[w]
              \/ <<e, t>> \in Present(w) /\ added'[w][<<e, t>>] = added[w][<<e, t>>]
           /\ typeMark'[w][t] = clock'[w]
           /\ \A v \in Worlds, d \in Cells : v # w \/ d # <<e, t>> =>
                 (d \in Present(v)' <=> d \in Present(v))
           /\ <<e, t>> \in Present(w)'
<1>1. <<e, t>> \in Cells /\ <<e, t>>[1] = e /\ <<e, t>>[2] = t
  BY CellsAre
<1>2. /\ clock' = [clock EXCEPT ![w] = clock[w] + 1] /\ clock[w] \in Nat
      /\ clock' \in [Worlds -> Nat] /\ clock'[w] = clock[w] + 1
      /\ \A v \in Worlds : v # w => clock'[v] = clock[v]
  BY DEF Ticked, Advance, DirectTypeOK
<1> DEFINE n == clock'[w]
<1>3. n \in Nat
  BY <1>2
<1>4. /\ typeMark' = [typeMark EXCEPT ![w][t] = n]
      /\ changed' = [changed EXCEPT ![w][<<e, t>>] = n]
      /\ \/ t \in has[w][e] /\ has' = has /\ added' = added
         \/ /\ has' = [has EXCEPT ![w][e] = @ \cup {t}]
            /\ added' = [added EXCEPT ![w][<<e, t>>] = n]
  BY DEF Ticked, MarkType
<1> HIDE DEF n
<1>5. /\ typeMark' \in [Worlds -> [Types -> Nat]] /\ typeMark'[w][t] = n
      /\ OthersSame(w, t)
  <2>1. typeMark \in [Worlds -> [Types -> Nat]]
    BY DEF DirectTypeOK
  <2> QED BY <1>3, <1>4, <2>1 DEF OthersSame
<1>6. /\ changed' \in [Worlds -> [Cells -> Nat]] /\ changed'[w][<<e, t>>] = n
      /\ \A v \in Worlds, d \in Cells : v # w \/ d # <<e, t>> => changed'[v][d] = changed[v][d]
  <2>1. changed \in [Worlds -> [Cells -> Nat]]
    BY DEF DirectTypeOK
  <2>2. PICK c \in Cells : c = <<e, t>>
    BY <1>1
  <2>3. changed' = [changed EXCEPT ![w][c] = n]
    BY <1>4, <2>2
  <2>4. /\ changed' \in [Worlds -> [Cells -> Nat]] /\ changed'[w][c] = n
        /\ \A v \in Worlds, d \in Cells : v # w \/ d # c => changed'[v][d] = changed[v][d]
    BY <1>3, <2>1, <2>3
  <2> QED BY <2>2, <2>4
<1>7. CASE t \in has[w][e] /\ has' = has /\ added' = added
  <2>1. \A v \in Worlds : Present(v)' = Present(v)
    BY <1>7 DEF Present
  <2>2. <<e, t>> \in Present(w)
    BY <1>1, <1>7 DEF Present
  <2>3. /\ added' \in [Worlds -> [Cells -> Nat]]
        /\ has' \in [Worlds -> [Entities -> SUBSET Types]]
    BY <1>7 DEF DirectTypeOK
  <2>4. ElsewhereSame(w, <<e, t>>)
    BY <1>6, <1>7 DEF ElsewhereSame
  <2> QED BY <1>2, <1>5, <1>6, <1>7, <2>1, <2>2, <2>3, <2>4 DEF n
<1>8. CASE /\ has' = [has EXCEPT ![w][e] = @ \cup {t}]
           /\ added' = [added EXCEPT ![w][<<e, t>>] = n]
  <2>1. /\ added' \in [Worlds -> [Cells -> Nat]] /\ added'[w][<<e, t>>] = n
        /\ \A v \in Worlds, d \in Cells : v # w \/ d # <<e, t>> => added'[v][d] = added[v][d]
    <3>1. added \in [Worlds -> [Cells -> Nat]]
      BY DEF DirectTypeOK
    <3>2. PICK c \in Cells : c = <<e, t>>
      BY <1>1
    <3>3. added' = [added EXCEPT ![w][c] = n]
      BY <1>8, <3>2
    <3>4. /\ added' \in [Worlds -> [Cells -> Nat]] /\ added'[w][c] = n
          /\ \A v \in Worlds, d \in Cells : v # w \/ d # c => added'[v][d] = added[v][d]
      BY <1>3, <3>1, <3>3
    <3> QED BY <3>2, <3>4
  <2>2. /\ has' \in [Worlds -> [Entities -> SUBSET Types]] /\ has'[w][e] = has[w][e] \cup {t}
        /\ \A v \in Worlds, f \in Entities : v # w \/ f # e => has'[v][f] = has[v][f]
    <3>1. has \in [Worlds -> [Entities -> SUBSET Types]]
      BY DEF DirectTypeOK
    <3> QED BY <1>8, <3>1
  <2>3. ASSUME NEW v \in Worlds, NEW d \in Cells, v # w \/ d # <<e, t>>
        PROVE  d \in Present(v)' <=> d \in Present(v)
    <3>1. d[1] \in Entities /\ d[2] \in Types /\ d = <<d[1], d[2]>>
      BY CellsAre
    <3>2. v # w \/ d[1] # e \/ d[2] # t
      BY <2>3, <3>1
    <3>3. d[2] \in has'[v][d[1]] <=> d[2] \in has[v][d[1]]
      BY <2>2, <3>1, <3>2
    <3> QED BY <3>3 DEF Present
  <2>4. <<e, t>> \in Present(w)'
    BY <1>1, <2>2 DEF Present
  <2>5. ElsewhereSame(w, <<e, t>>)
    BY <1>6, <2>1 DEF ElsewhereSame
  <2> QED BY <1>2, <1>5, <1>6, <2>1, <2>2, <2>3, <2>4, <2>5 DEF n
<1> QED BY <1>4, <1>7, <1>8

LEMMA TickedElsewhere ==
    ASSUME DirectTypeOK, NEW w \in Worlds, NEW e \in Entities, NEW t \in Types, Ticked(w, e, t),
           NEW v \in Worlds, NEW d \in Cells, v # w \/ d # <<e, t>>
    PROVE  /\ changed'[v][d] = changed[v][d] /\ added'[v][d] = added[v][d]
           /\ d \in Present(v)' <=> d \in Present(v)
<1>1. ElsewhereSame(w, <<e, t>>)
  BY TickedValues
<1>2. \A x \in Worlds, c \in Cells : x # w \/ c # <<e, t>> =>
          (c \in Present(x)' <=> c \in Present(x))
  BY TickedValues
<1> QED BY <1>1, <1>2 DEF ElsewhereSame

LEMMA TickedMarks ==
    ASSUME DirectTypeOK, NEW w \in Worlds, NEW e \in Entities, NEW t \in Types, Ticked(w, e, t),
           NEW v \in Worlds, NEW u \in Types
    PROVE  typeMark'[v][u] = IF v = w /\ u = t THEN clock'[w] ELSE typeMark[v][u]
<1>1. OthersSame(w, t)
  BY TickedValues
<1>2. typeMark'[w][t] = clock'[w]
  BY TickedValues
<1> QED BY <1>1, <1>2 DEF OthersSame

LEMMA TickedThere ==
    ASSUME DirectTypeOK, NEW w \in Worlds, NEW e \in Entities, NEW t \in Types, Ticked(w, e, t)
    PROVE  /\ changed'[w][<<e, t>>] = clock'[w] /\ <<e, t>> \in Present(w)'
           /\ \/ added'[w][<<e, t>>] = clock'[w]
              \/ <<e, t>> \in Present(w) /\ added'[w][<<e, t>>] = added[w][<<e, t>>]
BY TickedValues

LEMMA TickedKnown ==
    ASSUME DirectTypeOK, InOrder, NEW w \in Worlds, NEW e \in Entities, NEW t \in Types,
           Ticked(w, e, t)
    PROVE  /\ Known(w, <<e, t>>)'
           /\ \A v \in Worlds, d \in Cells : Known(v, d) => Known(v, d)'
<1>1. <<e, t>> \in Cells
  BY CellsAre
<1>2. ASSUME NEW q \in States PROVE home'[q] = home[q] /\ last'[q] = last[q]
  BY DEF Ticked
<1>3. ASSUME NEW q \in States, home[q] = w PROVE last[q] < clock'[w]
  <2>1. last[q] \in Nat /\ clock[w] \in Nat /\ last[q] <= clock[w]
    BY <1>3 DEF DirectTypeOK, InOrder
  <2>2. clock'[w] = clock[w] + 1
    BY TickedValues
  <2> QED BY <2>1, <2>2
<1>4. Known(w, <<e, t>>)'
  <2>1. changed'[w][<<e, t>>] = clock'[w]
    BY TickedValues
  <2> QED BY <1>2, <1>3, <2>1 DEF Known
<1>5. ASSUME NEW v \in Worlds, NEW d \in Cells, Known(v, d) PROVE Known(v, d)'
  <2>1. CASE v = w /\ d = <<e, t>>
    BY <1>4, <2>1
  <2>2. CASE v # w \/ d # <<e, t>>
    <3>1. changed'[v][d] = changed[v][d]
      BY <2>2, TickedElsewhere
    <3> QED BY <1>2, <1>5, <3>1 DEF Known
  <2> QED BY <2>1, <2>2
<1> QED BY <1>4, <1>5

LEMMA TickedInOrder ==
    ASSUME DirectTypeOK, InOrder, NEW w \in Worlds, NEW e \in Entities, NEW t \in Types,
           Ticked(w, e, t)
    PROVE  InOrder'
<1> DEFINE c == <<e, t>>
           n == clock'[w]
<1>1. c \in Cells /\ c[2] = t
  BY CellsAre
<1>2. clock[w] \in Nat /\ n = clock[w] + 1
  BY TickedValues DEF DirectTypeOK
<1>3. \A u \in Types : typeMark[w][u] \in Nat /\ typeMark[w][u] <= clock[w]
  BY DEF DirectTypeOK, InOrder
<1>4. ASSUME NEW v \in Worlds, NEW d \in Cells
      PROVE  /\ added'[v][d] <= changed'[v][d] /\ changed'[v][d] <= typeMark'[v][d[2]]
             /\ IF d \in Present(v)' THEN Never < added'[v][d] ELSE changed'[v][d] = Never
  <2>1. /\ added[v][d] \in Nat /\ changed[v][d] \in Nat /\ d[2] \in Types
        /\ typeMark[v][d[2]] \in Nat
    BY CellsAre DEF DirectTypeOK
  <2>2. /\ added[v][d] <= changed[v][d] /\ changed[v][d] <= typeMark[v][d[2]]
        /\ IF d \in Present(v) THEN Never < added[v][d] ELSE changed[v][d] = Never
    BY DEF InOrder
  <2>3. CASE v = w /\ d = c
    <3>1. typeMark'[v][d[2]] = n
      BY <1>1, <2>1, <2>3, TickedMarks
    <3>2. /\ changed'[v][d] = n /\ typeMark'[v][d[2]] = n /\ d \in Present(v)'
          /\ added'[v][d] = n \/ (d \in Present(v) /\ added'[v][d] = added[v][d])
      BY <2>3, <3>1, TickedThere
    <3>3. changed[v][d] <= clock[w]
      BY <1>2, <1>3, <2>1, <2>2, <2>3
    <3>4. CASE added'[v][d] = n
      <4>1. n \in Nat /\ 0 < n
        BY <1>2
      <4> HIDE DEF n
      <4> QED BY <3>2, <3>4, <4>1 DEF Never
    <3>5. CASE d \in Present(v) /\ added'[v][d] = added[v][d]
      <4>1. Never < added[v][d] /\ added[v][d] <= n
        BY <1>2, <2>1, <2>2, <3>3, <3>5
      <4> QED BY <1>2, <3>2, <3>5, <4>1
    <3> QED BY <3>2, <3>4, <3>5
  <2>4. CASE v # w \/ d # c
    <3>1. /\ added'[v][d] = added[v][d] /\ changed'[v][d] = changed[v][d]
          /\ d \in Present(v)' <=> d \in Present(v)
      BY <2>4, TickedElsewhere
    <3>2. changed[v][d] <= typeMark'[v][d[2]]
      <4>1. CASE v # w \/ d[2] # t
        <5>1. typeMark'[v][d[2]] = typeMark[v][d[2]]
          BY <2>1, <4>1, TickedMarks
        <5> QED BY <2>2, <5>1
      <4>2. CASE v = w /\ d[2] = t
        <5>1. typeMark'[v][d[2]] = n
          BY <2>1, <4>2, TickedMarks
        <5>2. changed[v][d] <= clock[w]
          BY <1>2, <1>3, <2>1, <2>2, <4>2
        <5> QED BY <1>2, <2>1, <5>1, <5>2
      <4> QED BY <4>1, <4>2
    <3> QED BY <2>2, <3>1, <3>2
  <2> QED BY <2>3, <2>4
<1>5. ASSUME NEW v \in Worlds, NEW u \in Types PROVE typeMark'[v][u] <= clock'[v]
  <2>1. typeMark[v][u] \in Nat /\ clock[v] \in Nat /\ typeMark[v][u] <= clock[v]
    BY DEF DirectTypeOK, InOrder
  <2>2. CASE v = w /\ u = t
    <3>1. typeMark'[v][u] = n
      BY <2>2, TickedMarks
    <3> QED BY <1>2, <2>2, <3>1
  <2>3. CASE v # w \/ u # t
    <3>1. typeMark'[v][u] = typeMark[v][u]
      BY <2>3, TickedMarks
    <3>2. clock'[v] = clock[v] \/ clock'[v] = clock[v] + 1
      BY TickedValues
    <3> QED BY <2>1, <3>1, <3>2
  <2> QED BY <2>2, <2>3
<1>6. ASSUME NEW q \in States PROVE last'[q] <= clock'[home'[q]]
  <2>1. home'[q] = home[q] /\ last'[q] = last[q]
    BY DEF Ticked
  <2>2. home[q] \in Worlds /\ last[q] \in Nat /\ clock[home[q]] \in Nat
        /\ last[q] <= clock[home[q]]
    BY DEF DirectTypeOK, InOrder
  <2>3. clock'[home[q]] = clock[home[q]] \/ clock'[home[q]] = clock[home[q]] + 1
    BY <2>2, TickedValues
  <2> QED BY <2>1, <2>2, <2>3
<1> QED BY <1>4, <1>5, <1>6 DEF InOrder

LEMMA TickedNews ==
    ASSUME DirectTypeOK, InOrder, NEW w \in Worlds, NEW e \in Entities, NEW t \in Types,
           Ticked(w, e, t), NEW q \in States
    PROVE  /\ UNCHANGED added =>
                NewsIn(q)' = IF home[q] = w THEN NewsIn(q) \cup {<<"changed", e, t>>} ELSE NewsIn(q)
           /\ added' = [added EXCEPT ![w][<<e, t>>] = clock'[w]] =>
                NewsIn(q)' = IF home[q] = w
                             THEN NewsIn(q) \cup {<<"changed", e, t>>, <<"added", e, t>>}
                             ELSE NewsIn(q)
<1>1. <<e, t>> \in Cells /\ <<e, t>>[1] = e /\ <<e, t>>[2] = t
  BY CellsAre
<1>2. NewsIn(q)' = News(changed[home[q]], added[home[q]], last[q])'
  <2>1. NewsIn(q) = News(changed[home[q]], added[home[q]], last[q])
    BY NewsInIs
  <2>2. NewsIn(q)' = (News(changed[home[q]], added[home[q]], last[q]))'
    BY DEF NewsIn, News
  <2> QED BY <2>2
<1>3. NewsIn(q)' = News(changed'[home[q]], added'[home[q]], last[q])
  BY <1>2 DEF Ticked, News
<1>4. changed' = [changed EXCEPT ![w][<<e, t>>] = clock'[w]] /\ clock'[w] = clock[w] + 1
  BY TickedValues DEF Ticked
<1>5. /\ changed \in [Worlds -> [Cells -> Nat]] /\ added \in [Worlds -> [Cells -> Nat]]
      /\ clock[w] \in Nat /\ last[q] \in Nat /\ home[q] \in Worlds
  BY DEF DirectTypeOK
<1>6. CASE home[q] # w
  <2>1. changed'[home[q]] = changed[home[q]]
    BY <1>4, <1>5, <1>6
  <2>2. added'[home[q]] = added[home[q]]
        \/ ~ (UNCHANGED added \/ added' = [added EXCEPT ![w][<<e, t>>] = clock'[w]])
    BY <1>5, <1>6
  <2> QED BY <1>3, <1>6, <2>1, <2>2, NewsInIs
<1>7. CASE home[q] = w
  <2>1. clock'[w] > last[q]
    <3>1. last[q] <= clock[w]
      BY <1>7 DEF InOrder
    <3> QED BY <1>4, <1>5, <3>1
  <2>2. NewsBut(changed'[w], added'[w], changed[w], added[w], <<e, t>>)
    BY TickedElsewhere DEF NewsBut
  <2>3. changed'[w][<<e, t>>] > last[q]
    BY <2>1, TickedThere
  <2>4. ASSUME UNCHANGED added
        PROVE  NewsIn(q)' = NewsIn(q) \cup {<<"changed", e, t>>}
    <3>1. PICK S : S = {<<"changed", e, t>>}
      OBVIOUS
    <3>2. S \subseteq {<<"changed", e, t>>, <<"added", e, t>>} /\ <<"changed", e, t>> \in S
          /\ <<"added", e, t>> \notin S
      BY <3>1
    <3>3. News(changed'[w], added'[w], last[q]) = News(changed[w], added[w], last[q]) \cup S
      <4>1. changed'[w][<<e, t>>] > last[q]
              <=> <<"changed", e, t>> \in S \/ changed[w][<<e, t>>] > last[q]
        BY <2>3, <3>2
      <4>2. added'[w][<<e, t>>] > last[q]
              <=> <<"added", e, t>> \in S \/ added[w][<<e, t>>] > last[q]
        BY <2>4, <3>2
      <4>3. Gained(changed'[w], added'[w], changed[w], added[w], last[q], e, t, S)
        BY <2>2, <3>2, <4>1, <4>2 DEF Gained
      <4>4. \A x : x \in News(changed'[w], added'[w], last[q])
                     <=> x \in News(changed[w], added[w], last[q]) \/ x \in S
        BY <4>3, NewsMore
      <4> QED BY <4>4
    <3>4. News(changed'[w], added'[w], last[q])
            = News(changed[w], added[w], last[q]) \cup {<<"changed", e, t>>}
      BY <3>1, <3>3
    <3> QED BY <1>3, <1>7, <3>4, NewsInIs
  <2>5. ASSUME added' = [added EXCEPT ![w][<<e, t>>] = clock'[w]]
        PROVE  NewsIn(q)' = NewsIn(q) \cup {<<"changed", e, t>>, <<"added", e, t>>}
    <3>1. added'[w][<<e, t>>] > last[q]
      BY <1>1, <1>5, <2>1, <2>5
    <3>2. PICK S : S = {<<"changed", e, t>>, <<"added", e, t>>}
      OBVIOUS
    <3>3. S \subseteq {<<"changed", e, t>>, <<"added", e, t>>} /\ <<"changed", e, t>> \in S
          /\ <<"added", e, t>> \in S
      BY <3>2
    <3>4. News(changed'[w], added'[w], last[q]) = News(changed[w], added[w], last[q]) \cup S
      <4>1. changed'[w][<<e, t>>] > last[q]
              <=> <<"changed", e, t>> \in S \/ changed[w][<<e, t>>] > last[q]
        BY <2>3, <3>3
      <4>2. added'[w][<<e, t>>] > last[q]
              <=> <<"added", e, t>> \in S \/ added[w][<<e, t>>] > last[q]
        BY <3>1, <3>3
      <4>3. Gained(changed'[w], added'[w], changed[w], added[w], last[q], e, t, S)
        BY <2>2, <3>3, <4>1, <4>2 DEF Gained
      <4>4. \A x : x \in News(changed'[w], added'[w], last[q])
                     <=> x \in News(changed[w], added[w], last[q]) \/ x \in S
        BY <4>3, NewsMore
      <4> QED BY <4>4
    <3>5. News(changed'[w], added'[w], last[q])
            = News(changed[w], added[w], last[q])
                \cup {<<"changed", e, t>>, <<"added", e, t>>}
      BY <3>2, <3>4
    <3> QED BY <1>3, <1>7, <3>5, NewsInIs
  <2> QED BY <1>7, <2>4, <2>5
<1> QED BY <1>6, <1>7

-----------------------------------------------------------------------------
(* A value goes; when there is no position left for that, its type keeps   *)
(* its mark.                                                               *)

LEMMA RemovedValues ==
    ASSUME DirectTypeOK, NEW w \in Worlds, NEW e \in Entities, NEW t \in Types, Remove(w, e, t)
    PROVE  /\ clock' \in [Worlds -> Nat] /\ typeMark' \in [Worlds -> [Types -> Nat]]
           /\ added' \in [Worlds -> [Cells -> Nat]] /\ changed' \in [Worlds -> [Cells -> Nat]]
           /\ has' \in [Worlds -> [Entities -> SUBSET Types]]
           /\ ElsewhereSame(w, <<e, t>>) /\ OthersSame(w, t)
           /\ \A v \in Worlds : clock'[v] \in {clock[v], clock[v] + 1}
           /\ changed'[w][<<e, t>>] = Never /\ added'[w][<<e, t>>] = Never
           /\ typeMark'[w][t] \in {typeMark[w][t], clock'[w]}
           /\ typeMark'[w][t] = clock'[w] \/ clock'[w] = clock[w]
<1>1. PICK c \in Cells : c = <<e, t>>
  BY CellsAre
<1>2. /\ has' \in [Worlds -> [Entities -> SUBSET Types]]
  BY DEF Remove, DirectTypeOK
<1>3. Never \in Nat
  BY DEF Never
<1>4. /\ added' \in [Worlds -> [Cells -> Nat]] /\ added'[w][c] = Never
      /\ \A v \in Worlds, d \in Cells : v # w \/ d # c => added'[v][d] = added[v][d]
  <2>1. added' = [added EXCEPT ![w][c] = Never] /\ added \in [Worlds -> [Cells -> Nat]]
    BY <1>1 DEF Remove, DirectTypeOK
  <2> QED BY <1>3, <2>1
<1>5. /\ changed' \in [Worlds -> [Cells -> Nat]] /\ changed'[w][c] = Never
      /\ \A v \in Worlds, d \in Cells : v # w \/ d # c => changed'[v][d] = changed[v][d]
  <2>1. changed' = [changed EXCEPT ![w][c] = Never] /\ changed \in [Worlds -> [Cells -> Nat]]
    BY <1>1 DEF Remove, DirectTypeOK
  <2> QED BY <1>3, <2>1
<1>6. CASE Advance(w) /\ MarkType(w, t)
  <2>1. /\ clock' = [clock EXCEPT ![w] = @ + 1] /\ clock \in [Worlds -> Nat]
        /\ typeMark \in [Worlds -> [Types -> Nat]]
    BY <1>6 DEF Advance, DirectTypeOK
  <2>2. clock' \in [Worlds -> Nat] /\ \A v \in Worlds : clock'[v] \in {clock[v], clock[v] + 1}
    BY <2>1
  <2>3. PICK n \in Nat : n = clock'[w]
    BY <2>2
  <2>4. typeMark' = [typeMark EXCEPT ![w][t] = n]
    BY <1>6, <2>3 DEF MarkType
  <2>5. /\ typeMark' \in [Worlds -> [Types -> Nat]] /\ typeMark'[w][t] = n
        /\ OthersSame(w, t)
    BY <2>1, <2>4 DEF OthersSame
  <2> QED BY <1>1, <1>2, <1>4, <1>5, <2>2, <2>3, <2>5 DEF ElsewhereSame
<1>7. CASE UNCHANGED <<clock, typeMark>>
  <2>1. OthersSame(w, t)
    BY <1>7 DEF OthersSame
  <2> QED BY <1>1, <1>2, <1>4, <1>5, <1>7, <2>1 DEF ElsewhereSame, DirectTypeOK
<1> QED BY <1>6, <1>7 DEF Remove

LEMMA RemovedHas ==
    ASSUME DirectTypeOK, NEW w \in Worlds, NEW e \in Entities, NEW t \in Types, Remove(w, e, t)
    PROVE  /\ <<e, t>> \notin Present(w)'
           /\ \A v \in Worlds, d \in Cells : v # w \/ d # <<e, t>> =>
                 (d \in Present(v)' <=> d \in Present(v))
<1>1. <<e, t>> \in Cells /\ <<e, t>>[1] = e /\ <<e, t>>[2] = t
  BY CellsAre
<1>2. /\ has'[w][e] = has[w][e] \ {t}
      /\ \A v \in Worlds, f \in Entities : v # w \/ f # e => has'[v][f] = has[v][f]
  <2>1. has' = [has EXCEPT ![w][e] = @ \ {t}] /\ has \in [Worlds -> [Entities -> SUBSET Types]]
    BY DEF Remove, DirectTypeOK
  <2> QED BY <2>1
<1>3. ASSUME NEW v \in Worlds, NEW d \in Cells, v # w \/ d # <<e, t>>
      PROVE  d \in Present(v)' <=> d \in Present(v)
  <2>1. d[1] \in Entities /\ d[2] \in Types /\ d = <<d[1], d[2]>>
    BY CellsAre
  <2>2. v # w \/ d[1] # e \/ d[2] # t
    BY <1>3, <2>1
  <2>3. d[2] \in has'[v][d[1]] <=> d[2] \in has[v][d[1]]
    BY <1>2, <2>1, <2>2
  <2> QED BY <2>3 DEF Present
<1>4. <<e, t>> \notin Present(w)'
  BY <1>1, <1>2 DEF Present
<1> QED BY <1>3, <1>4

LEMMA RemovedInOrder ==
    ASSUME DirectTypeOK, InOrder, NEW w \in Worlds, NEW e \in Entities, NEW t \in Types,
           Remove(w, e, t)
    PROVE  InOrder'
<1> DEFINE c == <<e, t>>
<1>1. c \in Cells /\ c[2] = t
  BY CellsAre
<1>2. ElsewhereSame(w, c) /\ OthersSame(w, t)
  BY RemovedValues
<1>3. ASSUME NEW v \in Worlds, NEW u \in Types
      PROVE  /\ typeMark'[v][u] \in Nat /\ typeMark[v][u] <= typeMark'[v][u]
             /\ typeMark'[v][u] <= clock'[v]
  <2>1. typeMark[v][u] \in Nat /\ clock[v] \in Nat /\ typeMark[v][u] <= clock[v]
    BY DEF DirectTypeOK, InOrder
  <2>2. clock'[v] \in {clock[v], clock[v] + 1}
    BY RemovedValues
  <2>3. typeMark'[v][u] \in {typeMark[v][u], clock'[v]}
    <3>1. CASE v = w /\ u = t
      BY <3>1, RemovedValues
    <3>2. CASE v # w \/ u # t
      BY <1>2, <3>2 DEF OthersSame
    <3> QED BY <3>1, <3>2
  <2> QED BY <2>1, <2>2, <2>3
<1>4. ASSUME NEW v \in Worlds, NEW d \in Cells
      PROVE  /\ added'[v][d] <= changed'[v][d] /\ changed'[v][d] <= typeMark'[v][d[2]]
             /\ IF d \in Present(v)' THEN Never < added'[v][d] ELSE changed'[v][d] = Never
  <2>1. /\ added[v][d] \in Nat /\ changed[v][d] \in Nat /\ d[2] \in Types
        /\ typeMark[v][d[2]] \in Nat
    BY CellsAre DEF DirectTypeOK
  <2>2. /\ added[v][d] <= changed[v][d] /\ changed[v][d] <= typeMark[v][d[2]]
        /\ IF d \in Present(v) THEN Never < added[v][d] ELSE changed[v][d] = Never
    BY DEF InOrder
  <2>3. typeMark'[v][d[2]] \in Nat /\ typeMark[v][d[2]] <= typeMark'[v][d[2]]
    BY <1>3, <2>1
  <2>4. CASE v = w /\ d = c
    <3>1. changed'[v][d] = 0 /\ added'[v][d] = 0
      BY <2>4, RemovedValues DEF Never
    <3>2. d \notin Present(v)'
      BY <2>4, RemovedHas
    <3> QED BY <2>3, <3>1, <3>2 DEF Never
  <2>5. CASE v # w \/ d # c
    <3>1. added'[v][d] = added[v][d] /\ changed'[v][d] = changed[v][d]
      BY <1>2, <2>5 DEF ElsewhereSame
    <3>2. d \in Present(v)' <=> d \in Present(v)
      BY <2>5, RemovedHas
    <3> QED BY <2>1, <2>2, <2>3, <3>1, <3>2
  <2> QED BY <2>4, <2>5
<1>5. ASSUME NEW q \in States PROVE last'[q] <= clock'[home'[q]]
  <2>1. home'[q] = home[q] /\ last'[q] = last[q]
    BY DEF Remove, queryVars
  <2>2. home[q] \in Worlds /\ last[q] \in Nat /\ clock[home[q]] \in Nat
        /\ last[q] <= clock[home[q]]
    BY DEF DirectTypeOK, InOrder
  <2>3. clock'[home[q]] \in {clock[home[q]], clock[home[q]] + 1}
    BY <2>2, RemovedValues
  <2> QED BY <2>1, <2>2, <2>3
<1> QED BY <1>3, <1>4, <1>5 DEF InOrder

LEMMA RemovedNews ==
    ASSUME DirectTypeOK, InOrder, NEW w \in Worlds, NEW e \in Entities, NEW t \in Types,
           Remove(w, e, t), NEW q \in States
    PROVE  NewsIn(q)' = IF home[q] = w THEN NewsIn(q) \ {<<"changed", e, t>>, <<"added", e, t>>}
                        ELSE NewsIn(q)
<1>1. NewsIn(q)' = (News(changed[home[q]], added[home[q]], last[q]))'
  BY DEF NewsIn, News
<1>2. NewsIn(q)' = News(changed'[home[q]], added'[home[q]], last[q])
  BY <1>1 DEF Remove, queryVars, News
<1>3. home[q] \in Worlds /\ last[q] \in Nat
  BY DEF DirectTypeOK
<1>4. CASE home[q] # w
  <2>1. changed'[home[q]] = changed[home[q]] /\ added'[home[q]] = added[home[q]]
    BY <1>3, <1>4 DEF Remove, DirectTypeOK
  <2> QED BY <1>2, <1>4, <2>1, NewsInIs
<1>5. CASE home[q] = w
  <2>1. NewsBut(changed'[w], added'[w], changed[w], added[w], <<e, t>>)
    <3>1. ElsewhereSame(w, <<e, t>>)
      BY RemovedValues
    <3> QED BY <3>1 DEF ElsewhereSame, NewsBut
  <2>2. ~ (changed'[w][<<e, t>>] > last[q]) /\ ~ (added'[w][<<e, t>>] > last[q])
    BY <1>3, RemovedValues DEF Never
  <2>3. News(changed'[w], added'[w], last[q])
          = News(changed[w], added[w], last[q]) \ {<<"changed", e, t>>, <<"added", e, t>>}
    BY <2>1, <2>2, NewsLost
  <2> QED BY <1>2, <1>5, <2>3, NewsInIs
<1> QED BY <1>4, <1>5

-----------------------------------------------------------------------------
(* What a use is about, and what the state has not seen.                   *)

LEMMA TellsOf ==
    ASSUME NEW w, NEW e \in Entities, NEW t, NEW kind \in {"changed", "added"}
    PROVE  <<kind, e, t>> \in UNION {Seen!NewsOf(w, f) : f \in Entities} <=> t \in has[w][e]
<1>1. ASSUME t \in has[w][e] PROVE <<kind, e, t>> \in UNION {Seen!NewsOf(w, f) : f \in Entities}
  <2>1. <<kind, e, t>> \in Seen!NewsOf(w, e)
    BY <1>1 DEF Seen!NewsOf
  <2> QED BY <2>1
<1>2. ASSUME <<kind, e, t>> \in UNION {Seen!NewsOf(w, f) : f \in Entities} PROVE t \in has[w][e]
  <2>1. PICK f \in Entities : <<kind, e, t>> \in Seen!NewsOf(w, f)
    BY <1>2
  <2>2. PICK k \in {"changed", "added"}, u \in has[w][f] : <<kind, e, t>> = <<k, f, u>>
    BY <2>1 DEF Seen!NewsOf
  <2>3. e = f /\ t = u
    BY <2>2
  <2> QED BY <2>2, <2>3
<1> QED BY <1>1, <1>2

LEMMA NeverOrPresent ==
    ASSUME DirectTypeOK, InOrder, NEW w \in Worlds, NEW e \in Entities, NEW t \in Types
    PROVE  /\ changed[w][<<e, t>>] > Origin <=> t \in has[w][e]
           /\ added[w][<<e, t>>] > Origin <=> t \in has[w][e]
<1>1. <<e, t>> \in Cells /\ <<e, t>>[1] = e /\ <<e, t>>[2] = t
  BY CellsAre
<1>2. <<e, t>> \in Present(w) <=> t \in has[w][e]
  BY <1>1 DEF Present
<1>3. changed[w][<<e, t>>] \in Nat /\ added[w][<<e, t>>] \in Nat
  BY <1>1 DEF DirectTypeOK
<1>4. /\ added[w][<<e, t>>] <= changed[w][<<e, t>>]
      /\ IF <<e, t>> \in Present(w) THEN Never < added[w][<<e, t>>]
         ELSE changed[w][<<e, t>>] = Never
  BY <1>1 DEF InOrder
<1> QED BY <1>2, <1>3, <1>4 DEF Never, Origin

LEMMA UnseenIs ==
    ASSUME DirectTypeOK, InOrder, NEW q \in States, NEW w \in Worlds, NEW e \in Entities,
           NEW t \in Types
    PROVE  /\ <<"changed", e, t>> \in Seen!Unseen(q, w) <=> changed[w][<<e, t>>] > Baseline(q, w)
           /\ <<"added", e, t>> \in Seen!Unseen(q, w) <=> added[w][<<e, t>>] > Baseline(q, w)
<1>1. CASE home[q] = w
  <2>1. Seen!Unseen(q, w) = News(changed[w], added[w], last[q]) /\ Baseline(q, w) = last[q]
    BY <1>1, NewsInIs DEF Seen!Unseen, Baseline
  <2> QED BY <2>1, NewsOfCell
<1>2. CASE home[q] # w
  <2>1. /\ Seen!Unseen(q, w) = UNION {Seen!NewsOf(w, f) : f \in Entities}
        /\ Baseline(q, w) = Origin
    BY <1>2 DEF Seen!Unseen, Baseline
  <2>2. /\ <<"changed", e, t>> \in Seen!Unseen(q, w) <=> t \in has[w][e]
        /\ <<"added", e, t>> \in Seen!Unseen(q, w) <=> t \in has[w][e]
    BY <2>1, TellsOf
  <2> QED BY <2>1, <2>2, NeverOrPresent
<1> QED BY <1>1, <1>2

(* Observers reads the query forms as this module does.                    *)
LEMMA SameForms ==
    /\ \A form, filter : Seen!Required(form, filter) = Required(form, filter)
    /\ \A filter : Seen!Excluded(filter) = Excluded(filter)
    /\ \A filter : Seen!TickAtoms(filter) = TickAtoms(filter)
    /\ \A way, S : Seen!YieldOf(way, S) = YieldOf(way, S)
    /\ \A S : Seen!Ways(S) = Ways(S)
<1>1. \A seq : Seen!ElementsOf(seq) = ElementsOf(seq)
  BY DEF Seen!ElementsOf, ElementsOf
<1>2. \A form, filter : Seen!Required(form, filter) = Required(form, filter)
  BY <1>1 DEF Seen!Required, Required
<1>3. \A filter : Seen!Excluded(filter) = Excluded(filter)
  BY <1>1 DEF Seen!Excluded, Excluded
<1>4. \A filter : Seen!TickAtoms(filter) = TickAtoms(filter)
  BY <1>1 DEF Seen!TickAtoms, TickAtoms
<1>5. \A way, S : Seen!YieldOf(way, S) = YieldOf(way, S)
  <2>1. \A S : Seen!Cardinality(S) = Cardinality(S)
    BY DEF Seen!Cardinality, Cardinality
  <2> QED BY <2>1 DEF Seen!YieldOf, YieldOf
<1>6. \A S : Seen!Ways(S) = Ways(S)
  BY DEF Seen!Ways, Ways
<1> QED BY <1>2, <1>3, <1>4, <1>5, <1>6

LEMMA SelectedIs ==
    ASSUME DirectTypeOK, InOrder, NEW q \in States, NEW w \in Worlds
    PROVE  Selected(q, w) = Seen!Matching(q, w)
<1>1. ASSUME NEW e \in Entities
      PROVE  Fresh(q, w, e)
               <=> \A a \in TickAtoms(asks[q].filter) : <<a.is, e, a.on>> \in Seen!Unseen(q, w)
  <2>1. ASSUME NEW a \in TickAtoms(asks[q].filter)
        PROVE  Baseline(q, w) < (IF a.is = "added" THEN added[w][<<e, a.on>>]
                                 ELSE changed[w][<<e, a.on>>])
                 <=> <<a.is, e, a.on>> \in Seen!Unseen(q, w)
    <3>1. a.on \in Types /\ a.is \in {"changed", "added"}
      BY AtomsTyped
    <3>2. /\ <<"changed", e, a.on>> \in Seen!Unseen(q, w)
               <=> changed[w][<<e, a.on>>] > Baseline(q, w)
          /\ <<"added", e, a.on>> \in Seen!Unseen(q, w) <=> added[w][<<e, a.on>>] > Baseline(q, w)
      BY <3>1, UnseenIs
    <3>3. CASE a.is = "changed"
      BY <3>2, <3>3
    <3>4. CASE a.is = "added"
      BY <3>2, <3>4
    <3> QED BY <3>1, <3>3, <3>4
  <2> QED BY <2>1 DEF Fresh
<1>2. Seen!Matching(q, w)
        = {e \in Entities : /\ Fits(q, w, e)
                            /\ \A a \in TickAtoms(asks[q].filter) :
                                  <<a.is, e, a.on>> \in Seen!Unseen(q, w)}
  <2>1. ASSUME NEW e
        PROVE  e \in Seen!Matching(q, w)
                 <=> /\ e \in Entities /\ Fits(q, w, e)
                     /\ \A a \in TickAtoms(asks[q].filter) :
                           <<a.is, e, a.on>> \in Seen!Unseen(q, w)
    BY SameForms DEF Seen!Matching, Fits
  <2> QED BY <2>1
<1> QED BY <1>1, <1>2 DEF Selected

LEMMA YieldsAre ==
    ASSUME NEW S, NEW way
    PROVE  YieldOf(way, S) \subseteq S /\ YieldOf("all", S) = S
BY DEF YieldOf

LEMMA SegmentsAre ==
    ASSUME NEW q \in States, NEW w
    PROVE  /\ UNION Segments(q, w) = {e \in Entities : Fits(q, w, e)}
           /\ Segmented(q) => UNION Segments(q, w) = Selected(q, w)
           /\ \A piece \in Segments(q, w) :
                 piece # {} /\ piece \subseteq {e \in Entities : Fits(q, w, e)}
<1> DEFINE rows == {e \in Entities : Fits(q, w, e)}
           piece(f) == {e \in rows : has[w][e] = has[w][f]}
<1>1. Segments(q, w) = {piece(f) : f \in rows}
  BY DEF Segments
<1>2. \A f \in rows : f \in piece(f) /\ piece(f) \subseteq rows
  OBVIOUS
<1>3. UNION Segments(q, w) = rows
      /\ \A p \in Segments(q, w) : p # {} /\ p \subseteq rows
  <2> HIDE DEF rows, piece
  <2> QED BY <1>1, <1>2
<1>4. ASSUME Segmented(q) PROVE rows = Selected(q, w)
  <2>1. TickAtoms(asks[q].filter) = {}
    BY <1>4 DEF Segmented, Uniform, TickAtoms
  <2> QED BY <2>1 DEF Selected, Fresh
<1> QED BY <1>3, <1>4

LEMMA UsedNews ==
    ASSUME DirectTypeOK, InOrder, NEW q \in States, NEW w \in Worlds, Bind(q, w),
           UNCHANGED <<changed, added>>
    PROVE  /\ NewsIn(q)' = {}
           /\ \A r \in States : r # q => NewsIn(r)' = NewsIn(r)
           /\ home' \in [States -> Worlds] /\ last' \in [States -> Nat]
           /\ home'[q] = w /\ last'[q] = clock[w]
           /\ \A r \in States : r # q => home'[r] = home[r] /\ last'[r] = last[r]
<1>1. /\ home' \in [States -> Worlds] /\ last' \in [States -> Nat]
      /\ home'[q] = w /\ last'[q] = clock[w]
      /\ \A r \in States : r # q => home'[r] = home[r] /\ last'[r] = last[r]
  BY DEF Bind, DirectTypeOK
<1>2. ASSUME NEW r \in States
      PROVE  NewsIn(r)' = News(changed[home'[r]], added[home'[r]], last'[r])
  <2>1. NewsIn(r)' = (News(changed[home[r]], added[home[r]], last[r]))'
    BY DEF NewsIn, News
  <2> QED BY <2>1 DEF News
<1>3. NewsIn(q)' = {}
  <2>1. changed[w] \in [Cells -> Nat] /\ added[w] \in [Cells -> Nat] /\ clock[w] \in Nat
    BY DEF DirectTypeOK
  <2>2. ASSUME NEW c \in Cells PROVE changed[w][c] <= clock[w] /\ added[w][c] <= clock[w]
    <3>1. c[2] \in Types /\ typeMark[w][c[2]] \in Nat
      BY CellsAre DEF DirectTypeOK
    <3>2. /\ added[w][c] <= changed[w][c] /\ changed[w][c] <= typeMark[w][c[2]]
          /\ typeMark[w][c[2]] <= clock[w]
      BY <3>1 DEF InOrder
    <3>3. changed[w][c] \in Nat /\ added[w][c] \in Nat
      BY <2>1
    <3> QED BY <2>1, <3>1, <3>2, <3>3
  <2>3. News(changed[w], added[w], clock[w]) = {}
    BY <2>1, <2>2, NoNews
  <2> QED BY <1>1, <1>2, <2>3
<1>4. ASSUME NEW r \in States, r # q PROVE NewsIn(r)' = NewsIn(r)
  BY <1>1, <1>2, <1>4, NewsInIs
<1> QED BY <1>1, <1>3, <1>4

-----------------------------------------------------------------------------
(* The first state, and the steps of the world outside queries.            *)

LEMMA FirstNews == Init => Seen!ObserversInit
<1> SUFFICES ASSUME Init PROVE Seen!ObserversInit
  OBVIOUS
<1>1. DirectTypeOK /\ InOrder
  BY DirectAtFirst DEF DirectInductive
<1>2. ASSUME NEW q \in States
      PROVE  NewsIn(q) = UNION {Seen!NewsOf(home[q], e) : e \in Entities}
  <2> DEFINE U == UNION {Seen!NewsOf(home[q], e) : e \in Entities}
  <2>1. home[q] \in Worlds /\ last[q] = Origin
    BY <1>1 DEF Init, DirectTypeOK
  <2>2. NewsIn(q) = News(changed[home[q]], added[home[q]], Origin)
    BY <2>1, NewsInIs
  <2>3. ASSUME NEW e \in Entities, NEW t \in Types
        PROVE  /\ <<"changed", e, t>> \in NewsIn(q) <=> <<"changed", e, t>> \in U
               /\ <<"added", e, t>> \in NewsIn(q) <=> <<"added", e, t>> \in U
    <3>1. /\ <<"changed", e, t>> \in NewsIn(q) <=> t \in has[home[q]][e]
          /\ <<"added", e, t>> \in NewsIn(q) <=> t \in has[home[q]][e]
      BY <1>1, <2>1, <2>2, NewsOfCell, NeverOrPresent
    <3>2. /\ <<"changed", e, t>> \in U <=> t \in has[home[q]][e]
          /\ <<"added", e, t>> \in U <=> t \in has[home[q]][e]
      BY TellsOf
    <3> QED BY <3>1, <3>2
  <2>4. ASSUME NEW x \in NewsIn(q) PROVE x \in U
    <3>1. PICK e \in Entities, t \in Types : x = <<"changed", e, t>> \/ x = <<"added", e, t>>
      BY <2>2, NewsNamed
    <3> HIDE DEF U
    <3>2. CASE x = <<"changed", e, t>>
      BY <2>3, <2>4, <3>2
    <3>3. CASE x = <<"added", e, t>>
      BY <2>3, <2>4, <3>3
    <3> QED BY <3>1, <3>2, <3>3
  <2>5. ASSUME NEW x \in U PROVE x \in NewsIn(q)
    <3>1. PICK e \in Entities : x \in Seen!NewsOf(home[q], e)
      OBVIOUS
    <3>2. PICK kind \in {"changed", "added"}, t \in has[home[q]][e] : x = <<kind, e, t>>
      BY <3>1 DEF Seen!NewsOf
    <3>3. t \in Types
      BY <1>1, <2>1, <3>2 DEF DirectTypeOK
    <3>4. /\ <<"changed", e, t>> \in U => <<"changed", e, t>> \in NewsIn(q)
          /\ <<"added", e, t>> \in U => <<"added", e, t>> \in NewsIn(q)
      BY <2>3, <3>3
    <3>5. x = <<"changed", e, t>> \/ x = <<"added", e, t>>
      BY <3>2
    <3> HIDE DEF U
    <3> QED BY <2>5, <3>4, <3>5
  <2> HIDE DEF U
  <2>6. NewsIn(q) = U
    BY <2>4, <2>5
  <2> QED BY <2>6 DEF U
<1>3. [w \in Worlds |-> loan[w].rows] = [w \in Worlds |-> {}]
  BY DEF Init, Closed, Lent
<1>4. [q \in States |-> NewsIn(q)]
        = [q \in States |-> UNION {Seen!NewsOf(home[q], e) : e \in Entities}]
  BY <1>2
<1>5. has \in [Worlds -> [Entities -> SUBSET Types]] /\ home \in [States -> Worlds]
  BY <1>1 DEF DirectTypeOK
<1> QED BY <1>3, <1>4, <1>5 DEF Init, Seen!ObserversInit

LEMMA LendingKept ==
    ASSUME DirectInductive, UNCHANGED <<loan, asks>>,
           \A v \in Worlds :
               loan[v] = Closed
                 \/ /\ \A e \in Entities : has[v][e] \subseteq has'[v][e]
                    /\ \A d \in Cells : Known(v, d) => Known(v, d)'
    PROVE  Lending'
<1> SUFFICES ASSUME NEW v \in Worlds
             PROVE  /\ loan[v].ahead \subseteq loan[v].rows
                    /\ \A piece \in loan[v].segments :
                          /\ piece # {} /\ piece \subseteq loan[v].rows
                          /\ \A e \in piece : Columns(loan[v].by) \subseteq has'[v][e]
                    /\ \A piece \in loan[v].recorded :
                          \A c \in piece \X Columns(loan[v].by) :
                              c \in Present(v)' /\ Known(v, c)'
  <2>1. \A r : Columns(r)' = Columns(r)
    BY DEF Columns
  <2> QED BY <2>1 DEF Lending
<1>1. CASE loan[v] = Closed
  BY <1>1 DEF Closed, Lent
<1>2. CASE /\ \A e \in Entities : has[v][e] \subseteq has'[v][e]
           /\ \A d \in Cells : Known(v, d) => Known(v, d)'
  <2>1. loan[v].rows \subseteq Entities /\ loan[v].recorded \subseteq SUBSET Entities
    BY DEF DirectInductive, DirectTypeOK
  <2>2. /\ loan[v].ahead \subseteq loan[v].rows
        /\ \A piece \in loan[v].segments :
              /\ piece # {} /\ piece \subseteq loan[v].rows
              /\ \A e \in piece : Columns(loan[v].by) \subseteq has[v][e]
        /\ \A piece \in loan[v].recorded :
              \A c \in piece \X Columns(loan[v].by) : c \in Present(v) /\ Known(v, c)
    BY DEF DirectInductive, Lending
  <2>3. ASSUME NEW piece \in loan[v].segments, NEW e \in piece
        PROVE  Columns(loan[v].by) \subseteq has'[v][e]
    BY <1>2, <2>1, <2>2
  <2>4. \A c \in Present(v) : c \in Cells /\ c \in Present(v)'
    BY <1>2, CellsAre DEF Present
  <2>5. ASSUME NEW piece \in loan[v].recorded, NEW c \in piece \X Columns(loan[v].by)
        PROVE  c \in Present(v)' /\ Known(v, c)'
    BY <1>2, <2>2, <2>4
  <2> QED BY <2>2, <2>3, <2>5
<1> QED BY <1>1, <1>2

LEMMA HeardIs ==
    ASSUME NEW w, NEW items,
           \A q \in States : NewsIn(q)' = IF home[q] = w THEN NewsIn(q) \cup items ELSE NewsIn(q)
    PROVE  [q \in States |-> NewsIn(q)]' = Seen!Heard(w, items)
<1>1. Seen!Heard(w, items) = [q \in States |-> IF home[q] = w THEN NewsIn(q) \cup items ELSE NewsIn(q)]
  BY DEF Seen!Heard
<1> QED BY <1>1

LEMMA NotLent ==
    ASSUME NEW w \in Worlds, loan[w] = Closed
    PROVE  [v \in Worlds |-> loan[v].rows][w] = {}
BY DEF Closed, Lent

LEMMA TickedTyped ==
    ASSUME DirectInductive, NEW w \in Worlds, NEW e \in Entities, NEW t \in Types,
           Ticked(w, e, t)
    PROVE  /\ has' \in [Worlds -> [Entities -> SUBSET Types]]
           /\ clock' \in [Worlds -> Nat] /\ typeMark' \in [Worlds -> [Types -> Nat]]
           /\ added' \in [Worlds -> [Cells -> Nat]] /\ changed' \in [Worlds -> [Cells -> Nat]]
           /\ asks' \in Catalogue /\ home' \in [States -> Worlds] /\ last' \in [States -> Nat]
           /\ InOrder'
<1>1. /\ asks' \in Catalogue /\ home' \in [States -> Worlds] /\ last' \in [States -> Nat]
  BY DEF DirectInductive, DirectTypeOK, Ticked
<1>2. InOrder'
  BY TickedInOrder DEF DirectInductive
<1> QED BY <1>1, <1>2, TickedValues DEF DirectInductive

LEMMA TickedGrows ==
    ASSUME DirectTypeOK, NEW w \in Worlds, NEW e \in Entities, NEW t \in Types, Ticked(w, e, t),
           NEW v \in Worlds, NEW f \in Entities
    PROVE  has[v][f] \subseteq has'[v][f]
<1>1. has \in [Worlds -> [Entities -> SUBSET Types]]
  BY DEF DirectTypeOK
<1> QED BY <1>1 DEF Ticked

LEMMA FreeKept ==
    ASSUME DirectInductive, NEW w, Free(w), UNCHANGED <<loan, marking>>
    PROVE  /\ loan' \in [Worlds -> [by : States \cup {"nobody"}, rows : SUBSET Entities,
                            ahead : SUBSET Entities, segments : SUBSET SUBSET Entities,
                            recorded : SUBSET SUBSET Entities]]
           /\ marking' \in [in : Worlds \cup {"nowhere"}, cells : SUBSET Cells,
                            piece : SUBSET Entities, exposes : SUBSET Cells]
           /\ MarkingSound'
<1>1. marking' = Resting
  BY DEF Free
<1>2. MarkingSound'
  BY <1>1 DEF MarkingSound, Resting
<1> QED BY <1>2 DEF DirectInductive, DirectTypeOK

LEMMA InsertStep ==
    ASSUME DirectInductive, NEW w \in Worlds, NEW e \in Entities, NEW t \in Types, Insert(w, e, t)
    PROVE  DirectInductive' /\ Seen!Attach(w, e, t)
<1>1. Ticked(w, e, t)
  BY DEF Insert, Ticked, queryVars
<1>2. DirectTypeOK /\ InOrder
  BY DEF DirectInductive
<1>3. UNCHANGED <<asks, home, last, loan, marking>> /\ Free(w) /\ loan[w] = Closed
  BY DEF Insert, queryVars, Free
<1>4. DirectInductive'
  <2>1. Lending'
    <3>1. \A v \in Worlds, f \in Entities : has[v][f] \subseteq has'[v][f]
      BY <1>1, <1>2, TickedGrows
    <3>2. \A v \in Worlds, d \in Cells : Known(v, d) => Known(v, d)'
      BY <1>1, <1>2, TickedKnown
    <3> QED BY <1>3, <3>1, <3>2, LendingKept
  <2> QED BY <1>1, <1>3, <2>1, TickedTyped, FreeKept DEF DirectInductive, DirectTypeOK
<1>5. Seen!Attach(w, e, t)
  <2> DEFINE items == {<<"changed", e, t>>, <<"added", e, t>>}
  <2>1. \A q \in States :
            NewsIn(q)' = IF home[q] = w THEN NewsIn(q) \cup items ELSE NewsIn(q)
    BY <1>1, <1>2, TickedNews DEF Insert
  <2>2. [q \in States |-> NewsIn(q)]' = Seen!Heard(w, items)
    <3> HIDE DEF items
    <3> QED BY <2>1, HeardIs
  <2>3. [v \in Worlds |-> loan[v].rows][w] = {}
    BY <1>3, NotLent
  <2>4. [v \in Worlds |-> loan[v].rows]' = [v \in Worlds |-> loan[v].rows]
    BY <1>3
  <2>5. /\ answer' = [is |-> "none"] /\ t \notin has[w][e]
        /\ has' = [has EXCEPT ![w][e] = @ \cup {t}]
    BY DEF Insert, Silent
  <2> QED BY <1>3, <2>2, <2>3, <2>4, <2>5 DEF Seen!Attach
<1> QED BY <1>4, <1>5

LEMMA ChangeStep ==
    ASSUME DirectInductive, NEW w \in Worlds, NEW e \in Entities, NEW t \in Types, Change(w, e, t)
    PROVE  DirectInductive' /\ Seen!Change(w, e, t)
<1>1. Ticked(w, e, t)
  BY DEF Change, Ticked, queryVars
<1>2. DirectTypeOK /\ InOrder
  BY DEF DirectInductive
<1>3. UNCHANGED <<has, asks, home, last, loan, marking>> /\ Free(w) /\ loan[w] = Closed
  BY DEF Change, queryVars, Free
<1>4. DirectInductive'
  <2>1. Lending'
    <3>1. \A v \in Worlds, f \in Entities : has[v][f] \subseteq has'[v][f]
      BY <1>1, <1>2, TickedGrows
    <3>2. \A v \in Worlds, d \in Cells : Known(v, d) => Known(v, d)'
      BY <1>1, <1>2, TickedKnown
    <3> QED BY <1>3, <3>1, <3>2, LendingKept
  <2> QED BY <1>1, <1>3, <2>1, TickedTyped, FreeKept DEF DirectInductive, DirectTypeOK
<1>5. Seen!Change(w, e, t)
  <2> DEFINE items == {<<"changed", e, t>>}
  <2>1. \A q \in States :
            NewsIn(q)' = IF home[q] = w THEN NewsIn(q) \cup items ELSE NewsIn(q)
    BY <1>1, <1>2, TickedNews DEF Change
  <2>2. [q \in States |-> NewsIn(q)]' = Seen!Heard(w, items)
    <3> HIDE DEF items
    <3> QED BY <2>1, HeardIs
  <2>3. [v \in Worlds |-> loan[v].rows][w] = {}
    BY <1>3, NotLent
  <2>4. [v \in Worlds |-> loan[v].rows]' = [v \in Worlds |-> loan[v].rows]
    BY <1>3
  <2>5. answer' = [is |-> "exposed", of |-> {<<e, t>>}] /\ t \in has[w][e]
    BY DEF Change
  <2> QED BY <1>3, <2>2, <2>3, <2>4, <2>5 DEF Seen!Change
<1> QED BY <1>4, <1>5

LEMMA RemoveStep ==
    ASSUME DirectInductive, NEW w \in Worlds, NEW e \in Entities, NEW t \in Types, Remove(w, e, t)
    PROVE  DirectInductive' /\ Seen!Detach(w, e, t)
<1>1. DirectTypeOK /\ InOrder
  BY DEF DirectInductive
<1>2. UNCHANGED <<asks, home, last, loan, marking>> /\ Free(w) /\ loan[w] = Closed
  BY DEF Remove, queryVars, Free
<1>3. DirectInductive'
  <2>1. Lending'
    <3>1. ASSUME NEW v \in Worlds, v # w
          PROVE  /\ \A f \in Entities : has[v][f] \subseteq has'[v][f]
                 /\ \A d \in Cells : Known(v, d) => Known(v, d)'
      <4>1. has'[v] = has[v]
        BY <1>1, <3>1 DEF Remove, DirectTypeOK
      <4>2. \A d \in Cells : changed'[v][d] = changed[v][d]
        BY <1>1, <3>1, RemovedValues, ZenonT(30) DEF ElsewhereSame
      <4>3. ASSUME NEW d \in Cells, Known(v, d) PROVE Known(v, d)'
        BY <1>2, <4>2, <4>3 DEF Known
      <4> QED BY <4>1, <4>3
    <3> QED BY <1>2, <3>1, LendingKept
  <2>2. InOrder'
    BY <1>1, RemovedInOrder
  <2>3. /\ has' \in [Worlds -> [Entities -> SUBSET Types]]
        /\ clock' \in [Worlds -> Nat] /\ typeMark' \in [Worlds -> [Types -> Nat]]
        /\ added' \in [Worlds -> [Cells -> Nat]] /\ changed' \in [Worlds -> [Cells -> Nat]]
    BY <1>1, RemovedValues
  <2>4. asks' \in Catalogue /\ home' \in [States -> Worlds] /\ last' \in [States -> Nat]
    BY <1>1, <1>2 DEF DirectTypeOK
  <2> QED BY <1>2, <2>1, <2>2, <2>3, <2>4, FreeKept DEF DirectInductive, DirectTypeOK
<1>4. Seen!Detach(w, e, t)
  <2>1. [q \in States |-> NewsIn(q)]'
          = [q \in States |-> IF home[q] = w THEN [r \in States |-> NewsIn(r)][q]
                                                    \ {<<"changed", e, t>>, <<"added", e, t>>}
                              ELSE [r \in States |-> NewsIn(r)][q]]
    BY <1>1, RemovedNews
  <2>2. [v \in Worlds |-> loan[v].rows][w] = {}
    BY <1>2, NotLent
  <2>3. [v \in Worlds |-> loan[v].rows]' = [v \in Worlds |-> loan[v].rows]
    BY <1>2
  <2>4. answer' = [is |-> "none"] /\ has' = [has EXCEPT ![w][e] = @ \ {t}]
    BY DEF Remove, Silent
  <2> QED BY <1>2, <2>1, <2>2, <2>3, <2>4 DEF Seen!Detach
<1> QED BY <1>3, <1>4

-----------------------------------------------------------------------------
(* Uses.                                                                   *)

LoanSet == [by : States \cup {"nobody"}, rows : SUBSET Entities,
            ahead : SUBSET Entities, segments : SUBSET SUBSET Entities,
            recorded : SUBSET SUBSET Entities]
MarkingSet == [in : Worlds \cup {"nowhere"}, cells : SUBSET Cells,
               piece : SUBSET Entities, exposes : SUBSET Cells]

LEMMA MarksAre ==
    ASSUME DirectTypeOK, NEW w \in Worlds, NEW e \in Entities, NEW q, NEW c \in Marks(q, w, e)
    PROVE  c \in Present(w) /\ c \in Cells /\ c[1] = e
<1>1. PICK t \in asks[q].form.marks \cap has[w][e] : c = <<e, t>>
  BY DEF Marks
<1>2. t \in Types
  BY <1>1 DEF DirectTypeOK
<1>3. c \in Cells /\ c[1] = e /\ c[2] = t
  BY <1>1, <1>2, CellsAre
<1> QED BY <1>1, <1>3 DEF Present

(* A use without effect on the world: what it keeps of the invariant.      *)
Bound(q, w) == Free(w) /\ Bind(q, w) /\ UNCHANGED <<worldVars, asks>>

LEMMA BoundKeeps ==
    ASSUME DirectInductive, NEW q \in States, NEW w \in Worlds, Bound(q, w)
    PROVE  /\ has' \in [Worlds -> [Entities -> SUBSET Types]]
           /\ clock' \in [Worlds -> Nat] /\ typeMark' \in [Worlds -> [Types -> Nat]]
           /\ added' \in [Worlds -> [Cells -> Nat]] /\ changed' \in [Worlds -> [Cells -> Nat]]
           /\ asks' \in Catalogue /\ home' \in [States -> Worlds] /\ last' \in [States -> Nat]
           /\ InOrder'
           /\ \A v \in Worlds : \A d : v # w /\ Known(v, d) => Known(v, d)'
<1>1. UNCHANGED <<has, clock, added, changed, typeMark, asks>> /\ Bind(q, w)
  BY DEF Bound, worldVars
<1>2. DirectTypeOK /\ InOrder
  BY DEF DirectInductive
<1>3. /\ home' \in [States -> Worlds] /\ last' \in [States -> Nat]
      /\ home'[q] = w /\ last'[q] = clock[w]
      /\ \A r \in States : r # q => home'[r] = home[r] /\ last'[r] = last[r]
  BY <1>1, <1>2, UsedNews
<1>4. /\ has' \in [Worlds -> [Entities -> SUBSET Types]]
      /\ clock' \in [Worlds -> Nat] /\ typeMark' \in [Worlds -> [Types -> Nat]]
      /\ added' \in [Worlds -> [Cells -> Nat]] /\ changed' \in [Worlds -> [Cells -> Nat]]
      /\ asks' \in Catalogue
  BY <1>1, <1>2 DEF DirectTypeOK
<1>5. ASSUME NEW r \in States PROVE last'[r] <= clock[home'[r]]
  <2>1. CASE r = q
    BY <1>2, <1>3, <2>1 DEF DirectTypeOK
  <2>2. CASE r # q
    BY <1>2, <1>3, <2>2 DEF InOrder
  <2> QED BY <2>1, <2>2
<1>6. InOrder'
  <2>1. \A v : Present(v)' = Present(v)
    BY <1>1 DEF Present
  <2> QED BY <1>1, <1>2, <1>5, <2>1 DEF InOrder
<1>7. ASSUME NEW v \in Worlds, NEW d, v # w, Known(v, d) PROVE Known(v, d)'
  <2>1. \A r \in States : home'[r] = v => home[r] = v /\ last'[r] = last[r]
    BY <1>3, <1>7
  <2> QED BY <1>1, <1>7, <2>1 DEF Known
<1> QED BY <1>3, <1>4, <1>6, <1>7

Lends(q, w, rows, ahead, segments) ==
    /\ Bound(q, w)
    /\ rows \subseteq Entities /\ ahead \subseteq rows /\ segments \subseteq SUBSET rows
    /\ loan' = [loan EXCEPT ![w] = Lent(q, rows, ahead, segments)]
    /\ \A piece \in segments :
          piece # {} /\ \A e \in piece : Columns(q) \subseteq has[w][e]
NowLent(w, rows) ==
    [v \in Worlds |-> loan[v].rows]' = [[v \in Worlds |-> loan[v].rows] EXCEPT ![w] = rows]

LEMMA BoundLends ==
    ASSUME DirectInductive, NEW rows, NEW ahead, NEW segments, NEW q \in States, NEW w \in Worlds,
           Lends(q, w, rows, ahead, segments)
    PROVE  /\ loan' \in [Worlds -> LoanSet] /\ Lending' /\ loan'[w].rows = rows
           /\ NowLent(w, rows)
<1> USE DEF Lends, NowLent
<1> DEFINE new == Lent(q, rows, ahead, segments)
<1>1. /\ new \in LoanSet /\ new.by = q /\ new.rows = rows /\ new.ahead = ahead
      /\ new.segments = segments /\ new.recorded = {}
  BY DEF Lent, LoanSet
<1>2. loan \in [Worlds -> LoanSet]
  BY DEF DirectInductive, DirectTypeOK, LoanSet
<1> HIDE DEF new
<1>3. /\ loan' \in [Worlds -> LoanSet] /\ loan'[w] = new
      /\ \A v \in Worlds : v # w => loan'[v] = loan[v]
  BY <1>1, <1>2 DEF new
<1>4. ASSUME NEW v \in Worlds
      PROVE  /\ loan'[v].ahead \subseteq loan'[v].rows
             /\ \A piece \in loan'[v].segments :
                   /\ piece # {} /\ piece \subseteq loan'[v].rows
                   /\ \A e \in piece : Columns(loan'[v].by) \subseteq has'[v][e]
             /\ \A piece \in loan'[v].recorded :
                   \A c \in piece \X Columns(loan'[v].by) : c \in Present(v)' /\ Known(v, c)'
  <2>1. has' = has
    BY DEF Bound, worldVars
  <2>2. CASE v = w
    BY <1>1, <1>3, <2>1, <2>2
  <2>3. CASE v # w
    <3>1. loan'[v] = loan[v]
      BY <1>3, <2>3
    <3>2. Present(v)' = Present(v)
      BY <2>1 DEF Present
    <3>3. \A d : Known(v, d) => Known(v, d)'
      BY <2>3, BoundKeeps
    <3>4. /\ loan[v].ahead \subseteq loan[v].rows
          /\ \A piece \in loan[v].segments :
                /\ piece # {} /\ piece \subseteq loan[v].rows
                /\ \A e \in piece : Columns(loan[v].by) \subseteq has[v][e]
          /\ \A piece \in loan[v].recorded :
                \A c \in piece \X Columns(loan[v].by) : c \in Present(v) /\ Known(v, c)
      BY DEF DirectInductive, Lending
    <3> QED BY <2>1, <3>1, <3>2, <3>3, <3>4
  <2> QED BY <2>2, <2>3
<1>5. \A r : Columns(r)' = Columns(r)
  BY DEF Columns, Bound
<1>6. Lending'
  BY <1>4, <1>5 DEF Lending
<1>7. [v \in Worlds |-> loan[v].rows]' = [[v \in Worlds |-> loan[v].rows] EXCEPT ![w] = rows]
  BY <1>1, <1>3
<1> QED BY <1>1, <1>3, <1>6, <1>7

LEMMA BoundLeaves ==
    ASSUME DirectInductive, NEW q \in States, NEW w \in Worlds, Bound(q, w),
           UNCHANGED <<loan, marking>>
    PROVE  /\ DirectInductive'
           /\ NowLent(w, {})
<1>1. Free(w) /\ loan[w] = Closed /\ has' = has /\ asks' = asks
  BY DEF Bound, Free, worldVars
<1>2. Lending'
  <2>1. \A v \in Worlds : v # w => \A d \in Cells : Known(v, d) => Known(v, d)'
    BY BoundKeeps
  <2> QED BY <1>1, <2>1, LendingKept
<1>3. DirectInductive'
  BY <1>1, <1>2, BoundKeeps, FreeKept DEF DirectInductive, DirectTypeOK
<1>4. [v \in Worlds |-> loan[v].rows]' = [[v \in Worlds |-> loan[v].rows] EXCEPT ![w] = {}]
  <2>1. loan[w].rows = {}
    BY <1>1 DEF Closed, Lent
  <2>2. loan' = loan
    OBVIOUS
  <2> QED BY <2>1, <2>2
<1> QED BY <1>3, <1>4 DEF NowLent

LEMMA UseIs ==
    ASSUME DirectInductive, NEW rows, NEW reply, NEW q \in States, NEW w \in Worlds,
           Bound(q, w), answer' = reply, NowLent(w, rows)
    PROVE  Seen!Use(q, w, rows, reply)
<1>1. [v \in Worlds |-> loan[v].rows][w] = {}
  BY NotLent DEF Bound, Free
<1>2. [r \in States |-> NewsIn(r)]' = [[r \in States |-> NewsIn(r)] EXCEPT ![q] = {}]
  <2>1. NewsIn(q)' = {} /\ \A r \in States : r # q => NewsIn(r)' = NewsIn(r)
    BY UsedNews DEF Bound, worldVars, DirectInductive
  <2> QED BY <2>1
<1> QED BY <1>1, <1>2 DEF Seen!Use, Bound, Bind, worldVars, NowLent

LEMMA LookStep ==
    ASSUME DirectInductive, NEW way, NEW q \in States, NEW w \in Worlds, Look(q, w, way)
    PROVE  DirectInductive' /\ Seen!Answers(q, w, way)
<1>1. Bound(q, w) /\ UNCHANGED <<loan, marking>>
  BY DEF Look, Bound
<1>2. answer' = [is |-> "selected", way |-> way, of |-> Seen!YieldOf(way, Seen!Matching(q, w))]
  BY SelectedIs, SameForms DEF Look, DirectInductive
<1>3. Seen!Use(q, w, {},
               [is |-> "selected", way |-> way, of |-> Seen!YieldOf(way, Seen!Matching(q, w))])
  <2>1. NowLent(w, {})
    BY <1>1, BoundLeaves
  <2>2. PICK reply : reply = [is |-> "selected", way |-> way,
                              of |-> Seen!YieldOf(way, Seen!Matching(q, w))]
    OBVIOUS
  <2>3. Seen!Use(q, w, {}, reply)
    BY <1>1, <1>2, <2>1, <2>2, UseIs
  <2> QED BY <1>2, <2>3 DEF Seen!Use
<1> QED BY <1>1, <1>3, BoundLeaves DEF Seen!Answers

LEMMA LookSegmentsStep ==
    ASSUME DirectInductive, NEW q \in States, NEW w \in Worlds, LookSegments(q, w)
    PROVE  DirectInductive' /\ Seen!Answers(q, w, "all")
<1>1. Bound(q, w) /\ UNCHANGED <<loan, marking>>
  BY DEF LookSegments, Bound
<1>2. answer' = [is |-> "selected", way |-> "all",
                 of |-> Seen!YieldOf("all", Seen!Matching(q, w))]
  <2>1. UNION Segments(q, w) = Seen!Matching(q, w)
    BY SegmentsAre, SelectedIs DEF LookSegments, DirectInductive
  <2> QED BY <2>1, YieldsAre, SameForms DEF LookSegments
<1>3. Seen!Use(q, w, {}, [is |-> "selected", way |-> "all",
                          of |-> Seen!YieldOf("all", Seen!Matching(q, w))])
  <2>1. NowLent(w, {})
    BY <1>1, BoundLeaves
  <2>2. PICK reply : reply = [is |-> "selected", way |-> "all",
                              of |-> Seen!YieldOf("all", Seen!Matching(q, w))]
    OBVIOUS
  <2>3. Seen!Use(q, w, {}, reply)
    BY <1>1, <1>2, <2>1, <2>2, UseIs
  <2> QED BY <1>2, <2>3 DEF Seen!Use
<1> QED BY <1>1, <1>3, BoundLeaves DEF Seen!Answers

LEMMA LendingUse ==
    ASSUME DirectInductive, NEW way, NEW rows, NEW ahead, NEW segments,
           NEW q \in States, NEW w \in Worlds, Lends(q, w, rows, ahead, segments),
           rows = YieldOf(way, Selected(q, w)), answer' = [is |-> "lent", way |-> way]
    PROVE  Seen!Answers(q, w, way)
<1>1. Bound(q, w)
  BY DEF Lends
<1>2. NowLent(w, rows)
  BY BoundLends
<1>3. rows = Seen!YieldOf(way, Seen!Matching(q, w))
  BY SelectedIs, SameForms DEF DirectInductive
<1>4. Seen!Use(q, w, rows, [is |-> "lent", way |-> way])
  BY <1>1, <1>2, UseIs
<1> QED BY <1>3, <1>4 DEF Seen!Answers

LEMMA IterateStep ==
    ASSUME DirectInductive, NEW q \in States, NEW w \in Worlds, Iterate(q, w)
    PROVE  DirectInductive' /\ Seen!Answers(q, w, "all")
<1>1. Bound(q, w) /\ marking' = Resting
  BY DEF Iterate, Bound, Free
<1>2. PICK rows \in SUBSET Entities : rows = Selected(q, w)
  BY DEF Selected
<1>3. Lends(q, w, rows, rows, {})
  BY <1>1, <1>2 DEF Iterate, Lends
<1>4. loan' \in [Worlds -> LoanSet] /\ Lending'
  BY <1>3, BoundLends
<1>5. MarkingSound' /\ marking' \in MarkingSet
  BY <1>1 DEF MarkingSound, Resting, MarkingSet
<1>6. DirectInductive'
  BY <1>1, <1>4, <1>5, BoundKeeps DEF DirectInductive, DirectTypeOK, LoanSet, MarkingSet
<1>7. rows = YieldOf("all", Selected(q, w)) /\ answer' = [is |-> "lent", way |-> "all"]
  BY <1>2, YieldsAre DEF Iterate
<1>8. Seen!Answers(q, w, "all")
  BY <1>3, <1>7, LendingUse
<1> QED BY <1>6, <1>8

LEMMA OpenSegmentsStep ==
    ASSUME DirectInductive, NEW q \in States, NEW w \in Worlds, OpenSegments(q, w)
    PROVE  DirectInductive' /\ Seen!Answers(q, w, "all")
<1>1. Bound(q, w) /\ marking' = Resting /\ Segmented(q)
  BY DEF OpenSegments, Bound, Free
<1>2. PICK rows \in SUBSET Entities : rows = {e \in Entities : Fits(q, w, e)}
  OBVIOUS
<1>3. PICK segments : segments = Segments(q, w)
  OBVIOUS
<1>4. /\ rows = UNION segments /\ rows = Selected(q, w) /\ segments \in SUBSET SUBSET rows
      /\ \A piece \in segments : piece # {} /\ piece \subseteq rows
  BY <1>1, <1>2, <1>3, SegmentsAre
<1>5. \A piece \in segments : piece # {} /\ \A e \in piece : Columns(q) \subseteq has[w][e]
  <2>1. \A e \in rows : Columns(q) \subseteq has[w][e]
    BY <1>1, <1>2, ColumnsNeeded DEF DirectInductive
  <2> QED BY <1>4, <2>1
<1>6. Lends(q, w, rows, {}, segments)
  BY <1>1, <1>3, <1>4, <1>5 DEF OpenSegments, Lends
<1>7. loan' \in [Worlds -> LoanSet] /\ Lending'
  BY <1>6, BoundLends
<1>8. MarkingSound' /\ marking' \in MarkingSet
  BY <1>1 DEF MarkingSound, Resting, MarkingSet
<1>9. DirectInductive'
  BY <1>1, <1>7, <1>8, BoundKeeps DEF DirectInductive, DirectTypeOK, LoanSet, MarkingSet
<1>10. rows = YieldOf("all", Selected(q, w)) /\ answer' = [is |-> "lent", way |-> "all"]
  BY <1>4, YieldsAre DEF OpenSegments
<1>11. Seen!Answers(q, w, "all")
  BY <1>6, <1>10, LendingUse
<1> QED BY <1>9, <1>11

LEMMA TakeStep ==
    ASSUME DirectInductive, NEW way, NEW q \in States, NEW w \in Worlds, Take(q, w, way)
    PROVE  DirectInductive' /\ Seen!Answers(q, w, way)
<1>1. Bound(q, w) /\ answer' = [is |-> "lent", way |-> way]
  BY DEF Take, Bound
<1>2. PICK rows \in SUBSET Entities : rows = YieldOf(way, Selected(q, w))
  BY YieldsAre DEF Selected
<1>3. CASE rows = {}
  <2>1. UNCHANGED <<loan, marking>>
    BY <1>2, <1>3 DEF Take
  <2>2. rows = Seen!YieldOf(way, Seen!Matching(q, w))
    BY <1>2, SelectedIs, SameForms DEF DirectInductive
  <2>3. Seen!Use(q, w, {}, [is |-> "lent", way |-> way])
    BY <1>1, <2>1, BoundLeaves, UseIs
  <2> QED BY <1>1, <1>3, <2>1, <2>2, <2>3, BoundLeaves DEF Seen!Answers
<1>4. CASE rows # {}
  <2>1. PICK cells : cells = UNION {Marks(q, w, e) : e \in rows}
    OBVIOUS
  <2>2. /\ loan' = [loan EXCEPT ![w] = Lent(q, rows, {}, {})]
        /\ marking' = [in |-> w, cells |-> cells, piece |-> {}, exposes |-> cells]
    BY <1>2, <1>4, <2>1 DEF Take
  <2>3. Lends(q, w, rows, {}, {})
    BY <1>1, <2>2 DEF Lends
  <2>4. loan' \in [Worlds -> LoanSet] /\ Lending' /\ loan'[w].rows = rows
    BY <2>3, BoundLends
  <2>5. \A c \in cells : c \in Present(w) /\ c \in Cells /\ c[1] \in rows
    <3>1. \A e \in rows : e \in Entities /\ \A c \in Marks(q, w, e) :
              c \in Present(w) /\ c \in Cells /\ c[1] = e
      BY MarksAre DEF DirectInductive
    <3> QED BY <2>1, <3>1
  <2>6. /\ marking'.in = w /\ marking'.cells = cells /\ marking'.piece = {}
        /\ marking'.exposes = cells /\ marking' \in MarkingSet
    BY <2>2, <2>5 DEF MarkingSet
  <2>7. Present(w)' = Present(w)
    BY <1>1 DEF Bound, worldVars, Present
  <2>8. MarkingSound'
    BY <2>4, <2>5, <2>6, <2>7 DEF MarkingSound
  <2>9. DirectInductive'
    BY <1>1, <2>4, <2>6, <2>8, BoundKeeps
       DEF DirectInductive, DirectTypeOK, LoanSet, MarkingSet
  <2>10. Seen!Answers(q, w, way)
    BY <1>1, <1>2, <2>3, LendingUse
  <2> QED BY <2>9, <2>10
<1> QED BY <1>3, <1>4

-----------------------------------------------------------------------------
(* What is handed out.                                                     *)

Untouched == UNCHANGED <<worldVars, asks, home, last>>

LEMMA UntouchedKeeps ==
    ASSUME DirectInductive, Untouched
    PROVE  /\ has' \in [Worlds -> [Entities -> SUBSET Types]]
           /\ clock' \in [Worlds -> Nat] /\ typeMark' \in [Worlds -> [Types -> Nat]]
           /\ added' \in [Worlds -> [Cells -> Nat]] /\ changed' \in [Worlds -> [Cells -> Nat]]
           /\ asks' \in Catalogue /\ home' \in [States -> Worlds] /\ last' \in [States -> Nat]
           /\ InOrder'
<1>1. UNCHANGED <<has, clock, added, changed, typeMark, asks, home, last>>
  BY DEF Untouched, worldVars
<1>2. \A v : Present(v)' = Present(v)
  BY <1>1 DEF Present
<1> QED BY <1>1, <1>2 DEF DirectInductive, DirectTypeOK, InOrder

LEMMA UntouchedSame ==
    ASSUME Untouched
    PROVE  /\ \A v : Present(v)' = Present(v)
           /\ \A v, d : Known(v, d)' <=> Known(v, d)
           /\ \A r : Columns(r)' = Columns(r)
           /\ [q \in States |-> NewsIn(q)]' = [q \in States |-> NewsIn(q)]
<1>1. UNCHANGED <<has, clock, added, changed, typeMark, asks, home, last>>
  BY DEF Untouched, worldVars
<1>2. \A v : Present(v)' = Present(v)
  BY <1>1 DEF Present
<1>3. \A v, d : Known(v, d)' <=> Known(v, d)
  BY <1>1 DEF Known
<1>4. \A r : Columns(r)' = Columns(r)
  BY <1>1 DEF Columns
<1>5. [q \in States |-> NewsIn(q)]' = [q \in States |-> NewsIn(q)]
  BY <1>1 DEF NewsIn
<1> QED BY <1>2, <1>3, <1>4, <1>5

(* Rows are no longer lent only as a whole.                                *)
LEMMA UntouchedLending ==
    ASSUME DirectInductive, Untouched, NEW w \in Worlds, loan' \in [Worlds -> LoanSet],
           \A v \in Worlds : v # w => loan'[v] = loan[v],
           /\ loan'[w].by = loan[w].by /\ loan'[w].rows = loan[w].rows
           /\ loan'[w].ahead \subseteq loan[w].ahead /\ loan'[w].segments = loan[w].segments
           /\ \A piece \in loan'[w].recorded \ loan[w].recorded :
                 \A c \in piece \X Columns(loan[w].by) : c \in Present(w) /\ Known(w, c)
    PROVE  /\ Lending'
           /\ [v \in Worlds |-> loan[v].rows]' = [v \in Worlds |-> loan[v].rows]
<1>1. UNCHANGED <<has, asks>>
  BY DEF Untouched, worldVars
<1>2. ASSUME NEW v \in Worlds
      PROVE  /\ loan'[v].ahead \subseteq loan'[v].rows
             /\ \A piece \in loan'[v].segments :
                   /\ piece # {} /\ piece \subseteq loan'[v].rows
                   /\ \A e \in piece : Columns(loan'[v].by) \subseteq has[v][e]
             /\ \A piece \in loan'[v].recorded :
                   \A c \in piece \X Columns(loan'[v].by) : c \in Present(v) /\ Known(v, c)
  <2>1. /\ loan[v].ahead \subseteq loan[v].rows
        /\ \A piece \in loan[v].segments :
              /\ piece # {} /\ piece \subseteq loan[v].rows
              /\ \A e \in piece : Columns(loan[v].by) \subseteq has[v][e]
        /\ \A piece \in loan[v].recorded :
              \A c \in piece \X Columns(loan[v].by) : c \in Present(v) /\ Known(v, c)
    BY DEF DirectInductive, Lending
  <2>2. CASE v = w
    BY <2>1, <2>2
  <2>3. CASE v # w
    BY <2>1, <2>3
  <2> QED BY <2>2, <2>3
<1>3. Lending'
  BY <1>1, <1>2, UntouchedSame DEF Lending
<1> QED BY <1>3

LEMMA GoesOn ==
    ASSUME Untouched, answer' = [is |-> "none"], NEW w,
           \/ [v \in Worlds |-> loan[v].rows]' = [v \in Worlds |-> loan[v].rows]
           \/ NowLent(w, {})
    PROVE  Seen!GoOn(w)
BY UntouchedSame DEF Seen!GoOn, Untouched, worldVars, NowLent

LEMMA DeclineStep ==
    ASSUME DirectInductive,
           MarkPanics \/ \E q \in States, w \in Worlds : SegmentsRefused(q, w)
    PROVE  DirectInductive' /\ Seen!Decline
<1>1. Untouched /\ loan' = loan
  BY DEF MarkPanics, SegmentsRefused, queryVars, Untouched
<1>2. (marking' = Resting \/ marking' = marking)
      /\ answer' \in {[is |-> "refused"], [is |-> "panicked"]}
  BY DEF MarkPanics, SegmentsRefused, queryVars
<1>3. loan' \in [Worlds -> LoanSet] /\ Lending'
  <2>1. loan' \in [Worlds -> LoanSet]
    BY <1>1 DEF DirectInductive, DirectTypeOK, LoanSet
  <2>2. has' = has
    BY <1>1 DEF Untouched, worldVars
  <2> QED BY <1>1, <2>1, <2>2, UntouchedSame DEF DirectInductive, Lending
<1>4. MarkingSound' /\ marking' \in MarkingSet
  <2>1. CASE marking' = Resting
    BY <2>1 DEF MarkingSound, Resting, MarkingSet
  <2>2. CASE marking' = marking
    <3>1. marking' \in MarkingSet
      BY <2>2 DEF DirectInductive, DirectTypeOK, MarkingSet
    <3> QED BY <1>1, <2>2, <3>1, UntouchedSame DEF DirectInductive, MarkingSound
  <2> QED BY <1>2, <2>1, <2>2
<1>5. DirectInductive'
  BY <1>1, <1>3, <1>4, UntouchedKeeps DEF DirectInductive, DirectTypeOK, LoanSet, MarkingSet
<1>6. Seen!Decline
  BY <1>1, <1>2, UntouchedSame DEF Seen!Decline, Untouched, worldVars
<1> QED BY <1>5, <1>6

LEMMA NextRowStep ==
    ASSUME DirectInductive, NEW w \in Worlds, NEW e \in Entities, NextRow(w, e)
    PROVE  DirectInductive' /\ Seen!GoOn(w)
<1>1. Untouched /\ answer' = [is |-> "none"]
  BY DEF NextRow, Untouched, Silent
<1>2. loan \in [Worlds -> LoanSet] /\ e \in loan[w].ahead /\ loan[w].ahead \subseteq loan[w].rows
  BY DEF DirectInductive, DirectTypeOK, LoanSet, Lending, NextRow
<1>3. /\ loan' \in [Worlds -> LoanSet]
      /\ \A v \in Worlds : v # w => loan'[v] = loan[v]
      /\ loan'[w].by = loan[w].by /\ loan'[w].rows = loan[w].rows
      /\ loan'[w].ahead \subseteq loan[w].ahead /\ loan'[w].segments = loan[w].segments
      /\ loan'[w].recorded = loan[w].recorded
  <2>1. loan' = [loan EXCEPT ![w].ahead = @ \ {e}]
    BY DEF NextRow
  <2> QED BY <1>2, <2>1 DEF LoanSet
<1>4. Lending' /\ [v \in Worlds |-> loan[v].rows]' = [v \in Worlds |-> loan[v].rows]
  BY <1>1, <1>3, UntouchedLending
<1>5. PICK cells : cells = Marks(loan[w].by, w, e)
  OBVIOUS
<1>6. \A c \in cells : c \in Present(w) /\ c \in Cells /\ c[1] = e
  BY <1>5, MarksAre DEF DirectInductive
<1>7. marking' = [in |-> w, cells |-> cells, piece |-> {}, exposes |-> cells]
  BY <1>5 DEF NextRow
<1>8. /\ marking'.in = w /\ marking'.cells = cells /\ marking'.piece = {}
      /\ marking'.exposes = cells /\ marking' \in MarkingSet
  BY <1>6, <1>7 DEF MarkingSet
<1>9. MarkingSound'
  BY <1>1, <1>2, <1>3, <1>6, <1>8, UntouchedSame DEF MarkingSound
<1>10. DirectInductive'
  BY <1>1, <1>3, <1>4, <1>8, <1>9, UntouchedKeeps
     DEF DirectInductive, DirectTypeOK, LoanSet, MarkingSet
<1> QED BY <1>1, <1>4, <1>10, GoesOn

LEMMA ExposeStep ==
    ASSUME DirectInductive, NEW w \in Worlds, NEW piece \in SUBSET Entities,
           NEW ts \in SUBSET Types, ExposeColumns(w, piece, ts)
    PROVE  DirectInductive' /\ Seen!GoOn(w)
<1>1. Untouched /\ answer' = [is |-> "none"] /\ loan' = loan
  BY DEF ExposeColumns, Untouched, Silent
<1>2. PICK cols : cols = Columns(loan[w].by)
  OBVIOUS
<1>3. /\ piece \subseteq loan[w].rows /\ ts \subseteq cols
      /\ \A e \in piece : cols \subseteq has[w][e]
      /\ piece \in loan[w].recorded => \A c \in piece \X cols : c \in Present(w) /\ Known(w, c)
  BY <1>2 DEF DirectInductive, Lending, ExposeColumns
<1>4. PICK cells : cells = IF piece \in loan[w].recorded THEN {} ELSE piece \X cols
  OBVIOUS
<1>5. marking' = [in |-> w, piece |-> piece, exposes |-> piece \X ts, cells |-> cells]
  BY <1>2, <1>4 DEF ExposeColumns, ToRecord
<1>6. \A c \in piece \X cols : c \in Cells /\ c \in Present(w) /\ c[1] \in loan[w].rows
  <2>1. ASSUME NEW c \in piece \X cols
        PROVE  c \in Cells /\ c \in Present(w) /\ c[1] \in loan[w].rows
    <3>1. /\ c[1] \in piece /\ c[2] \in cols /\ c = <<c[1], c[2]>>
          /\ c[1] \in Entities /\ c[2] \in has[w][c[1]]
      BY <1>3
    <3>2. c[2] \in Types
      BY <3>1 DEF DirectInductive, DirectTypeOK
    <3>3. c \in Cells
      BY <3>1, <3>2, CellsAre
    <3> QED BY <1>3, <3>1, <3>3 DEF Present
  <2> QED BY <2>1
<1>7. cells \subseteq piece \X cols /\ piece \X ts \subseteq piece \X cols
  BY <1>3, <1>4
<1>8. PICK shown : shown = piece \X ts
  OBVIOUS
<1>9. /\ marking'.in = w /\ marking'.cells = cells /\ marking'.piece = piece
      /\ marking'.exposes = shown /\ marking' \in MarkingSet
  BY <1>5, <1>6, <1>7, <1>8 DEF MarkingSet
<1>10. \A c \in piece \X cols : c \in cells \/ Known(w, c)
  BY <1>3, <1>4
<1>11. MarkingSound'
  <2>1. /\ \A c \in cells \cup shown : c \in Present(w)' /\ c[1] \in loan[w].rows
        /\ \A c \in shown : c \in cells \/ Known(w, c)'
        /\ \A c \in piece \X Columns(loan[w].by)' :
              c \in Present(w)' /\ (c \in cells \/ Known(w, c)')
    BY <1>1, <1>2, <1>6, <1>7, <1>8, <1>10, UntouchedSame
  <2> QED BY <1>1, <1>9, <2>1 DEF MarkingSound
<1>12. loan' \in [Worlds -> LoanSet]
  BY <1>1 DEF DirectInductive, DirectTypeOK, LoanSet
<1>13. Lending' /\ [v \in Worlds |-> loan[v].rows]' = [v \in Worlds |-> loan[v].rows]
  BY <1>1, <1>12, UntouchedLending
<1>14. DirectInductive'
  BY <1>1, <1>9, <1>11, <1>12, <1>13, UntouchedKeeps
     DEF DirectInductive, DirectTypeOK, LoanSet, MarkingSet
<1> QED BY <1>1, <1>13, <1>14, GoesOn

LEMMA MarkOneStep ==
    ASSUME DirectInductive, NEW c \in Cells, MarkOne(c)
    PROVE  DirectInductive' /\ marking.in \in Worlds /\ Seen!Report(marking.in, c[1], c[2])
<1>1. DirectTypeOK /\ InOrder /\ c \in marking.cells
  BY DEF DirectInductive, MarkOne
<1>2. marking # Resting
  BY <1>1 DEF Resting
<1>3. PICK w \in Worlds : w = marking.in
  BY <1>2 DEF DirectInductive, MarkingSound
<1>4. PICK e \in Entities, t \in Types : c = <<e, t>> /\ e = c[1] /\ t = c[2]
  BY CellsAre
<1>5. /\ \A d \in marking.cells \cup marking.exposes :
            d \in Present(w) /\ d[1] \in loan[w].rows
      /\ \A d \in marking.exposes : d \in marking.cells \/ Known(w, d)
      /\ marking.piece # {} =>
            \A d \in marking.piece \X Columns(loan[w].by) :
                d \in Present(w) /\ (d \in marking.cells \/ Known(w, d))
  BY <1>2, <1>3 DEF DirectInductive, MarkingSound
<1>6. t \in has[w][e] /\ e \in loan[w].rows
  BY <1>1, <1>4, <1>5 DEF Present
<1>7. Ticked(w, e, t) /\ UNCHANGED <<has, added, asks, home, last, loan>>
      /\ answer' = [is |-> "none"] /\ marking' = [marking EXCEPT !.cells = @ \ {c}]
  BY <1>3, <1>4, <1>6 DEF MarkOne, Ticked, Silent
<1>8. Known(w, c)' /\ \A v \in Worlds, d \in Cells : Known(v, d) => Known(v, d)'
  BY <1>1, <1>4, <1>7, TickedKnown
<1>9. Lending'
  BY <1>7, <1>8, LendingKept
<1>10. marking \in MarkingSet
  BY <1>1 DEF DirectTypeOK, MarkingSet
<1>11. /\ marking' \in MarkingSet /\ marking'.in = w /\ marking'.cells = marking.cells \ {c}
       /\ marking'.piece = marking.piece /\ marking'.exposes = marking.exposes
  BY <1>3, <1>7, <1>10 DEF MarkingSet
<1>12. MarkingSound'
  <2>1. Present(w)' = Present(w) /\ Columns(loan[w].by)' = Columns(loan[w].by)
    BY <1>7 DEF Present, Columns
  <2>2. \A d \in Present(w) : d \in Cells
    BY DEF Present
  <2>3. \A d \in marking'.exposes : d \in marking'.cells \/ Known(w, d)'
    BY <1>5, <1>8, <1>11, <2>2
  <2>4. marking'.piece # {} =>
            \A d \in marking'.piece \X Columns(loan[w].by) :
                d \in Present(w) /\ (d \in marking'.cells \/ Known(w, d)')
    BY <1>5, <1>8, <1>11, <2>2
  <2>5. \A d \in marking'.cells \cup marking'.exposes : d \in Present(w) /\ d[1] \in loan[w].rows
    BY <1>5, <1>11
  <2> QED BY <1>7, <1>11, <2>1, <2>3, <2>4, <2>5 DEF MarkingSound
<1>13. loan' \in [Worlds -> LoanSet]
  BY <1>1, <1>7 DEF DirectTypeOK, LoanSet
<1>14. DirectInductive'
  BY <1>7, <1>9, <1>11, <1>12, <1>13, TickedTyped
     DEF DirectInductive, DirectTypeOK, LoanSet, MarkingSet
<1>15. Seen!Report(w, e, t)
  <2>1. PICK items : items = {<<"changed", e, t>>}
    OBVIOUS
  <2>2. \A q \in States :
            NewsIn(q)' = IF home[q] = w THEN NewsIn(q) \cup items ELSE NewsIn(q)
    <3>1. \A q \in States :
              NewsIn(q)' = IF home[q] = w THEN NewsIn(q) \cup {<<"changed", e, t>>} ELSE NewsIn(q)
      BY <1>1, <1>7, TickedNews
    <3> QED BY <2>1, <3>1
  <2>3. [q \in States |-> NewsIn(q)]' = Seen!Heard(w, items)
    BY <2>2, HeardIs
  <2>4. [v \in Worlds |-> loan[v].rows]' = [v \in Worlds |-> loan[v].rows]
    BY <1>7
  <2>5. e \in [v \in Worlds |-> loan[v].rows][w]
    BY <1>6
  <2> QED BY <1>6, <1>7, <2>1, <2>3, <2>4, <2>5 DEF Seen!Report
<1> QED BY <1>3, <1>4, <1>14, <1>15

LEMMA HandOutStep ==
    ASSUME DirectInductive, HandOut
    PROVE  DirectInductive' /\ \E w \in Worlds : Seen!GoOn(w) \/ Seen!HandOut(w)
<1>1. marking # Resting /\ marking.cells = {} /\ marking' = Resting
  BY DEF HandOut
<1>2. PICK w \in Worlds : w = marking.in
  BY <1>1 DEF DirectInductive, MarkingSound
<1>3. /\ \A d \in marking.exposes : d \in Present(w) /\ d[1] \in loan[w].rows /\ Known(w, d)
      /\ marking.piece # {} =>
            \A d \in marking.piece \X Columns(loan[w].by) : d \in Present(w) /\ Known(w, d)
  BY <1>1, <1>2 DEF DirectInductive, MarkingSound
<1>4. Untouched
  BY DEF HandOut, Untouched
<1>5. loan \in [Worlds -> LoanSet] /\ marking.piece \in SUBSET Entities
      /\ marking.exposes \in SUBSET Cells
  BY DEF DirectInductive, DirectTypeOK, LoanSet
<1>6. /\ loan' \in [Worlds -> LoanSet]
      /\ \A v \in Worlds : v # w => loan'[v] = loan[v]
      /\ loan'[w].by = loan[w].by /\ loan'[w].rows = loan[w].rows
      /\ loan'[w].ahead = loan[w].ahead /\ loan'[w].segments = loan[w].segments
      /\ \A piece \in loan'[w].recorded \ loan[w].recorded : piece # {} /\ piece = marking.piece
  <2>1. CASE marking.piece = {}
    <3>1. loan' = loan
      BY <2>1 DEF HandOut
    <3> QED BY <1>5, <3>1
  <2>2. CASE marking.piece # {}
    <3>1. PICK piece \in SUBSET Entities : piece = marking.piece
      BY <1>5
    <3>2. loan' = [loan EXCEPT ![w].recorded = @ \cup {piece}]
      BY <1>2, <2>2, <3>1 DEF HandOut
    <3> QED BY <1>5, <2>2, <3>1, <3>2 DEF LoanSet
  <2> QED BY <2>1, <2>2
<1>7. Lending' /\ [v \in Worlds |-> loan[v].rows]' = [v \in Worlds |-> loan[v].rows]
  BY <1>3, <1>4, <1>6, UntouchedLending
<1>8. MarkingSound' /\ marking' \in MarkingSet
  BY <1>1 DEF MarkingSound, Resting, MarkingSet
<1>9. DirectInductive'
  BY <1>4, <1>6, <1>7, <1>8, UntouchedKeeps
     DEF DirectInductive, DirectTypeOK, LoanSet, MarkingSet
<1>10. CASE marking.exposes = {}
  <2>1. answer' = [is |-> "none"]
    BY <1>10 DEF HandOut
  <2>2. Seen!GoOn(w)
    BY <1>4, <1>7, <2>1, GoesOn
  <2> QED BY <1>9, <2>2
<1>11. CASE marking.exposes # {}
  <2>1. PICK shown \in SUBSET Cells : shown = marking.exposes
    BY <1>5
  <2>2. answer' = [is |-> "exposed", of |-> shown]
    BY <1>11, <2>1 DEF HandOut
  <2>3. \A c \in shown : /\ c \in loan[w].rows \X Types /\ c[2] \in has[w][c[1]]
    <3>1. ASSUME NEW c \in shown PROVE c \in loan[w].rows \X Types /\ c[2] \in has[w][c[1]]
      <4>1. c \in Present(w) /\ c[1] \in loan[w].rows /\ c[2] \in Types /\ c = <<c[1], c[2]>>
        BY <1>3, <2>1, CellsAre
      <4> QED BY <4>1 DEF Present
    <3> QED BY <3>1
  <2>4. ASSUME NEW q \in States, home[q] = w, NEW c \in shown
        PROVE  <<"changed", c[1], c[2]>> \in NewsIn(q)
    <3>1. last[q] < changed[w][c]
      BY <1>3, <2>1, <2>4 DEF Known
    <3>2. c[1] \in Entities /\ c[2] \in Types /\ c = <<c[1], c[2]>>
      BY CellsAre
    <3>3. changed[home[q]][<<c[1], c[2]>>] > last[q]
      BY <2>4, <3>1, <3>2
    <3> QED BY <3>2, <3>3, NewsInIs, NewsOfCell
  <2>5. Seen!KnownToAll(w, shown)
    BY <2>4 DEF Seen!KnownToAll
  <2>6. answer' \in [is : {"exposed"},
                     of : (SUBSET {c \in [v \in Worlds |-> loan[v].rows][w] \X Types :
                                       c[2] \in has[w][c[1]]}) \ {{}}]
    <3>1. PICK may : may = {c \in [v \in Worlds |-> loan[v].rows][w] \X Types :
                                c[2] \in has[w][c[1]]}
      OBVIOUS
    <3>2. [v \in Worlds |-> loan[v].rows][w] = loan[w].rows
      OBVIOUS
    <3>3. shown \in (SUBSET may) \ {{}}
      <4>1. may = {c \in loan[w].rows \X Types : c[2] \in has[w][c[1]]}
        BY <3>1, <3>2
      <4>2. \A c \in shown : c \in may
        BY <2>3, <4>1
      <4> QED BY <1>11, <2>1, <4>2
    <3>4. answer' \in [is : {"exposed"}, of : (SUBSET may) \ {{}}]
      BY <2>2, <3>3
    <3> QED BY <3>1, <3>4
  <2>7. answer'.of = shown
    BY <2>2
  <2>8. Seen!HandOut(w)
    BY <1>4, <1>7, <2>5, <2>6, <2>7, UntouchedSame DEF Seen!HandOut, Untouched, worldVars
  <2> QED BY <1>9, <2>8
<1> QED BY <1>10, <1>11

LEMMA CloseStep ==
    ASSUME DirectInductive, NEW w \in Worlds, Close(w)
    PROVE  DirectInductive' /\ Seen!GoOn(w)
<1>1. Untouched /\ answer' = [is |-> "none"] /\ marking' = Resting
      /\ loan' = [loan EXCEPT ![w] = Closed]
  BY DEF Close, Untouched, Silent
<1>2. Closed \in LoanSet /\ Closed.rows = {} /\ Closed.ahead = {} /\ Closed.segments = {}
      /\ Closed.recorded = {}
  BY DEF Closed, Lent, LoanSet
<1>3. loan \in [Worlds -> LoanSet]
  BY DEF DirectInductive, DirectTypeOK, LoanSet
<1>4. /\ loan' \in [Worlds -> LoanSet] /\ loan'[w] = Closed
      /\ \A v \in Worlds : v # w => loan'[v] = loan[v]
  BY <1>1, <1>2, <1>3
<1>5. has' = has
  BY <1>1 DEF Untouched, worldVars
<1>6. ASSUME NEW v \in Worlds
      PROVE  /\ loan'[v].ahead \subseteq loan'[v].rows
             /\ \A piece \in loan'[v].segments :
                   /\ piece # {} /\ piece \subseteq loan'[v].rows
                   /\ \A e \in piece : Columns(loan'[v].by) \subseteq has[v][e]
             /\ \A piece \in loan'[v].recorded :
                   \A c \in piece \X Columns(loan'[v].by) : c \in Present(v) /\ Known(v, c)
  <2>1. CASE v = w
    BY <1>2, <1>4, <2>1
  <2>2. CASE v # w
    <3>1. loan'[v] = loan[v]
      BY <1>4, <2>2
    <3> QED BY <3>1 DEF DirectInductive, Lending
  <2> QED BY <2>1, <2>2
<1>7. Lending'
  BY <1>1, <1>5, <1>6, UntouchedSame DEF Lending
<1>8. MarkingSound' /\ marking' \in MarkingSet
  BY <1>1 DEF MarkingSound, Resting, MarkingSet
<1>9. DirectInductive'
  BY <1>1, <1>4, <1>7, <1>8, UntouchedKeeps
     DEF DirectInductive, DirectTypeOK, LoanSet, MarkingSet
<1>10. NowLent(w, {})
  BY <1>2, <1>4 DEF NowLent
<1> QED BY <1>1, <1>9, <1>10, GoesOn

-----------------------------------------------------------------------------
LEMMA DirectStep ==
    ASSUME DirectInductive, [Next]_vars
    PROVE  DirectInductive' /\ [Seen!ObserversNext]_(Seen!observerVars)
<1>1. ASSUME NEW w \in Worlds, NEW e \in Entities, NEW t \in Types,
             Insert(w, e, t) \/ Change(w, e, t) \/ Remove(w, e, t)
      PROVE  DirectInductive' /\ Seen!ObserversNext
  BY <1>1, InsertStep, ChangeStep, RemoveStep DEF Seen!ObserversNext
<1>2. ASSUME NEW w \in Worlds, NEW q \in States, NEW way \in Ways(Entities),
             Look(q, w, way) \/ Take(q, w, way)
      PROVE  DirectInductive' /\ Seen!ObserversNext
  <2>1. DirectInductive' /\ Seen!Answers(q, w, way)
    BY <1>2, LookStep, TakeStep
  <2>2. way \in Seen!Ways(Entities)
    BY SameForms
  <2> QED BY <2>1, <2>2 DEF Seen!ObserversNext
<1>3. ASSUME NEW w \in Worlds, NEW q \in States,
             Iterate(q, w) \/ LookSegments(q, w) \/ OpenSegments(q, w)
      PROVE  DirectInductive' /\ Seen!ObserversNext
  <2>1. DirectInductive' /\ Seen!Answers(q, w, "all")
    BY <1>3, IterateStep, LookSegmentsStep, OpenSegmentsStep
  <2>2. "all" \in Seen!Ways(Entities)
    BY DEF Seen!Ways
  <2> QED BY <2>1, <2>2 DEF Seen!ObserversNext
<1>4. ASSUME MarkPanics \/ \E q \in States, w \in Worlds : SegmentsRefused(q, w)
      PROVE  DirectInductive' /\ Seen!ObserversNext
  BY <1>4, DeclineStep DEF Seen!ObserversNext
<1>5. ASSUME NEW w \in Worlds,
             \/ \E e \in Entities : NextRow(w, e)
             \/ \E piece \in SUBSET Entities, ts \in SUBSET Types : ExposeColumns(w, piece, ts)
             \/ Close(w)
      PROVE  DirectInductive' /\ Seen!ObserversNext
  BY <1>5, NextRowStep, ExposeStep, CloseStep DEF Seen!ObserversNext
<1>6. ASSUME NEW c \in Cells, MarkOne(c)
      PROVE  DirectInductive' /\ Seen!ObserversNext
  <2>1. c[1] \in Entities /\ c[2] \in Types
    BY CellsAre
  <2> QED BY <1>6, <2>1, MarkOneStep DEF Seen!ObserversNext
<1>7. ASSUME HandOut
      PROVE  DirectInductive' /\ Seen!ObserversNext
  BY <1>7, HandOutStep DEF Seen!ObserversNext
<1>8. CASE UNCHANGED vars
  <2>1. Untouched /\ loan' = loan /\ marking' = marking /\ answer' = answer
    BY <1>8 DEF vars, Untouched, worldVars
  <2>2. DirectInductive'
    <3>1. /\ loan' \in [Worlds -> LoanSet] /\ marking' \in MarkingSet
      BY <2>1 DEF DirectInductive, DirectTypeOK, LoanSet, MarkingSet
    <3>2. Lending' /\ MarkingSound'
      BY <2>1, UntouchedSame DEF DirectInductive, Lending, MarkingSound, Untouched, worldVars
    <3> QED BY <2>1, <3>1, <3>2, UntouchedKeeps
            DEF DirectInductive, DirectTypeOK, LoanSet, MarkingSet
  <2>3. UNCHANGED Seen!observerVars
    BY <2>1, UntouchedSame DEF Seen!observerVars, Untouched, worldVars
  <2> QED BY <2>2, <2>3
<1> QED BY <1>1, <1>2, <1>3, <1>4, <1>5, <1>6, <1>7, <1>8 DEF Next

(* The ticks of a value are in order, no mark is ahead of its clock, and   *)
(* what is lent or about to be handed out is there and announced, or still *)
(* to be marked, in every state of the query runtime.                      *)
THEOREM DirectInvariant == Spec => []DirectInductive
<1>1. Init => DirectInductive
  BY DirectAtFirst
<1>2. DirectInductive /\ [Next]_vars => DirectInductive'
  BY DirectStep
<1> QED BY <1>1, <1>2, PTL DEF Spec

(* component_changed_since never denies a change that a value of the type  *)
(* bears, also after a recording that ran out of positions.                *)
THEOREM MarksCover == Spec => []TypeMarksCoverRows
<1>1. DirectInductive => TypeMarksCoverRows
  <2> SUFFICES ASSUME DirectInductive, NEW w \in Worlds, NEW t \in Types, NEW e \in Entities
               PROVE  typeMark[w][t] <= clock[w] /\ changed[w][<<e, t>>] <= typeMark[w][t]
    <3>1. ASSUME DirectInductive, NEW w \in Worlds, NEW t \in Types
          PROVE  typeMark[w][t] <= clock[w]
      BY <3>1 DEF DirectInductive, InOrder
    <3> QED BY <3>1 DEF TypeMarksCoverRows
  <2>1. <<e, t>> \in Cells /\ <<e, t>>[2] = t
    BY CellsAre
  <2> QED BY <2>1 DEF DirectInductive, InOrder
<1> QED BY <1>1, DirectInvariant, PTL

(* Query states have news as Observers promises: none is lost or told      *)
(* twice, and nothing is handed out for writing that some state of its     *)
(* world would not hear of.                                                *)
THEOREM ObserversTheorem == Spec => ImplementsObservers
<1>1. Init => Seen!ObserversInit
  BY FirstNews
<1>2. DirectInductive /\ [Next]_vars => [Seen!ObserversNext]_(Seen!observerVars)
  BY DirectStep
<1> QED BY <1>1, <1>2, DirectInvariant, PTL DEF Spec, ImplementsObservers, Seen!ObserversSpec
=============================================================================
