-------------------------- MODULE DeferredEffects --------------------------
(***************************************************************************)
(* What deferred commands promise a program, without recorders, handles or *)
(* buffers: a system says what is to happen, in one order; if it ends well *)
(* that is owed to the world; a publication does what is owed, in order    *)
(* and up to the first failure; a run that ends owes nothing, whether it   *)
(* ended well or not.                                                      *)
(***************************************************************************)
EXTENDS Naturals, Sequences

VARIABLES running,       \* whether a schedule is being run
          said,          \* effects the system in progress has asked for
          owed,          \* effects of systems that ended well, not yet done
          done           \* effects the world has seen

deferredVars == <<running, said, owed, done>>

DeferredInit == ~running /\ said = <<>> /\ owed = <<>> /\ done = <<>>

Begin == ~running /\ running' /\ UNCHANGED <<said, owed, done>>

\* A run that ends well has published everything.
EndWell == running /\ owed = <<>> /\ said = <<>> /\ ~running' /\ UNCHANGED <<said, owed, done>>

Fail == running /\ ~running' /\ said' = <<>> /\ owed' = <<>> /\ UNCHANGED done

\* The same sequence with something after it.
Grown(old, new) == Len(old) <= Len(new) /\ SubSeq(new, 1, Len(old)) = old

\* A system asks for effects: one command, or a whole batch.
Say == running /\ Grown(said, said') /\ UNCHANGED <<running, owed, done>>

Settle == running /\ owed' = owed \o said /\ said' = <<>> /\ UNCHANGED <<running, done>>

\* Of effects that are due, the first k happen; the others, if any, never will.
UpTo(k, es) == SubSeq(es, 1, k)

Publish(k) ==
  /\ running /\ said = <<>> /\ k <= Len(owed)
  /\ done' = done \o UpTo(k, owed)
  /\ owed' = <<>>
  /\ running' = (k = Len(owed))
  /\ UNCHANGED said

\* A system that has the world applies what it asked for so far.
Now(k) ==
  /\ running /\ k <= Len(said)
  /\ done' = done \o UpTo(k, said)
  /\ said' = <<>>
  /\ UNCHANGED <<running, owed>>

\* Effects that were never deferred to a publication.
Direct == Grown(done, done') /\ UNCHANGED <<running, said, owed>>

DeferredNext ==
  \/ Begin \/ EndWell \/ Fail \/ Say \/ Settle \/ Direct
  \/ \E k \in 0..Len(owed) : Publish(k)
  \/ \E k \in 0..Len(said) : Now(k)

DeferredSpec == DeferredInit /\ [][DeferredNext]_deferredVars
=============================================================================
