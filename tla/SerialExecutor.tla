---------------------------- MODULE SerialExecutor ----------------------------
(***************************************************************************)
(* system/runtime.rs: what a schedule run does when its systems run one    *)
(* after the other, in reference order.  This is the reference the         *)
(* parallel executor is measured against.                                  *)
(*                                                                         *)
(* A plan is a record.  Its systems are named by their ranks 0..size-1:    *)
(*   edges      pairs of ranks, declared precedences                       *)
(*   deferred   ranks whose system records deferred commands               *)
(*   invoker    ranks that must run on the invoking thread                 *)
(*   reads      per rank, the components its queries observe               *)
(*   writes     per rank, the sequence of components it mutates            *)
(*   cuts       the publication frontiers                                  *)
(*                                                                         *)
(* The state of a world, as far as systems can tell, is a record:          *)
(*   value      per component, <<run, rank>> of the last writer            *)
(*   changed    per component, the cursor position of the last change      *)
(*   cursor     the change cursor                                          *)
(*   applied    the deferred buffers published, in order                   *)
(*   callbacks  the frontiers whose callback has run, in order             *)
(*   lastRun    per rank, the cursor its change filters compare with       *)
(*   seen       per rank, what its last invocation observed                *)
(***************************************************************************)
EXTENDS Integers, Sequences, FiniteSets

Ranks(p) == 0..(p.size - 1)

Written(p, r) == {p.writes[r][i] : i \in DOMAIN p.writes[r]}

(* The parts of ranks lo..hi-1, one behind the other.                      *)
Concatenation(part, lo, hi) ==
    LET below[k \in lo..hi] ==
            IF k = lo THEN <<>> ELSE below[k - 1] \o part[k - 1]
    IN  below[hi]

(* What system r observes: values, which of them have changed since its    *)
(* change filters last looked, and which commands have taken effect.       *)
Observation(p, s, r, run) ==
    [run     |-> run,
     values  |-> [c \in p.reads[r] |-> s.value[c]],
     fresh   |-> {c \in p.reads[r] : s.changed[c] > s.lastRun[r]},
     applied |-> s.applied]

(* Iterating a query evaluates its filter and moves its baseline to the    *)
(* cursor the invocation started at.                                       *)
Observed(p, s, r, run) ==
    [s EXCEPT !.seen[r] = Observation(p, s, r, run),
              !.lastRun[r] = s.cursor]

(* The journal of one invocation, one cursor position per event.           *)
Replayed(s, journal) ==
    [s EXCEPT
        !.cursor = @ + Len(journal),
        !.changed = [c \in DOMAIN @ |->
            LET events == {i \in DOMAIN journal : journal[i] = c}
            IN  IF events = {} THEN @[c]
                ELSE s.cursor
                     + CHOOSE i \in events : \A j \in events : j <= i]]

(* The payload of component c, mutated in place.                           *)
Mutated(s, c, r, run) == [s EXCEPT !.value[c] = <<run, r>>]

(* System r runs, and the events are what it mutates.                      *)
RanBody(p, s, r, run, events) ==
    LET done == {events[i] : i \in DOMAIN events}
    IN  Replayed([Observed(p, s, r, run) EXCEPT
                    !.value = [c \in DOMAIN @ |->
                        IF c \in done THEN <<run, r>> ELSE @[c]]],
                 events)

(* Buffers are applied in the order they were appended; a buffer's effect  *)
(* takes one change position.                                              *)
Published(s, queue) ==
    [s EXCEPT !.applied = @ \o queue, !.cursor = @ + Len(queue)]

CalledBack(s, cut) == [s EXCEPT !.callbacks = Append(@, cut)]

(* What a run goes through: the state and the buffers still pending.       *)
AfterSystem(p, before, r, run) ==
    [state |-> RanBody(p, before.state, r, run, p.writes[r]),
     queue |-> IF r \in p.deferred THEN Append(before.queue, <<run, r>>)
               ELSE before.queue]

AfterFrontier(before, cut) ==
    [state |-> CalledBack(Published(before.state, before.queue), cut),
     queue |-> <<>>]

(* The k-th system and, if k is a cut, the frontier behind it.             *)
SerialStep(p, before, k, run) ==
    LET ran == AfterSystem(p, before, k - 1, run)
    IN  IF k \in p.cuts THEN AfterFrontier(ran, k) ELSE ran

(* ... after each of the steps, and before the first.                      *)
SerialRun(p, start, run) ==
    LET after[k \in 0..p.size] ==
          IF k = 0 THEN [state |-> start, queue |-> <<>>]
          ELSE SerialStep(p, after[k - 1], k, run)
    IN  after

=============================================================================
