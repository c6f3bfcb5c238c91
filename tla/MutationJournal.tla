---------------------------- MODULE MutationJournal ----------------------------
(***************************************************************************)
(* world/mutation_journal.rs, with the marks of world/component and        *)
(* world/resource: how mutations become positions of the change cursor.    *)
(*                                                                         *)
(* While a system runs, or a cohort of them, every mutable reference is    *)
(* preceded by an event in the system's journal, for which a position is   *)
(* reserved; the marks are made when all have ended, journal by journal in *)
(* rank order.  Outside a run a mutation is marked at once.  Entities and  *)
(* their components do not change during a run, and do not here.           *)
(***************************************************************************)
EXTENDS ChangePlaces, Sequences, FiniteSets

CONSTANT CohortMax    \* the most systems of a cohort

ASSUME JournalAssumption == CohortMax \in Nat \ {0}

VARIABLES
    cursor, rowTick, typeTick,
    present,        \* the resources there are
    dirty,          \* component types whose indexes are marked dirty
    outdated,       \* history: types whose index has not the values as they are
    mode,           \* "idle", "serial", "cohort" or "replay"
    journals,       \* the events of each running system, by rank
    working,        \* ranks of the systems that have not ended
    reserved,       \* next_reserved_cursor, a set of at most one position
    at,             \* the journal and event to be replayed next
    answer

marks == <<cursor, rowTick, typeTick, dirty>>
running == <<mode, journals, working, reserved, at>>
journalVars == <<marks, present, outdated, running, answer>>

-----------------------------------------------------------------------------
(* An event; `target' says whether the row was located beforehand.         *)
Targets(p) == IF p \in Rows THEN BOOLEAN ELSE {FALSE}

Event == [place : Places, target : BOOLEAN]

(* ChangeCursor::next.                                                     *)
Successor(c) == IF Exhausted(c) THEN {} ELSE {NextCursor(c)}

Init ==
    /\ cursor = Watched
    /\ rowTick = [r \in Rows |-> Watched]
    /\ typeTick = [t \in ObservedTypes |-> Watched]
    /\ present \in SUBSET Resources
    /\ dirty = Components
    /\ outdated = Components
    /\ mode = "idle"
    /\ journals = <<>>
    /\ working = {}
    /\ reserved = {}
    /\ at = <<1, 1>>
    /\ answer = "none"

(* advance_change_cursor and the row's changed tick.                       *)
Advance(p) ==
    /\ cursor' = NextCursor(cursor)
    /\ rowTick' = [r \in Rows |-> IF r = p THEN cursor' ELSE rowTick[r]]

(* The type's high-water mark and, for a component, its indexes.           *)
MarkType(t) ==
    /\ typeTick' = [typeTick EXCEPT ![t] = cursor']
    /\ dirty' = dirty \union ({t} \intersect Components)

-----------------------------------------------------------------------------
(* Outside a run.                                                          *)

There(p) == p \in Rows \/ TypeOf(p) \in present

(* get_mut, resource_mut and insert_resource, which may add the resource.  *)
Direct(p) ==
    /\ mode = "idle" /\ ~ Exhausted(cursor)
    /\ Advance(p) /\ MarkType(TypeOf(p))
    /\ outdated' = outdated \union ({TypeOf(p)} \intersect Components)
    /\ \/ There(p) /\ UNCHANGED present
       \/ p \notin Rows /\ present' = present \union {TypeOf(p)}
    /\ answer' = "granted"
    /\ UNCHANGED running

RemoveResource(t) ==
    /\ mode = "idle" /\ t \in present /\ ~ Exhausted(cursor)
    /\ Advance(<<NoEntity, t>>) /\ MarkType(t)
    /\ present' = present \ {t}
    /\ answer' = "granted"
    /\ UNCHANGED <<outdated, running>>

(* The panic of an exhausted cursor comes before a reference, but after    *)
(* the insertion or the removal of a resource.                             *)
DirectExhausted ==
    /\ mode = "idle" /\ Exhausted(cursor)
    /\ \/ UNCHANGED present
       \/ \E t \in Resources : present' \in {present \union {t}, present \ {t}}
    /\ answer' = "refused"
    /\ UNCHANGED <<marks, outdated, running>>

(* component_changed_since, resource_changed_since.                        *)
TypeChangedSince(t, since) ==
    /\ mode = "idle" /\ NotAfter(since, cursor)
    /\ answer' = IF Before(since, typeTick[t]) THEN "changed" ELSE "unchanged"
    /\ UNCHANGED <<marks, present, outdated, running>>

(* The test of a change filter.                                            *)
RowChangedSince(r, since) ==
    /\ mode = "idle" /\ NotAfter(since, cursor)
    /\ answer' = IF Before(since, rowTick[r]) THEN "changed" ELSE "unchanged"
    /\ UNCHANGED <<marks, present, outdated, running>>

(* A lookup rebuilds an index that is dirty.                               *)
Lookup(t) ==
    /\ mode = "idle"
    /\ dirty' = dirty \ {t}
    /\ outdated' = outdated \ (dirty \intersect {t})
    /\ answer' = IF t \in outdated' THEN "outdated" ELSE "current"
    /\ UNCHANGED <<cursor, rowTick, typeTick, present, running>>

-----------------------------------------------------------------------------
(* A run: one system on the invoking thread, or a cohort.                  *)

StartSerial ==
    /\ mode = "idle"
    /\ mode' = "serial"
    /\ journals' = <<<<>>>>
    /\ working' = {1}
    /\ reserved' = Successor(cursor)
    /\ UNCHANGED <<marks, present, outdated, at, answer>>

StartCohort(n) ==
    /\ mode = "idle"
    /\ mode' = "cohort"
    /\ journals' = [w \in 1..n |-> <<>>]
    /\ working' = 1..n
    /\ UNCHANGED <<marks, present, outdated, reserved, at, answer>>

(* The events that have no position of the cursor yet.                     *)
Outstanding ==
    {e \in UNION {{j} \X DOMAIN journals[j] : j \in DOMAIN journals} :
        e[1] > at[1] \/ (e[1] = at[1] /\ e[2] >= at[2])}

(* Members of a cohort write different types.                              *)
MayWrite(w, p) ==
    /\ w \in working /\ There(p)
    /\ \A v \in DOMAIN journals : v # w =>
          \A i \in DOMAIN journals[v] : TypeOf(journals[v][i].place) # TypeOf(p)

Push(w, p, target) ==
    /\ journals' = [journals EXCEPT ![w] = Append(@, [place |-> p, target |-> target])]
    /\ outdated' = outdated \union ({TypeOf(p)} \intersect Components)
    /\ answer' = "granted"
    /\ UNCHANGED <<marks, present, mode, working, at>>

(* Mutated: the position after the base is reserved again and again.       *)
TakeReservedBase(w, p, target) ==
    /\ mode = "serial" /\ MayWrite(w, p) /\ reserved # {}
    /\ reserved' = Successor(cursor)
    /\ Push(w, p, target)

(* reserve_next_event of a serial journal.                                 *)
TakeReserved(w, p, target) ==
    /\ mode = "serial" /\ MayWrite(w, p) /\ reserved # {}
    /\ reserved' = UNION {Successor(c) : c \in reserved}
    /\ Push(w, p, target)

(* ... and of a worker's: the admission of the shared capacity.            *)
Admit(w, p, target) ==
    /\ mode = "cohort" /\ MayWrite(w, p)
    /\ Cardinality(Outstanding) < Remaining(cursor)
    /\ Push(w, p, target) /\ UNCHANGED reserved

(* The panic of a refusal may be caught by the system, which goes on.      *)
RefuseEvent(w, p) ==
    /\ MayWrite(w, p)
    /\ \/ mode = "serial" /\ reserved = {}
       \/ mode = "cohort" /\ Cardinality(Outstanding) >= Remaining(cursor)
    /\ answer' = "refused"
    /\ UNCHANGED <<marks, present, outdated, running>>

(* A system ends, whether well, with an error or with a panic.             *)
End(w) ==
    /\ mode \in {"serial", "cohort"} /\ w \in working
    /\ working' = working \ {w}
    /\ mode' = IF working' = {} THEN "replay" ELSE mode
    /\ UNCHANGED <<marks, present, outdated, journals, reserved, at, answer>>

-----------------------------------------------------------------------------
(* commit and commit_concurrent: replay.                                   *)

Located(j, i) == journals[j][i].target

(* Mutated: any event that follows puts the type's mark off.               *)
RunGoesOnAnyType(j, i) ==
    /\ i \in DOMAIN journals[j] /\ i + 1 \in DOMAIN journals[j]
    /\ Located(j, i) /\ Located(j, i + 1)

(* Both this event and the next are of one type and located.               *)
RunGoesOn(j, i) ==
    /\ i \in DOMAIN journals[j] /\ i + 1 \in DOMAIN journals[j]
    /\ Located(j, i) /\ Located(j, i + 1)
    /\ TypeOf(journals[j][i].place) = TypeOf(journals[j][i + 1].place)

(* The mark of a type waits for the last event of a run of located events. *)
Replay ==
    /\ mode = "replay" /\ at[1] \in DOMAIN journals
    /\ at[2] \in DOMAIN journals[at[1]]
    /\ ~ Exhausted(cursor)
    /\ LET p == journals[at[1]][at[2]].place
       IN  /\ Advance(p)
           /\ IF RunGoesOn(at[1], at[2]) THEN UNCHANGED <<typeTick, dirty>>
              ELSE MarkType(TypeOf(p))
    /\ at' = <<at[1], at[2] + 1>>
    /\ UNCHANGED <<present, outdated, mode, journals, working, reserved, answer>>

NextJournal ==
    /\ mode = "replay" /\ at[1] \in DOMAIN journals
    /\ at[2] > Len(journals[at[1]])
    /\ at' = <<at[1] + 1, 1>>
    /\ UNCHANGED <<marks, present, outdated, mode, journals, working, reserved, answer>>

Replayed ==
    /\ mode = "replay" /\ at[1] > Len(journals)
    /\ mode' = "idle"
    /\ journals' = <<>>
    /\ reserved' = {}
    /\ at' = <<1, 1>>
    /\ UNCHANGED <<marks, present, outdated, working, answer>>

Outside ==
    \/ \E p \in Places : Direct(p)
    \/ \E t \in Resources : RemoveResource(t)
    \/ DirectExhausted
    \/ \E since \in Cursors :
          \/ \E t \in ObservedTypes : TypeChangedSince(t, since)
          \/ \E r \in Rows : RowChangedSince(r, since)
    \/ \E t \in Components : Lookup(t)

Inside ==
    \/ StartSerial \/ \E n \in 1..CohortMax : StartCohort(n)
    \/ \E w \in working :
          \/ End(w)
          \/ \E p \in Places :
                \/ RefuseEvent(w, p)
                \/ \E target \in Targets(p) : TakeReserved(w, p, target) \/ Admit(w, p, target)

Next == Outside \/ Inside \/ Replay \/ NextJournal \/ Replayed

Spec == Init /\ [][Next]_journalVars

-----------------------------------------------------------------------------
TypeOK ==
    /\ cursor \in Cursors
    /\ rowTick \in [Rows -> Cursors]
    /\ typeTick \in [ObservedTypes -> Cursors]
    /\ present \subseteq Resources
    /\ dirty \subseteq Components /\ outdated \subseteq Components
    /\ mode \in {"idle", "serial", "cohort", "replay"}
    /\ journals \in Seq(Seq(Event))
    /\ working \subseteq DOMAIN journals
    /\ reserved \subseteq Cursors
    /\ at \in Nat \X Nat

(* No replay meets an exhausted cursor, so no reference that was exposed   *)
(* is left without a position: events outstanding never exceed what is     *)
(* left, and a serial journal reserves a position exactly while they are   *)
(* fewer.                                                                  *)
PositionsSuffice ==
    /\ Cardinality(Outstanding) <= Remaining(cursor)
    /\ mode = "serial" =>
          (reserved = {} <=> Cardinality(Outstanding) = Remaining(cursor))

(* The type whose mark the replay has put off.                             *)
PutOff(t) ==
    /\ mode = "replay" /\ at[1] \in DOMAIN journals
    /\ RunGoesOn(at[1], at[2] - 1)
    /\ TypeOf(journals[at[1]][at[2]].place) = t

Observed == INSTANCE ObservedChanges WITH
    typeTick <- [t \in ObservedTypes |-> IF PutOff(t) THEN cursor ELSE typeTick[t]],
    promised <- Cardinality(Outstanding)

(* Observers are told of changes as if each were marked in full when its   *)
(* turn comes, though the type's mark and its indexes wait for the end of  *)
(* a run of events; a reference is refused exactly when no position is     *)
(* left for it.                                                            *)
ImplementsObserved == Observed!ObservedSpec

=============================================================================
