----------------------------- MODULE SchedulePlan -----------------------------
(***************************************************************************)
(* scheduler/plan.rs, ScheduleRegistry::build_plan: from the declarations  *)
(* of a schedule's systems to the reference order of its systems and the   *)
(* frontiers at which their deferred commands are published.               *)
(*                                                                         *)
(* One step per turn of a loop: resolution, the ready-set loop that finds  *)
(* the precedence depths (and the cycles), the sort, the greedy selection  *)
(* of the cuts, and the assignment of each obligation to a frontier.       *)
(***************************************************************************)
EXTENDS ScheduleOrder

CONSTANT Schedules      \* the schedules a plan may be asked for

ASSUME SchedulesAssumption ==
    \A s \in Schedules :
        /\ s.size \in Nat
        /\ s.deferred \subseteq Positions(s)
        /\ \A d \in s.declarations : d.source \in Positions(s)

VARIABLES
    schedule,       \* the schedule planned
    phase,          \* where build_plan is
    incoming,       \* per position: predecessors not yet taken
    ready,          \* positions without one, not yet taken
    depth,          \* per position: precedence depth found so far
    taken,          \* how many positions have been taken from ready
    rank,           \* per position: place in the reference order
    left,           \* publication obligations not yet considered
    cuts            \* cuts selected

vars == <<schedule, phase, incoming, ready, depth, taken, rank, left, cuts>>

Phases == {"resolve", "order", "select", "planned", "unresolved", "cycle",
           "uncovered"}

Ended == {"planned", "unresolved", "cycle", "uncovered"}

Pos == Positions(schedule)
Dependents(p) == {q \in Pos : <<p, q>> \in Edges(schedule)}
Predecessors(p) == {q \in Pos : <<q, p>> \in Edges(schedule)}

Init ==
    /\ schedule \in Schedules
    /\ phase = "resolve"
    /\ incoming = [p \in Pos |-> 0]
    /\ ready = {}
    /\ depth = [p \in Pos |-> 0]
    /\ taken = 0
    /\ rank = [p \in Pos |-> 0]
    /\ left = {}
    /\ cuts = {}

-----------------------------------------------------------------------------
RejectUnresolved ==
    /\ phase = "resolve"
    /\ Unresolved(schedule) # {}
    /\ phase' = "unresolved"
    /\ UNCHANGED <<schedule, incoming, ready, depth, taken, rank, left, cuts>>

(* Mutated: one count per declaration instead of one per edge.             *)
InDegreePerDeclaration(p) ==
    Cardinality({x \in Pos \X schedule.declarations :
        \/ /\ x[2].direction = "before"
           /\ x[2].source = x[1]
           /\ p \in Targets(schedule, x[2])
        \/ /\ x[2].direction = "after"
           /\ x[2].source = p
           /\ x[1] \in Targets(schedule, x[2])})

InDegree(p) == Cardinality(Predecessors(p))

Resolve ==
    /\ phase = "resolve"
    /\ Unresolved(schedule) = {}
    /\ incoming' = [p \in Pos |-> InDegree(p)]
    /\ ready' = {p \in Pos : incoming'[p] = 0}
    /\ phase' = "order"
    /\ UNCHANGED <<schedule, depth, taken, rank, left, cuts>>

Greater(a, b) == IF a > b THEN a ELSE b

(* Mutated: a dependent's depth is that of the last predecessor taken.     *)
DeepenedByLast(p, q) == depth[p] + 1

Deepened(p, q) == Greater(depth[q], depth[p] + 1)

Released(p) == {q \in Dependents(p) : incoming[q] <= 1}

(* Mutated: the position taken is not removed.                             *)
TakeAgain ==
    /\ phase = "order"
    /\ ready # {}
    /\ LET p == CHOOSE p \in ready : \A q \in ready : p <= q
       IN  ready' = ready \union Released(p)
    /\ UNCHANGED <<schedule, phase, incoming, depth, taken, rank, left, cuts>>

(* The loop: take the first ready position, deepen and release the systems *)
(* that depend on it.                                                      *)
Take ==
    /\ phase = "order"
    /\ ready # {}
    /\ LET p == CHOOSE p \in ready : \A q \in ready : p <= q
       IN  /\ ready' = (ready \ {p}) \union Released(p)
           /\ incoming' = [q \in Pos |-> IF q \in Dependents(p)
                                         THEN Greater(incoming[q] - 1, 0)
                                         ELSE incoming[q]]
           /\ depth' = [q \in Pos |-> IF q \in Dependents(p)
                                      THEN Deepened(p, q) ELSE depth[q]]
    /\ taken' = taken + 1
    /\ UNCHANGED <<schedule, phase, rank, left, cuts>>

RejectCycle ==
    /\ phase = "order"
    /\ ready = {}
    /\ taken # schedule.size
    /\ phase' = "cycle"
    /\ UNCHANGED <<schedule, incoming, ready, depth, taken, rank, left, cuts>>

Order ==
    /\ phase = "order"
    /\ ready = {}
    /\ taken = schedule.size
    /\ rank' = RankBy(schedule, depth)
    /\ left' = Obligations(schedule, rank')
    /\ phase' = "select"
    /\ UNCHANGED <<schedule, incoming, ready, depth, taken, cuts>>

(* Mutated: the obligations are taken as they come.                        *)
DueAnyTime(o) == TRUE

(* Which of the obligations with the earliest deadline comes first is      *)
(* decided by their diagnostic names: any of them.                         *)
Due(o) == \A other \in left : o.deadline <= other.deadline

(* Mutated: a cut at the producer's own rank is taken to cover it.         *)
CutsWithOffByOne(o) ==
    IF \E c \in cuts : o.producer <= c /\ c <= o.deadline
    THEN cuts ELSE cuts \union {o.deadline}

(* Mutated: every deadline becomes a cut.                                  *)
CutsAtEveryDeadline(o) == cuts \union {o.deadline}

CutsWith(o) ==
    IF Hits(cuts, o) \/ o.deadline \in cuts
    THEN cuts ELSE cuts \union {o.deadline}

Select ==
    /\ phase = "select"
    /\ \E o \in left :
        /\ Due(o)
        /\ cuts' = CutsWith(o)
        /\ left' = left \ {o}
    /\ UNCHANGED <<schedule, phase, incoming, ready, depth, taken, rank>>

(* Every obligation is given the first frontier that covers it; without    *)
(* one the code panics.                                                    *)
Assign ==
    /\ phase = "select"
    /\ left = {}
    /\ phase' = IF \A o \in Obligations(schedule, rank) : Hits(cuts, o)
                THEN "planned" ELSE "uncovered"
    /\ UNCHANGED <<schedule, incoming, ready, depth, taken, rank, left, cuts>>

Next ==
    \/ RejectUnresolved \/ Resolve \/ Take \/ RejectCycle \/ Order
    \/ Select \/ Assign

Spec == Init /\ [][Next]_vars

(* build_plan is one synchronous call.                                     *)
FairSpec == Spec /\ WF_vars(Next)

-----------------------------------------------------------------------------
TypeOK ==
    /\ schedule \in Schedules
    /\ phase \in Phases
    /\ incoming \in [Pos -> Nat]
    /\ ready \subseteq Pos
    /\ depth \in [Pos -> Nat]
    /\ taken \in Nat
    /\ rank \in [Pos -> Nat]
    /\ left \subseteq Obligations(schedule, rank)
    /\ cuts \subseteq 1..schedule.size

Ordered == phase \in {"select", "planned"}

(* Once there is a reference order, every declared precedence is respected *)
(* by it, and no two systems share a rank.                                 *)
PrecedenceKept ==
    Ordered =>
        /\ \A e \in Edges(schedule) : rank[e[1]] < rank[e[2]]
        /\ \A p, q \in Pos : rank[p] = rank[q] => p = q
        /\ \A p \in Pos : rank[p] < schedule.size

(* A system's depth is the length of the longest chain of precedences      *)
(* before it: it never waits for a layer it does not need.                 *)
DepthIsLongestChain ==
    Ordered =>
        \A p \in Pos :
            /\ \A q \in Predecessors(p) : depth[q] < depth[p]
            /\ \/ depth[p] = 0
               \/ \E q \in Predecessors(p) : depth[p] = depth[q] + 1

(* A set of systems each of which waits for another of the set.            *)
Knot(S) == S # {} /\ \A p \in S : \E q \in S : <<q, p>> \in Edges(schedule)

(* A schedule is rejected for a cycle exactly if there is one.             *)
CycleExact ==
    /\ phase = "cycle" => \E S \in SUBSET Pos : Knot(S)
    /\ Ordered => \A S \in SUBSET Pos : ~ Knot(S)

(* When a plan is complete, whatever a deferred producer records is        *)
(* published after it ran and before any system declared to follow it      *)
(* runs, and in any case by the end.                                       *)
CommandsPublishedInTime ==
    /\ phase # "uncovered"
    /\ phase = "planned" =>
        /\ \A e \in Edges(schedule) : e[1] \in schedule.deferred =>
               \E c \in cuts : rank[e[1]] < c /\ c <= rank[e[2]]
        /\ \A p \in schedule.deferred : \E c \in cuts : rank[p] < c

(* No other choice of frontiers would do with fewer (ADR 0001).            *)
FewestFrontiers ==
    phase = "planned" =>
        \A H \in SUBSET (1..schedule.size) :
            (\A o \in Obligations(schedule, rank) : Hits(H, o)) =>
                Cardinality(cuts) <= Cardinality(H)

(* The frontiers do not depend on the order in which obligations with one  *)
(* deadline are considered: renaming a system moves no callback.           *)
FrontiersCanonical ==
    phase = "planned" =>
        cuts = SelectedCuts(Obligations(schedule, rank), schedule.size)

(* Planning ends, with a plan or with a verdict.                           *)
PlanningEnds == <>(phase \in Ended)

-----------------------------------------------------------------------------
(* The strengthening under which the safety properties are inductive.      *)
(* Positions taken from the ready set: nothing is left before them ...     *)
Taken == {p \in Pos : incoming[p] = 0 /\ p \notin ready}

(* ... the counters count exactly the predecessors still to be taken, and  *)
(* the depths are exact for the chains of positions taken so far ...       *)
Looping ==
    phase \in {"order", "select", "planned", "uncovered", "cycle"} =>
        /\ \A p \in Pos : incoming[p] = Cardinality(Predecessors(p) \ Taken)
        /\ \A p \in ready : incoming[p] = 0
        /\ taken = Cardinality(Taken)
        /\ \A p \in Pos : \A q \in Predecessors(p) \intersect Taken :
               depth[q] < depth[p]
        /\ \A p \in Pos :
               \/ depth[p] = 0
               \/ \E q \in Predecessors(p) \intersect Taken :
                      depth[p] = depth[q] + 1

(* ... the loop is left with the ready set empty, for the sort only if     *)
(* every position was taken ...                                            *)
Sorted ==
    /\ phase \in {"resolve", "unresolved"} =>
           taken = 0 /\ depth = [p \in Pos |-> 0]
    /\ phase = "cycle" => ready = {} /\ taken # schedule.size
    /\ phase \in {"select", "planned", "uncovered"} =>
           /\ ready = {}
           /\ Taken = Pos
           /\ rank = RankBy(schedule, depth)

(* ... and every cut is the deadline of an obligation that no earlier cut  *)
(* could have covered, those considered are covered and those left have    *)
(* deadlines no earlier than any cut.                                      *)
Selecting ==
    LET obligations == Obligations(schedule, rank)
    IN  /\ phase \in {"resolve", "order", "cycle", "unresolved"} => cuts = {}
        /\ phase \in {"select", "planned", "uncovered"} =>
           /\ \A o \in obligations \ left : Hits(cuts, o)
           /\ \A o \in left : \A c \in cuts : c <= o.deadline
           /\ \A c \in cuts :
                  \E o \in obligations :
                      /\ o.deadline = c
                      /\ \A b \in cuts : b < c => b <= o.producer
        /\ phase = "planned" => left = {}
        /\ phase # "uncovered"

Inductive == TypeOK /\ Looping /\ Sorted /\ Selecting

=============================================================================
