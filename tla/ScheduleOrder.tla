---------------------------- MODULE ScheduleOrder ----------------------------
(***************************************************************************)
(* scheduler/plan.rs: what the declarations of one schedule's systems mean.*)
(*                                                                         *)
(* A schedule is a record: `size' systems at positions 0..size-1, in the   *)
(* order they were registered; `sets', the system sets of each;            *)
(* `declarations', records [source, direction, target, required];          *)
(* `deferred', the positions whose system records deferred commands.       *)
(*                                                                         *)
(* A system's rank is its place in the reference order; a cut c separates  *)
(* the ranks below c from the others.                                      *)
(***************************************************************************)
EXTENDS Integers, FiniteSets

Positions(s) == 0..(s.size - 1)

(* The systems a declaration refers to; never the declaring one.           *)
Targets(s, d) == {p \in Positions(s) \ {d.source} : d.target \in s.sets[p]}

Unresolved(s) == {d \in s.declarations : d.required /\ Targets(s, d) = {}}

(* p is declared, by either side, to run before q.  Declarations agreeing  *)
(* on an edge give it once.                                                *)
Declared(s, p, q) ==
    \E d \in s.declarations :
        \/ d.direction = "before" /\ d.source = p /\ q \in Targets(s, d)
        \/ d.direction = "after" /\ d.source = q /\ p \in Targets(s, d)

Edges(s) == {e \in Positions(s) \X Positions(s) : Declared(s, e[1], e[2])}

-----------------------------------------------------------------------------
(* The reference order: by depth, then by registration.                    *)
Precedes(depth, p, q) ==
    depth[p] < depth[q] \/ (depth[p] = depth[q] /\ p < q)

RankBy(s, depth) ==
    [p \in Positions(s) |->
        Cardinality({q \in Positions(s) : Precedes(depth, q, p)})]

-----------------------------------------------------------------------------
(* A deferred producer's commands are to be published after it has run and *)
(* before the deadline: the rank of each system it precedes, and the end.  *)
Obligations(s, rank) ==
    {[producer |-> rank[e[1]], deadline |-> rank[e[2]]] :
        e \in {e \in Edges(s) : e[1] \in s.deferred}}
    \union
    {[producer |-> rank[p], deadline |-> s.size] : p \in s.deferred}

Covers(cut, o) == o.producer < cut /\ cut <= o.deadline

Hits(cuts, o) == \E c \in cuts : Covers(c, o)

(* The frontier an obligation is discharged at: the earliest covering it.  *)
FrontierOf(cuts, o) ==
    CHOOSE c \in cuts : Covers(c, o) /\ \A b \in cuts : Covers(b, o) => c <= b

(* The cuts the earliest-deadline rule selects, deadline by deadline.      *)
SelectedCuts(obligations, size) ==
    LET upTo[d \in 0..size] ==
            IF d = 0 THEN {}
            ELSE upTo[d - 1] \union
                 {o.deadline : o \in {o \in obligations :
                     o.deadline = d /\ ~ Hits(upTo[d - 1], o)}}
    IN  upTo[size]

=============================================================================
