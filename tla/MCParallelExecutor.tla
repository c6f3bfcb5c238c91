-------------------------- MODULE MCParallelExecutor --------------------------
(***************************************************************************)
(* Bounds.  Three or four systems over two components, two runs of a plan, *)
(* so that change filters compare with an earlier run.  Accesses varies    *)
(* what the systems touch; Publications varies precedences, deferred       *)
(* producers, invoker-only systems and capacity.  Ranks are as the planner *)
(* gives them, and the frontiers the ones it selects.                      *)
(***************************************************************************)
EXTENDS ParallelExecutor

Order == INSTANCE ScheduleOrder

Obligations(size, edges, deferred) ==
    {[producer |-> e[1], deadline |-> e[2]] :
        e \in {e \in edges : e[1] \in deferred}}
    \union {[producer |-> r, deadline |-> size] : r \in deferred}

PlanOf(access, edges, deferred, invoker, capacity, start, faults) ==
    LET size == Len(access)
    IN  [size     |-> size,
         edges    |-> edges,
         deferred |-> deferred,
         invoker  |-> invoker,
         reads    |-> [r \in 0..(size - 1) |-> access[r + 1].reads],
         writes   |-> [r \in 0..(size - 1) |-> access[r + 1].writes],
         cuts     |-> Order!SelectedCuts(Obligations(size, edges, deferred),
                                         size),
         capacity |-> capacity,
         start    |-> start,
         faults   |-> faults]

NoFault(size) ==
    [system |-> [r \in 0..(size - 1) |-> "none"], command |-> {},
     callback |-> {}]

Access(reads, writes) == [reads |-> reads, writes |-> writes]

Shapes == {Access({"a"}, <<>>), Access({"a"}, <<"a", "a">>),
           Access({"b"}, <<"a">>), Access({}, <<"b">>), Access({"a"}, <<"b">>)}

Accesses ==
    {PlanOf(<<x, y, z>>, {}, deferred, {}, capacity, 0, {NoFault(3)}) :
        x, y, z \in Shapes, deferred \in {{}, {0, 2}}, capacity \in {2, 3}}

Disjoint == <<Access({"a"}, <<"a">>), Access({"b"}, <<"b">>), Access({}, <<>>),
              Access({}, <<>>)>>

Publications ==
    {PlanOf(Disjoint, edges, deferred, invoker, capacity, 0, {NoFault(4)}) :
        edges \in SUBSET {<<0, 1>>, <<1, 2>>, <<0, 3>>, <<2, 3>>},
        deferred \in SUBSET (0..2), invoker \in {{}, {1}},
        capacity \in {0, 1, 2, 4}}

-----------------------------------------------------------------------------
(* Failures.  At most two systems fail, each in any way, or one command or *)
(* callback does; the cursor has room for six events, and two runs may     *)
(* have eight.                                                             *)
SystemFaults ==
    {f \in [0..2 -> Fates] : \E r \in 0..2 : f[r] = "none"}

FaultyPlans ==
    {PlanOf(<<Access({"a"}, <<"a", "a">>), Access({}, <<"b">>),
              Access({"a"}, <<>>)>>,
            edges, deferred, invoker, 3, 10,
            [system : SystemFaults, command : {{}}, callback : {{}}]
            \union
            [system : {[r \in 0..2 |-> "none"]}, command : {{}, {0}, {1}},
             callback : {{}, {2}, {3}}]) :
        edges \in {{}, {<<0, 2>>}}, deferred \in {{0}, {0, 1}},
        invoker \in {{}, {0}}}

MCPlans == Accesses \union Publications \union FaultyPlans
=============================================================================
