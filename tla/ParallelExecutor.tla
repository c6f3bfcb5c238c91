--------------------------- MODULE ParallelExecutor ---------------------------
(***************************************************************************)
(* system/runtime/parallel_executor.rs and system/worker_cohort.rs: a      *)
(* schedule run in cohorts of workers.                                     *)
(*                                                                         *)
(* The invoking thread goes through the reference order.  An invoker-only  *)
(* system it runs itself; otherwise it launches the longest run of systems *)
(* from here on that are ready, do not conflict, and lie before the next   *)
(* frontier.  Workers mutate component payloads in place, concurrently,    *)
(* and record each mutation in a journal of their own; once all of them    *)
(* have ended the invoking thread replays the journals in rank order and   *)
(* appends the buffers.  At a frontier the pending buffers are applied and *)
(* the callback runs.                                                      *)
(*                                                                         *)
(* A run's faults are chosen when it starts, so that they do not depend on *)
(* how the workers interleave: `system' says how each system ends,         *)
(* `command' whose buffer holds a failing command, `callback' at which     *)
(* frontiers the callback fails.                                           *)
(***************************************************************************)
EXTENDS SerialExecutor

CONSTANTS
    Plans,          \* plans to run; each also has its worker capacity, the
                    \* cursor the systems saw last, and the faults its runs
                    \* may meet
    Components,
    CursorMax,      \* last position of the change cursor
    MaxRuns         \* runs of the same schedule, one after the other

(* How the invocation of a system may go.                                  *)
UserFailures == {"error", "panic"}
Fates == {"none", "unprepared", "violation"} \union UserFailures

(* What the planner makes: precedences go forwards, and a frontier lies    *)
(* behind every system that records deferred commands.                     *)
ASSUME ExecutorAssumption ==
    /\ CursorMax \in Nat
    /\ MaxRuns \in Nat
    /\ \A p \in Plans :
          /\ p.size \in Nat
          /\ p.capacity \in Nat
          /\ p.start \in 0..CursorMax
          /\ \A e \in p.edges : e[1] \in Ranks(p) /\ e[2] \in Ranks(p)
                                /\ e[1] < e[2]
          /\ p.cuts \subseteq 1..p.size
          /\ p.deferred \subseteq Ranks(p)
          /\ \A r \in p.deferred : \E c \in p.cuts : r < c
          /\ p.reads \in [Ranks(p) -> SUBSET Components]
          /\ p.writes \in [Ranks(p) -> Seq(Components)]
          /\ \A f \in p.faults : f.system \in [Ranks(p) -> Fates]

VARIABLES
    plan,
    phase,          \* what the invoking thread is about to do
    run,            \* which run of the schedule this is
    fault,          \* the faults of this run
    next,           \* next_reference_rank
    passed,         \* frontiers published
    upTo,           \* the cohort is next..upTo-1
    state,          \* the world and the systems' own query state
    queue,          \* pending deferred buffers
    worker,         \* per rank: how far its worker is
    journal,        \* per rank: mutation events recorded
    admitted,       \* positions the cohort has taken of its capacity
    verdict,        \* how the run ended, and for which rank
    serial          \* the states of a serial run from the same start: before
                    \* the system of each rank, and at the end

vars == <<plan, phase, run, fault, next, passed, upTo, state, queue, worker,
          journal, admitted, verdict, serial>>

Systems == Ranks(plan)

Cohort == next..(upTo - 1)

Active == {"launched", "running"}
FrameworkFailures == {"violation", "exhausted"}
Over == {"success"} \union UserFailures \union FrameworkFailures

NoObservation == [run |-> 0, values |-> <<>>, fresh |-> {}, applied |-> <<>>]

Init ==
    /\ plan \in Plans
    /\ phase = "idle"
    /\ run = 0
    /\ fault = [system |-> [r \in Systems |-> "none"], command |-> {},
                callback |-> {}]
    /\ next = 0
    /\ passed = {}
    /\ upTo = 0
    /\ state = [value |-> [c \in Components |-> <<0, 0>>],
                changed |-> [c \in Components |-> plan.start],
                cursor |-> plan.start,
                applied |-> <<>>,
                callbacks |-> <<>>,
                lastRun |-> [r \in Systems |-> plan.start],
                seen |-> [r \in Systems |-> NoObservation]]
    /\ queue = <<>>
    /\ worker = [r \in Systems |-> "idle"]
    /\ journal = [r \in Systems |-> <<>>]
    /\ admitted = 0
    /\ verdict = [kind |-> "ok", rank |-> 0]
    /\ serial = [k \in 0..plan.size |-> state]

-----------------------------------------------------------------------------
(* Mutated: what is still pending is kept for the next run.                *)
EndRunKeepsQueue(kind, r) ==
    /\ phase' = "idle"
    /\ verdict' = [kind |-> kind, rank |-> r]
    /\ UNCHANGED queue

(* The run is over; what is still pending is dropped.                      *)
EndRun(kind, r) ==
    /\ phase' = "idle"
    /\ verdict' = [kind |-> kind, rank |-> r]
    /\ queue' = <<>>

(* A run starts from what the last one left.  (The serial world follows as *)
(* long as the runs succeed.)                                              *)
StartRun ==
    /\ phase = "idle"
    /\ run < MaxRuns
    /\ run' = run + 1
    /\ LET start == IF verdict.kind = "ok" THEN serial[plan.size] ELSE state
           of == SerialRun(plan, start, run + 1)
       IN  serial' = [k \in 0..plan.size |-> of[k].state]
    /\ fault' \in plan.faults
    /\ worker' = [r \in Systems |-> "idle"]
    /\ journal' = [r \in Systems |-> <<>>]
    /\ next' = 0
    /\ upTo' = 0
    /\ passed' = {}
    /\ IF plan.capacity = 0
       THEN EndRun("setup", 0)
       ELSE /\ phase' = "boundary"
            /\ verdict' = [kind |-> "running", rank |-> 0]
            /\ UNCHANGED queue
    /\ UNCHANGED <<plan, state, admitted>>

PendingCuts == plan.cuts \ passed

(* The first frontier not yet published is here.                           *)
AtFrontier == next \in PendingCuts /\ \A c \in PendingCuts : next <= c

(* The invoking thread goes on with the next system.                       *)
Step ==
    /\ phase = "boundary"
    /\ ~ AtFrontier
    /\ next < plan.size
    /\ phase' = "step"
    /\ UNCHANGED <<plan, run, fault, next, passed, upTo, state, queue, worker,
                   journal, admitted, verdict, serial>>

Complete ==
    /\ phase = "boundary"
    /\ ~ AtFrontier
    /\ next = plan.size
    /\ IF PendingCuts = {} THEN EndRun("ok", 0) ELSE EndRun("unreached", 0)
    /\ UNCHANGED <<plan, run, fault, next, passed, upTo, state, worker,
                   journal, admitted, serial>>

-----------------------------------------------------------------------------
(* How many of a sequence of n events the cursor has room for.             *)
Room(n) == IF n <= CursorMax - state.cursor THEN n ELSE CursorMax - state.cursor

(* An invoker-only system runs on the invoking thread: nothing overlaps.   *)
Invoke ==
    /\ phase = "step"
    /\ next \in plan.invoker
    /\ LET r == next
           fate == fault.system[r]
           events == SubSeq(plan.writes[r], 1, Room(Len(plan.writes[r])))
       IN  /\ IF fate = "unprepared"
              THEN /\ EndRun("param", r)
                   /\ UNCHANGED <<state, journal, next>>
              ELSE /\ state' = RanBody(plan, state, r, run, events)
                   /\ journal' = [journal EXCEPT ![r] = events]
                   /\ IF Len(events) < Len(plan.writes[r])
                      THEN EndRun("exhausted", r) /\ UNCHANGED next
                      ELSE IF fate # "none"
                      THEN EndRun(fate, r) /\ UNCHANGED next
                      ELSE /\ phase' = "boundary"
                           /\ next' = r + 1
                           /\ queue' = IF r \in plan.deferred
                                       THEN Append(queue, <<run, r>>)
                                       ELSE queue
                           /\ UNCHANGED verdict
    /\ UNCHANGED <<plan, run, fault, passed, upTo, worker, admitted, serial>>

-----------------------------------------------------------------------------
ReadyAt(r, cut) == \A e \in plan.edges : e[2] = r => e[1] < cut

Conflict(q, r) ==
    \/ Written(plan, q) \intersect (plan.reads[r] \union Written(plan, r)) # {}
    \/ Written(plan, r) \intersect plan.reads[q] # {}

(* Mutated: a cohort may cross a frontier.                                 *)
FrontierBoundIgnored == plan.size

(* Where the cohort must end at the latest: the next frontier.             *)
FrontierBound ==
    LET ahead == {c \in plan.cuts : c > next}
    IN  IF ahead = {} THEN plan.size
        ELSE CHOOSE c \in ahead : \A b \in ahead : c <= b

(* Mutated: a candidate joins whatever it accesses.                        *)
JoinsConflicting(r) == r \notin plan.invoker /\ ReadyAt(r, next)

(* Mutated: a candidate joins whether or not what it must follow has run.  *)
JoinsUnready(r) ==
    r \notin plan.invoker /\ \A q \in next..(r - 1) : ~ Conflict(q, r)

(* Candidate r joins the members before it.                                *)
Joins(r) ==
    /\ r \notin plan.invoker
    /\ ReadyAt(r, next)
    /\ \A q \in next..(r - 1) : ~ Conflict(q, r)

CohortEnds ==
    {u \in (next + 1)..FrontierBound :
        u - next <= plan.capacity /\ \A r \in (next + 1)..(u - 1) : Joins(r)}

(* Projections are prepared for the whole cohort first; a failure there    *)
(* ends the run before any member has started.                             *)
Launch ==
    /\ phase = "step"
    /\ next \notin plan.invoker
    /\ upTo' = CHOOSE u \in CohortEnds : \A v \in CohortEnds : v <= u
    /\ LET members == next..(upTo' - 1)
           unprepared == {r \in members : fault.system[r] = "unprepared"}
       IN  IF unprepared # {}
           THEN /\ EndRun("param", CHOOSE r \in unprepared :
                              \A q \in unprepared : r <= q)
                /\ UNCHANGED worker
           ELSE /\ phase' = "working"
                /\ worker' = [r \in Systems |->
                       IF r \in members THEN "launched" ELSE worker[r]]
                /\ UNCHANGED <<queue, verdict>>
    /\ admitted' = 0
    /\ UNCHANGED <<plan, run, fault, next, passed, state, journal, serial>>

(* Mutated: the baseline moves past what the other workers have admitted.  *)
BeginAtLiveCursor(r) ==
    /\ worker[r] = "launched"
    /\ worker' = [worker EXCEPT ![r] = "running"]
    /\ state' = [Observed(plan, state, r, run) EXCEPT
                    !.lastRun[r] = state.cursor + admitted]
    /\ UNCHANGED <<plan, phase, run, fault, next, passed, upTo, queue, journal,
                   admitted, verdict, serial>>

(* A worker begins: its queries observe the world, change filters against  *)
(* the cohort's base cursor, which no worker moves.                        *)
Begin(r) ==
    /\ worker[r] = "launched"
    /\ worker' = [worker EXCEPT ![r] = "running"]
    /\ state' = Observed(plan, state, r, run)
    /\ UNCHANGED <<plan, phase, run, fault, next, passed, upTo, queue, journal,
                   admitted, verdict, serial>>

(* Mutated: one event too many is admitted.                                *)
MutateOneMore(r) ==
    /\ worker[r] = "running"
    /\ Len(journal[r]) < Len(plan.writes[r])
    /\ LET c == plan.writes[r][Len(journal[r]) + 1]
       IN  IF admitted <= CursorMax - state.cursor
           THEN /\ admitted' = admitted + 1
                /\ journal' = [journal EXCEPT ![r] = Append(@, c)]
                /\ state' = Mutated(state, c, r, run)
                /\ UNCHANGED worker
           ELSE /\ worker' = [worker EXCEPT ![r] = "exhausted"]
                /\ UNCHANGED <<admitted, journal, state>>
    /\ UNCHANGED <<plan, phase, run, fault, next, passed, upTo, queue, verdict,
                   serial>>

(* Mutated: a worker waits for a position instead of failing.              *)
MutateWaiting(r) ==
    /\ worker[r] = "running"
    /\ Len(journal[r]) < Len(plan.writes[r])
    /\ admitted < CursorMax - state.cursor
    /\ LET c == plan.writes[r][Len(journal[r]) + 1]
       IN  /\ journal' = [journal EXCEPT ![r] = Append(@, c)]
           /\ state' = Mutated(state, c, r, run)
    /\ admitted' = admitted + 1
    /\ UNCHANGED <<plan, phase, run, fault, next, passed, upTo, worker, queue,
                   verdict, serial>>

(* Its next mutation: the event is admitted first, then the payload is     *)
(* mutated in place.                                                       *)
Mutate(r) ==
    /\ worker[r] = "running"
    /\ Len(journal[r]) < Len(plan.writes[r])
    /\ LET c == plan.writes[r][Len(journal[r]) + 1]
       IN  IF admitted < CursorMax - state.cursor
           THEN /\ admitted' = admitted + 1
                /\ journal' = [journal EXCEPT ![r] = Append(@, c)]
                /\ state' = Mutated(state, c, r, run)
                /\ UNCHANGED worker
           ELSE /\ worker' = [worker EXCEPT ![r] = "exhausted"]
                /\ UNCHANGED <<admitted, journal, state>>
    /\ UNCHANGED <<plan, phase, run, fault, next, passed, upTo, queue, verdict,
                   serial>>

(* It ends: as its fault says, wherever that hits it, or successfully.     *)
Finish(r) ==
    /\ worker[r] = "running"
    /\ IF fault.system[r] = "none"
       THEN /\ Len(journal[r]) = Len(plan.writes[r])
            /\ worker' = [worker EXCEPT ![r] = "success"]
       ELSE worker' = [worker EXCEPT ![r] = fault.system[r]]
    /\ UNCHANGED <<plan, phase, run, fault, next, passed, upTo, state, queue,
                   journal, admitted, verdict, serial>>

-----------------------------------------------------------------------------
JoinedJournal == Concatenation(journal, next, upTo)

(* Mutated: one buffer per cohort.                                         *)
JoinedBuffersLast ==
    LET recorded == plan.deferred \intersect Cohort
    IN  IF recorded = {} THEN <<>>
        ELSE <<<<run, CHOOSE r \in recorded : \A q \in recorded : q <= r>>>>

(* What each system appends to the pending buffers.                        *)
Buffer == [r \in Systems |-> IF r \in plan.deferred THEN <<<<run, r>>>> ELSE <<>>]

JoinedBuffers == Concatenation(Buffer, next, upTo)

(* Mutated: the highest-ranked failure is returned.                        *)
FirstIsLast(ranks) == CHOOSE r \in ranks : \A q \in ranks : r >= q

First(ranks) == CHOOSE r \in ranks : \A q \in ranks : r <= q

Failed(kinds) == {r \in Cohort : worker[r] \in kinds}

Joined == phase = "working" /\ \A r \in Cohort : worker[r] \in Over

(* A framework failure dominates; the journals are replayed only if every  *)
(* one of them is cursor exhaustion.                                       *)
ReconcileFramework ==
    /\ Joined
    /\ Failed(FrameworkFailures) # {}
    /\ state' = IF Failed({"violation"}) = {}
                THEN Replayed(state, JoinedJournal) ELSE state
    /\ LET r == First(Failed(FrameworkFailures)) IN EndRun(worker[r], r)
    /\ UNCHANGED <<plan, run, fault, next, passed, upTo, worker, journal,
                   admitted, serial>>

(* Mutated: after a user failure the journals are dropped.                 *)
ReconcileFailureForgets ==
    /\ Joined
    /\ Failed(FrameworkFailures) = {}
    /\ Failed(UserFailures) # {}
    /\ LET r == First(Failed(UserFailures)) IN EndRun(worker[r], r)
    /\ UNCHANGED <<plan, run, fault, next, passed, upTo, state, worker,
                   journal, admitted, serial>>

(* Otherwise they always are, also those of failed members; then the       *)
(* lowest-ranked user failure ends the run.                                *)
ReconcileFailure ==
    /\ Joined
    /\ Failed(FrameworkFailures) = {}
    /\ Failed(UserFailures) # {}
    /\ state' = Replayed(state, JoinedJournal)
    /\ LET r == First(Failed(UserFailures)) IN EndRun(worker[r], r)
    /\ UNCHANGED <<plan, run, fault, next, passed, upTo, worker, journal,
                   admitted, serial>>

ReconcileSuccess ==
    /\ Joined
    /\ Failed(FrameworkFailures \union UserFailures) = {}
    /\ state' = Replayed(state, JoinedJournal)
    /\ queue' = queue \o JoinedBuffers
    /\ next' = upTo
    /\ phase' = "boundary"
    /\ UNCHANGED <<plan, run, fault, passed, upTo, worker, journal, admitted,
                   verdict, serial>>

-----------------------------------------------------------------------------
(* Mutated: a failing buffer is skipped, those behind it are applied.      *)
ApplicableSkips ==
    LET Works(buffer) == buffer[2] \notin fault.command
    IN  SelectSeq(queue, Works)

(* The buffers ahead of the first that cannot be applied: it holds a       *)
(* failing command, or the cursor has no position left.                    *)
Applicable ==
    LET stops == {i \in DOMAIN queue : queue[i][2] \in fault.command
                                       \/ i > CursorMax - state.cursor}
    IN  IF stops = {} THEN queue
        ELSE SubSeq(queue, 1, (CHOOSE i \in stops : \A j \in stops : i <= j) - 1)

(* Publication stops at the first failure: what was applied stays, the     *)
(* rest is dropped and the callback does not run.                          *)
PublicationFails ==
    /\ phase = "boundary"
    /\ AtFrontier
    /\ Applicable # queue
    /\ state' = Published(state, Applicable)
    /\ LET r == queue[Len(Applicable) + 1][2]
       IN  EndRun(IF r \in fault.command THEN "command" ELSE "exhausted", r)
    /\ UNCHANGED <<plan, run, fault, next, passed, upTo, worker, journal,
                   admitted, serial>>

ReachFrontier ==
    /\ phase = "boundary"
    /\ AtFrontier
    /\ Applicable = queue
    /\ state' = CalledBack(Published(state, queue), next)
    /\ IF next \in fault.callback
       THEN EndRun("boundary", 0) /\ UNCHANGED passed
       ELSE /\ passed' = passed \union {next}
            /\ queue' = <<>>
            /\ UNCHANGED <<phase, verdict>>
    /\ UNCHANGED <<plan, run, fault, next, upTo, worker, journal, admitted,
                   serial>>

-----------------------------------------------------------------------------
(* What the invoking thread does within a run, and what a worker does.     *)
InvokerStep ==
    \/ Step \/ Complete \/ Invoke \/ Launch \/ ReconcileFramework
    \/ ReconcileFailure \/ ReconcileSuccess \/ PublicationFails
    \/ ReachFrontier

WorkerStep(r) == Begin(r) \/ Mutate(r) \/ Finish(r)

Next == StartRun \/ InvokerStep \/ \E r \in Systems : WorkerStep(r)

Spec == Init /\ [][Next]_vars

(* The invoking thread runs, and systems return: user code that never ends *)
(* blocks the serial executor as well.  Nobody has to start another run.   *)
AllRanks == UNION {Ranks(p) : p \in Plans}

FairSpec ==
    /\ Spec
    /\ WF_vars(InvokerStep)
    /\ \A r \in AllRanks : WF_vars(r \in Systems /\ WorkerStep(r))

-----------------------------------------------------------------------------
(* Whenever the invoking thread is between two cohorts of a run without    *)
(* failure, and when such a run ends, a frontier missed by its end         *)
(* included (the assertion there), the world is the one a serial run has   *)
(* there: component values, the position of each component's last change,  *)
(* the cursor, what has been published and called back, and what each      *)
(* system that has run observed, its change filters included.              *)
SameAsSerial ==
    (phase = "step" \/ (phase = "idle" /\ run > 0
                          /\ verdict.kind \in {"ok", "unreached"})) =>
        LET here == serial[next]
        IN  /\ state.value = here.value
            /\ state.changed = here.changed
            /\ state.cursor = here.cursor
            /\ state.applied = here.applied
            /\ state.callbacks = here.callbacks
            /\ \A r \in 0..(next - 1) : state.seen[r] = here.seen[r]

(* Two workers never run at the same time if one may write what the other  *)
(* accesses, or if one is declared to precede the other; an invoker-only   *)
(* system is never handed to a worker.                                     *)
NoRacingAccess ==
    \A q, r \in Systems :
        (phase = "working" /\ q < r /\ {worker[q], worker[r]} \subseteq Active) =>
            ~ Conflict(q, r) /\ <<q, r>> \notin plan.edges
            /\ {q, r} \intersect plan.invoker = {}

IsPrefixOf(a, b) == Len(a) <= Len(b) /\ SubSeq(b, 1, Len(a)) = a

(* However a run ends, the buffers it has published and the frontiers it   *)
(* has called back are the first ones of the serial run, in its order.     *)
PublishedPrefix ==
    /\ IsPrefixOf(state.applied, serial[plan.size].applied)
    /\ IsPrefixOf(state.callbacks, serial[plan.size].callbacks)

(* No buffer survives its run: none is published by a later run, and a     *)
(* successful run leaves none unpublished.                                 *)
BuffersSettled ==
    /\ phase = "idle" => queue = <<>>
    /\ \A i \in DOMAIN queue : queue[i][1] = run
    /\ (phase = "idle" /\ run > 0 /\ verdict.kind = "ok") =>
          \A r \in plan.deferred :
              \E i \in DOMAIN state.applied : state.applied[i] = <<run, r>>

(* The run that returns a system's own failure returns the one a serial    *)
(* run returns: nothing of lower rank fails.  A framework failure of any   *)
(* worker is returned instead, that of the lowest rank.                    *)
FailureSelection ==
    phase = "idle" =>
        LET framework == {r \in Systems : worker[r] \in FrameworkFailures}
        IN  /\ verdict.kind \in UserFailures =>
                  /\ framework = {}
                  /\ fault.system[verdict.rank] = verdict.kind
                  /\ \A q \in 0..(verdict.rank - 1) : fault.system[q] = "none"
            /\ framework # {} =>
                  /\ verdict.rank \in framework
                  /\ verdict.kind = worker[verdict.rank]
                  /\ \A q \in framework : verdict.rank <= q

JournalTotal == Len(Concatenation(journal, 0, plan.size))

(* Workers never mutate what the replay has no position for.  Whatever     *)
(* fails, unless the executor itself is violated: each component mutated   *)
(* in the run is marked changed in the run, and the cursor has moved by    *)
(* exactly the admitted mutations and the applied buffers.                 *)
TruthfulBookkeeping ==
    /\ phase = "working" => state.cursor + admitted <= CursorMax
    /\ (phase = "idle" /\ run > 0 /\ \A r \in Systems : worker[r] # "violation") =>
        /\ \A c \in Components :
              state.value[c][1] = run => state.changed[c] > serial[0].cursor
        /\ state.cursor = serial[0].cursor + JournalTotal
                           + Len(state.applied) - Len(serial[0].applied)

(* A run that has started ends, whatever its systems do.                   *)
RunsEnd == phase # "idle" ~> phase = "idle"

=============================================================================
