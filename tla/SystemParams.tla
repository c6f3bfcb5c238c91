---------------------------- MODULE SystemParams ----------------------------
(***************************************************************************)
(* From a system's signature to the references its body holds.  A system   *)
(* is registered or refused for what its parameters declare; it then runs  *)
(* alone over the world, or on a worker over a package of projections the  *)
(* invoker prepared parameter by parameter, beside other members of its    *)
(* cohort.  The body uses its parameters one after another and may keep    *)
(* what it was given until it ends.  The world's structure is frozen while *)
(* systems run, so it stands as constants.                                 *)
(***************************************************************************)
EXTENDS ParamAccess, FiniteSets

CONSTANTS
    Systems,     \* functions to be registered
    Types,       \* component types
    Catalogue,   \* for every system the signatures it may have
    Entities,    \* live entities
    Has,         \* the component types each of them has
    News,        \* <<filter kind, entity, type>> a query's baseline has not seen
    Stored       \* resources the world holds

\* Signatures are written with the framework's parameters and query shapes, over these types.
ASSUME CatalogueAssumption ==
    \A s \in Systems : \A ps \in Catalogue[s] :
        /\ Len(ps) \in Nat /\ DOMAIN ps = 1..Len(ps)
        /\ \A i \in DOMAIN ps : /\ ps[i].kind \in Kinds
                                /\ ps[i].kind = "query" => ps[i].form \in Forms(Types)

VARIABLES
    params,      \* the leaf parameters of every system
    mobile,      \* systems registered as transferable
    stage,       \* where each system stands
    at,          \* the parameter it prepares or uses next
    built,       \* the projections prepared for it
    cohort,      \* the members of the cohort in progress
    live,        \* references held by running bodies
    marks,       \* what bodies reported as changed
    answers      \* the entities a use of a query yielded

vars == <<params, mobile, stage, at, built, cohort, live, marks, answers>>

Stages == {"unregistered", "refused", "registered", "preparing", "prepared", "running",
           "done", "failed", "violated"}
Busy == {s \in Systems : stage[s] \in {"preparing", "prepared", "running"}}

Init ==
    /\ params = [s \in Systems |-> <<>>]
    /\ mobile = {}
    /\ stage = [s \in Systems |-> "unregistered"]
    /\ at = [s \in Systems |-> 1]
    /\ built = [s \in Systems |-> {}]
    /\ cohort = {}
    /\ live = {}
    /\ marks = {}
    /\ answers = {}

Register(s) ==
    /\ stage[s] = "unregistered"
    /\ \E ps \in Catalogue[s], transferable \in BOOLEAN :
        /\ transferable => Transferable(ps)
        /\ params' = [params EXCEPT ![s] = ps]
        /\ stage' = [stage EXCEPT ![s] = IF Admitted(ps, transferable) THEN "registered" ELSE "refused"]
        /\ mobile' = IF transferable THEN mobile \cup {s} ELSE mobile
    /\ UNCHANGED <<at, built, cohort, live, marks, answers>>

-----------------------------------------------------------------------------
(***************************************************************************)
(* Preparation.  A query whose rows can be projected whole gets one        *)
(* projection of its type; any other asks for membership, payloads and     *)
(* change metadata one component type at a time.                           *)
(***************************************************************************)
\* *Mutated*: the filter is overlooked.
ProjectedAnyway(p) == Spans(p.form)
Projected(p) == Spans(p.form) /\ Uniform(p.filter) /\ ~NeedsTicks(p.filter)

Missing(p) == p.kind \in {"res", "resMut"} /\ p.on \notin Stored

\* What a worker's package can hold.
Alive == <<"alive">>
Validation == <<"validation">>
Member(c) == <<"member", c>>
Metadata(c) == <<"metadata", c>>
Records(c) == <<"records", c>>
Span(p) == <<"span", p.form, p.filter>>
Payload(b) == <<"payload", b.key, b.mode>>

\* The component types a query shape prepares payloads of.
Carried(p) == {d.on : d \in ElementsOf(p.form.declares)}

\* *Mutated*: only the query's own types are prepared, not its filter's.
QueryAlone(p) ==
    IF Projected(p) THEN {Span(p)}
    ELSE {Alive} \cup {Member(c) : c \in ElementsOf(p.form.needs) \cup Carried(p)}
         \cup {Payload(b) : b \in ElementsOf(Borrows(p))}
         \cup {Metadata(c) : c \in Looked(p.filter)}
QueryPrepared(p) ==
    IF Projected(p) THEN {Span(p)}
    ELSE {Alive}
         \cup {Member(c) : c \in Required(p.form, p.filter) \cup Excluded(p.filter)
                                  \cup Carried(p) \cup Looked(p.filter)}
         \cup {Payload(b) : b \in ElementsOf(Borrows(p))}
         \cup {Metadata(c) : c \in Looked(p.filter)}
HandlePrepared(p) ==
    {Payload(b) : b \in ElementsOf(Borrows(p))}
    \cup IF p.kind \in {"relations", "relationsMut"} THEN {Alive, Validation} ELSE {}
Prepared(p) ==
    CASE p.kind = "query" -> QueryPrepared(p)
      [] p.kind = "removed" -> {Records(p.on)}
      [] p.kind \in {"res", "resMut", "relations", "relationsMut"} -> HandlePrepared(p)
      [] p.kind \in {"world", "commands", "localCommands"} -> {}

\* The builder refuses a payload both shared and exclusive.
Mixed(package) ==
    \E x \in package : /\ x[1] = "payload" /\ x[3] = "shared"
                       /\ Payload([key |-> x[2], mode |-> "exclusive"]) \in package

FormCohort(members) ==
    /\ Busy = {} /\ members # {}
    /\ \A s \in members : s \in mobile /\ stage[s] = "registered"
    /\ \A s, t \in members : s # t => ~Conflict(params[s], params[t])
    /\ cohort' = members
    /\ stage' = [s \in Systems |-> IF s \in members THEN "preparing" ELSE stage[s]]
    /\ UNCHANGED <<params, mobile, at, built, live, marks, answers>>

\* A member that cannot be prepared fails, and nobody is launched.
PreparationFails(s) ==
    /\ stage[s] = "preparing" /\ at[s] \in DOMAIN params[s] /\ Missing(params[s][at[s]])
    /\ stage' = [t \in Systems |-> IF t = s THEN "failed"
                                   ELSE IF t \in cohort THEN "registered" ELSE stage[t]]
    /\ at' = [t \in Systems |-> IF t \in cohort THEN 1 ELSE at[t]]
    /\ built' = [t \in Systems |-> IF t \in cohort THEN {} ELSE built[t]]
    /\ cohort' = {}
    /\ UNCHANGED <<params, mobile, live, marks, answers>>

Prepare(s) ==
    /\ stage[s] = "preparing" /\ at[s] \in DOMAIN params[s] /\ ~Missing(params[s][at[s]])
    /\ built' = [built EXCEPT ![s] = @ \cup Prepared(params[s][at[s]])]
    /\ at' = [at EXCEPT ![s] = @ + 1]
    /\ stage' = IF Mixed(built'[s]) THEN [stage EXCEPT ![s] = "violated"] ELSE stage
    /\ UNCHANGED <<params, mobile, cohort, live, marks, answers>>

FinishPreparation(s) ==
    /\ stage[s] = "preparing" /\ at[s] \notin DOMAIN params[s]
    /\ stage' = [stage EXCEPT ![s] = "prepared"]
    /\ UNCHANGED <<params, mobile, at, built, cohort, live, marks, answers>>

-----------------------------------------------------------------------------
(***************************************************************************)
(* Extraction: handles to resources, relations and the world are taken for *)
(* the whole invocation; a query borrows nothing yet.                      *)
(***************************************************************************)
Held(s, i, j, key, of, mode) ==
    [sys |-> s, param |-> i, term |-> j, key |-> key, of |-> of, mode |-> mode]
Singular == "whole"
Handles(s) ==
    {Held(s, i, 1, Borrows(params[s][i])[1].key, Singular, Borrows(params[s][i])[1].mode) :
        i \in {k \in DOMAIN params[s] : params[s][k].kind \in {"res", "resMut", "relations", "relationsMut"}}}
    \cup {Held(s, i, 1, Everything, Singular, "exclusive") : i \in WholeWorlds(params[s])}

RunSerially(s) ==
    /\ Busy = {} /\ stage[s] = "registered"
    /\ IF \E i \in DOMAIN params[s] : Missing(params[s][i])
       THEN stage' = [stage EXCEPT ![s] = "failed"] /\ UNCHANGED <<at, live>>
       ELSE /\ stage' = [stage EXCEPT ![s] = "running"]
            /\ at' = [at EXCEPT ![s] = 1]
            /\ live' = live \cup Handles(s)
    /\ UNCHANGED <<params, mobile, built, cohort, marks, answers>>

\* On a worker a handle is looked up in the package; what is not there is a framework panic.
HandlesPrepared(s) ==
    \A i \in DOMAIN params[s] :
        /\ params[s][i].kind \in {"res", "resMut", "relations", "relationsMut"} =>
               HandlePrepared(params[s][i]) \ {Alive} \subseteq built[s]
        /\ params[s][i].kind \notin {"world", "localCommands"}

Launch(s) ==
    /\ stage[s] = "prepared"
    /\ \A t \in cohort : stage[t] # "preparing"
    /\ IF HandlesPrepared(s)
       THEN /\ stage' = [stage EXCEPT ![s] = "running"]
            /\ at' = [at EXCEPT ![s] = 1]
            /\ live' = live \cup Handles(s)
       ELSE stage' = [stage EXCEPT ![s] = "violated"] /\ UNCHANGED <<at, live>>
    /\ UNCHANGED <<params, mobile, built, cohort, marks, answers>>

-----------------------------------------------------------------------------
(***************************************************************************)
(* Use of a query: iterating it, asking for the single match or for one    *)
(* entity.  Items come from rows where the capability has spans for the    *)
(* query (a serial one for iteration, a worker's if it was projected), and *)
(* from entities otherwise.                                                *)
(***************************************************************************)
OnSpans(s, p, via) ==
    Spans(p.form) /\ IF s \in cohort THEN Span(p) \in built[s] ELSE via = "iter"
Known(s) == IF s \in cohort /\ Alive \notin built[s] THEN {} ELSE Entities
Fits(p, e) == Required(p.form, p.filter) \subseteq Has[e] /\ Excluded(p.filter) \cap Has[e] = {}
Fresh(p, e) == \A a \in TickAtoms(p.filter) : <<a.is, e, a.on>> \in News

SpanRows(p, via) == {e \in Entities : Fits(p, e) /\ (via = "iter" => Fresh(p, e))}
Rows(s, p, via) ==
    IF OnSpans(s, p, via) THEN SpanRows(p, via)
    ELSE {e \in Known(s) : Fits(p, e) /\ Fresh(p, e)}

ItemsOf(s, p, via) == IF OnSpans(s, p, via) THEN RowItems(p.form) ELSE p.form.fetches

\* What a worker's package must hold for this use; a fetch also checks that its types differ.
PayloadReady(s, e, d) ==
    /\ Member(d.on) \in built[s]
    /\ d.on \in Has[e] =>
           \/ Payload(Borrow(Component(d.on), "exclusive")) \in built[s]
           \/ d.mode = "shared" /\ Payload(Borrow(Component(d.on), "shared")) \in built[s]
FilterReady(s, p) == \A c \in Looked(p.filter) : Member(c) \in built[s] /\ Metadata(c) \in built[s]
FetchReady(s, p, rows) ==
    /\ \A c \in Required(p.form, p.filter) \cup Excluded(p.filter) : Member(c) \in built[s]
    /\ \A e \in rows : \A d \in ElementsOf(p.form.fetches) : PayloadReady(s, e, d)
Served(s, p, via) ==
    /\ s \in cohort /\ (via = "iter" \/ ~OnSpans(s, p, via)) => FilterReady(s, p)
    /\ s \in cohort /\ ~OnSpans(s, p, via) => FetchReady(s, p, Rows(s, p, via))
    /\ ~OnSpans(s, p, via) /\ Rows(s, p, via) # {} => \A pair \in p.form.apart : pair[1] # pair[2]

Taken(s, i, via, given) ==
    LET items == ItemsOf(s, params[s][i], via) IN
    UNION {{Held(s, i, j, Component(items[j].on), e, items[j].mode) :
               j \in {k \in DOMAIN items : items[k].on \in Has[e]}} : e \in given}
MarkedBy(s, i, given) ==
    UNION {{<<s, i, Component(c), e>> : c \in params[s][i].form.marks \cap Has[e]} : e \in given}

Looking == {[via |-> v, at |-> Entities] : v \in {"iter", "single"}} \cup {[via |-> "get", at |-> {e}] : e \in Entities}

\* How much of the rows a look hands out: an iteration may be abandoned, a single match must be single.
Handed(look, rows) ==
    CASE look.via = "iter" -> SUBSET rows
      [] look.via = "single" -> {IF Cardinality(rows) = 1 THEN rows ELSE {}}
      [] look.via = "get" -> {rows \cap look.at}

UseQuery(s) ==
    /\ stage[s] = "running" /\ at[s] \in DOMAIN params[s] /\ params[s][at[s]].kind = "query"
    /\ \E look \in Looking :
        LET rows == Rows(s, params[s][at[s]], look.via) IN
        IF Served(s, params[s][at[s]], look.via)
        THEN \E given \in Handed(look, rows) :
                /\ live' = live \cup Taken(s, at[s], look.via, given)
                /\ marks' = marks \cup MarkedBy(s, at[s], given)
                /\ answers' = {[query |-> params[s][at[s]], at |-> look.at, rows |-> rows \cap look.at]}
                /\ at' = [at EXCEPT ![s] = @ + 1]
                /\ UNCHANGED stage
        ELSE stage' = [stage EXCEPT ![s] = "violated"] /\ UNCHANGED <<at, live, marks, answers>>
    /\ UNCHANGED <<params, mobile, built, cohort>>

\* Records of removals are copied out; on a worker they must have been prepared.
UseRemoved(s) ==
    /\ stage[s] = "running" /\ at[s] \in DOMAIN params[s] /\ params[s][at[s]].kind = "removed"
    /\ IF s \in cohort => Records(params[s][at[s]].on) \in built[s]
       THEN at' = [at EXCEPT ![s] = @ + 1] /\ UNCHANGED stage
       ELSE stage' = [stage EXCEPT ![s] = "violated"] /\ UNCHANGED at
    /\ UNCHANGED <<params, mobile, built, cohort, live, marks, answers>>

\* A handle is used; only a mutable look at a resource is reported, when it is taken.
UseHandle(s) ==
    /\ stage[s] = "running" /\ at[s] \in DOMAIN params[s]
    /\ params[s][at[s]].kind \notin {"query", "removed"}
    /\ \/ marks' = marks
       \/ params[s][at[s]].kind = "resMut" /\ marks' = marks \cup {<<s, at[s], Resource(params[s][at[s]].on), Singular>>}
    /\ at' = [at EXCEPT ![s] = @ + 1]
    /\ UNCHANGED <<params, mobile, stage, built, cohort, live, answers>>

\* The body returns, fails or unwinds, now or later: everything it held is dead.
Finish(s) ==
    /\ stage[s] = "running"
    /\ stage' = [stage EXCEPT ![s] = "done"]
    /\ live' = {r \in live : r.sys # s}
    /\ marks' = {m \in marks : m[1] # s}
    /\ cohort' = IF Busy = {s} THEN {} ELSE cohort
    /\ UNCHANGED <<params, mobile, at, built, answers>>

Next ==
    \/ \E members \in SUBSET Systems : FormCohort(members)
    \/ \E s \in Systems :
        \/ Register(s) \/ RunSerially(s)
        \/ Prepare(s) \/ PreparationFails(s) \/ FinishPreparation(s) \/ Launch(s)
        \/ UseQuery(s) \/ UseRemoved(s) \/ UseHandle(s) \/ Finish(s)

Spec == Init /\ [][Next]_vars

-----------------------------------------------------------------------------
(***************************************************************************)
(* The bodies that run never hold two references of which one is exclusive *)
(* to the same component of an entity, resource or relation, and nothing   *)
(* at all beside the whole world: neither two items of one query, nor two  *)
(* parameters of a system, nor two members of a cohort.                    *)
(***************************************************************************)
Overlap(r, q) == (r.key = q.key /\ r.of = q.of) \/ Everything \in {r.key, q.key}
NoAliasing ==
    \A r, q \in live : r # q /\ Overlap(r, q) => r.mode = "shared" /\ q.mode = "shared"

(***************************************************************************)
(* What the invoker prepared is enough for everything the body may ask its *)
(* parameters, and preparing never asks for a payload both ways: the       *)
(* framework panics that guard the projections are unreachable.            *)
(***************************************************************************)
PreparationSuffices == \A s \in Systems : stage[s] # "violated"

(***************************************************************************)
(* A query answers for the same entities by iteration, single and get, on  *)
(* spans and on entities, over the world and over a worker's package.      *)
(***************************************************************************)
SameAnswers ==
    \A a \in answers : a.rows = {e \in a.at : Fits(a.query, e) /\ Fresh(a.query, e)}

(***************************************************************************)
(* A body's marks are exactly the component values it was given to change. *)
(***************************************************************************)
MarksExact ==
    {m \in marks : m[3][1] = "component"}
    = {<<r.sys, r.param, r.key, r.of>> : r \in {q \in live : q.mode = "exclusive" /\ q.key[1] = "component"}}
=============================================================================
