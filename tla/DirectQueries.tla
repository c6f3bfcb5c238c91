----------------------------- MODULE DirectQueries -----------------------------
(***************************************************************************)
(* Query states the program keeps and uses with its worlds directly, with  *)
(* no system around: query/traits_and_state.rs, query/contiguous.rs and    *)
(* the serial half of world/capability.rs.  A state remembers the world it *)
(* was used with and the position of the change cursor at that use.  What  *)
(* is handed out for writing is marked first, one value at a time, each at *)
(* a cursor position of its own, until the cursor is exhausted.            *)
(*                                                                         *)
(* A shared look only reads and is one step: while its results live, the   *)
(* compiler lets nothing change the world.  A mutable one borrows the      *)
(* world until it is closed; the state itself stays free for other worlds. *)
(* Entities live throughout; one without components is not seen.           *)
(***************************************************************************)
EXTENDS QueryForms

CONSTANTS
    Worlds,
    Entities,
    Types,
    States,     \* query states the program keeps
    Start,      \* what the worlds hold when the first state is made
    Catalogue,  \* what the states may ask for
    Reach,      \* the worlds the program uses a state with
    ClockMax    \* last position of the cursor of every world

ASSUME DirectAssumption ==
    /\ Reach \in [States -> SUBSET Worlds]
    /\ Start \in [Worlds -> [Entities -> SUBSET Types]]
    /\ ClockMax \in [Worlds -> Nat]
    /\ \A w \in Worlds :
          Cardinality({c \in Entities \X Types : c[2] \in Start[w][c[1]]}) <= ClockMax[w]
    /\ IsFiniteSet(Entities) /\ Entities # {} /\ IsFiniteSet(Types)
    /\ \A asked \in Catalogue : \A q \in States :
          asked[q].form \in Forms(Types) /\ asked[q].filter \in Seq(Atoms(Types))

VARIABLES
    has,        \* archetypes: the component types of every entity
    clock,      \* change_tick of every world
    added, changed,     \* ticks of every value; Never where there is none
    typeMark,   \* component_change_ticks
    asks,       \* the query of every state
    home, last, \* world_scope and last_run_tick
    loan,       \* the mutable borrow of every world
    marking,    \* record_mutations and mark_changed in progress
    answer      \* what the last call gave

vars == <<has, clock, added, changed, typeMark, asks, home, last, loan, marking, answer>>

Never == 0
Origin == 0
Cells == Entities \X Types
Present(w) == {c \in Cells : c[2] \in has[w][c[1]]}

\* A loan: its state, the rows it holds, those an iterator has still to come to, the segments
\* there are instead, and of them those whose mutations are recorded.
Lent(q, rows, ahead, segments) ==
    [by |-> q, rows |-> rows, ahead |-> ahead, segments |-> segments, recorded |-> {}]
Closed == Lent("nobody", {}, {}, {})
Resting == [in |-> "nowhere", cells |-> {}, piece |-> {}, exposes |-> {}]

\* Values inserted one after the other.
Ages(cells) == CHOOSE f \in [cells -> 1..Cardinality(cells)] :
                   \A c, d \in cells : f[c] = f[d] => c = d

LatestOf(w, t) == CHOOSE n \in {changed[w][<<e, t>>] : e \in Entities} :
                      \A e \in Entities : changed[w][<<e, t>>] <= n

Init ==
    /\ has = Start
    /\ clock = [w \in Worlds |-> Cardinality(Present(w))]
    /\ changed = [w \in Worlds |->
                     [c \in Cells |-> IF c \in Present(w) THEN Ages(Present(w))[c] ELSE Never]]
    /\ added = changed
    /\ typeMark = [w \in Worlds |-> [t \in Types |-> LatestOf(w, t)]]
    /\ asks \in Catalogue
    /\ home \in {f \in [States -> Worlds] : \A q \in States : f[q] \in Reach[q]}
    /\ last = [q \in States |-> Origin]
    /\ loan = [w \in Worlds |-> Closed]
    /\ marking = Resting
    /\ answer = [is |-> "none"]

-----------------------------------------------------------------------------
(***************************************************************************)
(* The world outside queries.  Every change takes the next position, or    *)
(* panics when there is none; a removal has left the storage by then.      *)
(***************************************************************************)
Free(w) == marking = Resting /\ loan[w] = Closed
Advance(w) == clock[w] < ClockMax[w] /\ clock' = [clock EXCEPT ![w] = @ + 1]
MarkType(w, t) == typeMark' = [typeMark EXCEPT ![w][t] = clock'[w]]
queryVars == <<asks, home, last, loan, marking>>
Silent == answer' = [is |-> "none"]

Insert(w, e, t) ==
    /\ Free(w) /\ t \notin has[w][e]
    /\ Advance(w) /\ MarkType(w, t)
    /\ has' = [has EXCEPT ![w][e] = @ \cup {t}]
    /\ added' = [added EXCEPT ![w][<<e, t>>] = clock'[w]]
    /\ changed' = [changed EXCEPT ![w][<<e, t>>] = clock'[w]]
    /\ Silent
    /\ UNCHANGED queryVars

Change(w, e, t) ==
    /\ Free(w) /\ t \in has[w][e]
    /\ Advance(w) /\ MarkType(w, t)
    /\ changed' = [changed EXCEPT ![w][<<e, t>>] = clock'[w]]
    /\ answer' = [is |-> "exposed", of |-> {<<e, t>>}]
    /\ UNCHANGED <<has, added, queryVars>>

Remove(w, e, t) ==
    /\ Free(w) /\ t \in has[w][e]
    /\ has' = [has EXCEPT ![w][e] = @ \ {t}]
    /\ added' = [added EXCEPT ![w][<<e, t>>] = Never]
    /\ changed' = [changed EXCEPT ![w][<<e, t>>] = Never]
    /\ \/ Advance(w) /\ MarkType(w, t)
       \/ clock[w] = ClockMax[w] /\ UNCHANGED <<clock, typeMark>>
    /\ Silent
    /\ UNCHANGED queryVars

-----------------------------------------------------------------------------
(***************************************************************************)
(* What a state selects.  Its baseline is its last use with this world.    *)
(***************************************************************************)
\* *Mutated*: the baseline is kept for another world.
BaselineKept(q, w) == last[q]
Baseline(q, w) == IF home[q] = w THEN last[q] ELSE Origin

Fits(q, w, e) == /\ Required(asks[q].form, asks[q].filter) \subseteq has[w][e]
                 /\ Excluded(asks[q].filter) \cap has[w][e] = {}
Fresh(q, w, e) ==
    \A a \in TickAtoms(asks[q].filter) :
        Baseline(q, w) < IF a.is = "added" THEN added[w][<<e, a.on>>] ELSE changed[w][<<e, a.on>>]
Selected(q, w) == {e \in Entities : Fits(q, w, e) /\ Fresh(q, w, e)}

\* The state is bound to the world, and its baseline is the position before anything is marked.
Bind(q, w) ==
    /\ home' = [home EXCEPT ![q] = w]
    /\ last' = [last EXCEPT ![q] = clock[w]]

Marks(q, w, e) == {<<e, t>> : t \in asks[q].form.marks \cap has[w][e]}
Mutable(q) == asks[q].form.marks # {}
worldVars == <<has, clock, added, changed, typeMark>>

\* iter, get and single on a query that only reads.
Look(q, w, way) ==
    /\ Free(w) /\ ~Mutable(q)
    /\ Bind(q, w)
    /\ answer' = [is |-> "selected", way |-> way, of |-> YieldOf(way, Selected(q, w))]
    /\ UNCHANGED <<worldVars, asks, loan, marking>>

Iterate(q, w) ==
    /\ Free(w) /\ Mutable(q)
    /\ Bind(q, w)
    /\ loan' = [loan EXCEPT ![w] = Lent(q, Selected(q, w), Selected(q, w), {})]
    /\ answer' = [is |-> "lent", way |-> "all"]
    /\ UNCHANGED <<worldVars, asks, marking>>

\* get and single hand out their one row at once; none, and nothing is lent.
Take(q, w, way) ==
    LET rows == YieldOf(way, Selected(q, w))
        cells == UNION {Marks(q, w, e) : e \in rows}
    IN
    /\ Free(w) /\ Mutable(q)
    /\ Bind(q, w)
    /\ IF rows = {} THEN UNCHANGED <<loan, marking>>
       ELSE /\ loan' = [loan EXCEPT ![w] = Lent(q, rows, {}, {})]
            /\ marking' = [in |-> w, cells |-> cells, piece |-> {}, exposes |-> cells]
    /\ answer' = [is |-> "lent", way |-> way]
    /\ UNCHANGED <<worldVars, asks>>

-----------------------------------------------------------------------------
(***************************************************************************)
(* Rows of an iteration and segments of archetypes are handed out in any   *)
(* order, or not at all.                                                   *)
(***************************************************************************)
NextRow(w, e) ==
    /\ marking = Resting /\ e \in loan[w].ahead
    /\ loan' = [loan EXCEPT ![w].ahead = @ \ {e}]
    /\ marking' = [in |-> w, cells |-> Marks(loan[w].by, w, e), piece |-> {},
                   exposes |-> Marks(loan[w].by, w, e)]
    /\ Silent
    /\ UNCHANGED <<worldVars, asks, home, last>>

Segmented(q) ==
    /\ asks[q].form.segments /\ Uniform(asks[q].filter)
    /\ Cardinality(ElementsOf(asks[q].form.needs)) = Len(asks[q].form.needs)

SegmentsRefused(q, w) ==
    /\ Free(w) /\ ~Segmented(q)
    /\ answer' = [is |-> "refused"]
    /\ UNCHANGED <<worldVars, queryVars>>

\* One segment for every archetype: the fitting entities with the same components.
Segments(q, w) ==
    LET rows == {e \in Entities : Fits(q, w, e)} IN
    {{e \in rows : has[w][e] = has[w][f]} : f \in rows}

LookSegments(q, w) ==
    /\ Free(w) /\ Segmented(q) /\ ~Mutable(q)
    /\ Bind(q, w)
    /\ answer' = [is |-> "selected", way |-> "all", of |-> UNION Segments(q, w)]
    /\ UNCHANGED <<worldVars, asks, loan, marking>>

OpenSegments(q, w) ==
    /\ Free(w) /\ Segmented(q) /\ Mutable(q)
    /\ Bind(q, w)
    /\ loan' = [loan EXCEPT ![w] = Lent(q, UNION Segments(q, w), {}, Segments(q, w))]
    /\ answer' = [is |-> "lent", way |-> "all"]
    /\ UNCHANGED <<worldVars, asks, marking>>

\* The columns a segment may hand out for writing, and what that records.
Columns(q) == {d.on : d \in {b \in ElementsOf(asks[q].form.declares) : b.mode = "exclusive"}}

\* *Mutated*: only the columns asked for are recorded, and the segment then counts as recorded.
ToRecordAsked(w, piece, ts) == piece \X ts
ToRecord(w, piece, ts) == piece \X Columns(loan[w].by)

ExposeColumns(w, piece, ts) ==
    /\ marking = Resting /\ piece \in loan[w].segments
    /\ ts # {} /\ ts \subseteq Columns(loan[w].by)
    /\ marking' = [in |-> w, piece |-> piece, exposes |-> piece \X ts,
                   cells |-> IF piece \in loan[w].recorded THEN {} ELSE ToRecord(w, piece, ts)]
    /\ Silent
    /\ UNCHANGED <<worldVars, asks, home, last, loan>>

\* *Mutated*: the type's mark stays where the first row put it.
MarkOneRowOnly(c) ==
    /\ c \in marking.cells
    /\ Advance(marking.in)
    /\ typeMark' = [typeMark EXCEPT ![marking.in][c[2]] =
                       IF changed[marking.in][c] = @ THEN clock'[marking.in] ELSE @]
    /\ changed' = [changed EXCEPT ![marking.in][c] = clock'[marking.in]]
    /\ marking' = [marking EXCEPT !.cells = @ \ {c}]
    /\ Silent
    /\ UNCHANGED <<has, added, asks, home, last, loan>>
MarkOne(c) ==
    /\ c \in marking.cells
    /\ Advance(marking.in) /\ MarkType(marking.in, c[2])
    /\ changed' = [changed EXCEPT ![marking.in][c] = clock'[marking.in]]
    /\ marking' = [marking EXCEPT !.cells = @ \ {c}]
    /\ Silent
    /\ UNCHANGED <<has, added, asks, home, last, loan>>

\* The cursor is exhausted: the call unwinds with part of its marks made, and hands out nothing.
MarkPanics ==
    /\ marking.cells # {} /\ clock[marking.in] = ClockMax[marking.in]
    /\ marking' = Resting
    /\ answer' = [is |-> "panicked"]
    /\ UNCHANGED <<worldVars, asks, home, last, loan>>

HandOut ==
    /\ marking # Resting /\ marking.cells = {}
    /\ loan' = IF marking.piece = {} THEN loan
               ELSE [loan EXCEPT ![marking.in].recorded = @ \cup {marking.piece}]
    /\ answer' = IF marking.exposes = {} THEN [is |-> "none"] ELSE [is |-> "exposed", of |-> marking.exposes]
    /\ marking' = Resting
    /\ UNCHANGED <<worldVars, asks, home, last>>

Close(w) ==
    /\ marking = Resting /\ loan[w] # Closed
    /\ loan' = [loan EXCEPT ![w] = Closed]
    /\ Silent
    /\ UNCHANGED <<worldVars, asks, home, last, marking>>

Next ==
    \/ \E w \in Worlds :
        \/ \E e \in Entities, t \in Types : Insert(w, e, t) \/ Change(w, e, t) \/ Remove(w, e, t)
        \/ \E q \in {r \in States : w \in Reach[r]} :
            \/ \E way \in Ways(Entities) : Look(q, w, way)
            \/ \E way \in Ways(Entities) \ {"all"} : Take(q, w, way)
            \/ Iterate(q, w) \/ SegmentsRefused(q, w) \/ LookSegments(q, w) \/ OpenSegments(q, w)
        \/ \E e \in Entities : NextRow(w, e)
        \/ \E piece \in SUBSET Entities, ts \in SUBSET Types : ExposeColumns(w, piece, ts)
        \/ Close(w)
    \/ \E c \in Cells : MarkOne(c)
    \/ MarkPanics \/ HandOut

Spec == Init /\ [][Next]_vars

-----------------------------------------------------------------------------
(* What a step relies on.                                                  *)
DirectTypeOK ==
    /\ has \in [Worlds -> [Entities -> SUBSET Types]]
    /\ clock \in [Worlds -> Nat] /\ typeMark \in [Worlds -> [Types -> Nat]]
    /\ added \in [Worlds -> [Cells -> Nat]] /\ changed \in [Worlds -> [Cells -> Nat]]
    /\ asks \in Catalogue /\ home \in [States -> Worlds] /\ last \in [States -> Nat]
    /\ loan \in [Worlds -> [by : States \cup {"nobody"}, rows : SUBSET Entities,
                            ahead : SUBSET Entities, segments : SUBSET SUBSET Entities,
                            recorded : SUBSET SUBSET Entities]]
    /\ marking \in [in : Worlds \cup {"nowhere"}, cells : SUBSET Cells,
                    piece : SUBSET Entities, exposes : SUBSET Cells]

\* A value's ticks are in the order of what happened to it, and no mark is ahead of the clock.
InOrder ==
    /\ \A w \in Worlds : \A c \in Cells :
          /\ added[w][c] <= changed[w][c] /\ changed[w][c] <= typeMark[w][c[2]]
          /\ IF c \in Present(w) THEN Never < added[w][c] ELSE changed[w][c] = Never
    /\ \A w \in Worlds : \A t \in Types : typeMark[w][t] <= clock[w]
    /\ \A q \in States : last[q] <= clock[home[q]]

\* Every state of the world has news of the value.
Known(w, c) == \A q \in States : home[q] = w => last[q] < changed[w][c]

Lending ==
    \A w \in Worlds :
        /\ loan[w].ahead \subseteq loan[w].rows
        /\ \A piece \in loan[w].segments :
              /\ piece # {} /\ piece \subseteq loan[w].rows
              /\ \A e \in piece : Columns(loan[w].by) \subseteq has[w][e]
        /\ \A piece \in loan[w].recorded :
              \A c \in piece \X Columns(loan[w].by) : c \in Present(w) /\ Known(w, c)

\* What is to be exposed is lent, and known or still to be marked; so is the rest of a segment.
MarkingSound ==
    \/ marking = Resting
    \/ /\ marking.in \in Worlds
       /\ \A c \in marking.cells \cup marking.exposes :
             c \in Present(marking.in) /\ c[1] \in loan[marking.in].rows
       /\ \A c \in marking.exposes : c \in marking.cells \/ Known(marking.in, c)
       /\ marking.piece # {} =>
             \A c \in marking.piece \X Columns(loan[marking.in].by) :
                 c \in Present(marking.in) /\ (c \in marking.cells \/ Known(marking.in, c))

DirectInductive == DirectTypeOK /\ InOrder /\ Lending /\ MarkingSound

-----------------------------------------------------------------------------
(***************************************************************************)
(* component_changed_since never denies a change: the mark of a type is    *)
(* not behind a value of it, nor ahead of the cursor, also in the middle   *)
(* of a recording and after one that ran out of positions.                 *)
(***************************************************************************)
TypeMarksCoverRows ==
    \A w \in Worlds : \A t \in Types :
        /\ typeMark[w][t] <= clock[w]
        /\ \A e \in Entities : changed[w][<<e, t>>] <= typeMark[w][t]

(***************************************************************************)
(* States have news, as Observers says: no change is missed and none told  *)
(* twice however states move between worlds and uses, a use that marks     *)
(* included, and nothing is handed out for writing that some state of its  *)
(* world would not hear of.                                                *)
(***************************************************************************)
NewsIn(q) ==
    {<<"changed", c[1], c[2]>> : c \in {d \in Cells : changed[home[q]][d] > last[q]}}
    \cup {<<"added", c[1], c[2]>> : c \in {d \in Cells : added[home[q]][d] > last[q]}}
Seen == INSTANCE Observers
    WITH news <- [q \in States |-> NewsIn(q)], lent <- [w \in Worlds |-> loan[w].rows]
ImplementsObservers == Seen!ObserversSpec
=============================================================================
