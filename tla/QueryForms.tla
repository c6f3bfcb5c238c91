----------------------------- MODULE QueryForms -----------------------------
(***************************************************************************)
(* The query shapes a system or a program can write, as the data their     *)
(* implementations hand to the rest of the crate.  Nothing relates the     *)
(* methods of one shape but the care of whoever wrote them: what it says   *)
(* it borrows, what it reads off an entity, what it reads off a row of an  *)
(* archetype, what it marks and what it asks of a worker's projection are  *)
(* separate functions, once per shape.  They stand side by side here.      *)
(***************************************************************************)
EXTENDS Naturals, Sequences, FiniteSets

Read(c) == [on |-> c, mode |-> "shared", must |-> TRUE]
Write(c) == [on |-> c, mode |-> "exclusive", must |-> TRUE]
MayRead(c) == [on |-> c, mode |-> "shared", must |-> FALSE]
MayWrite(c) == [on |-> c, mode |-> "exclusive", must |-> FALSE]

(***************************************************************************)
(* needs: the component types an entity must have, in the order of the     *)
(* columns of an archetype span.  declares: the borrows it reports.        *)
(* fetches: what it takes from an entity, in its order; an entity without  *)
(* a component it must take yields no item.  apart: pairs of types that    *)
(* must differ or the fetch panics.  marks: what it reports as changed.    *)
(* rows: what it takes from a row, by column; a shape with none is not     *)
(* iterated over spans.  segments: whether it has contiguous segments.     *)
(***************************************************************************)
Form(name, needs, declares, fetches, apart, marks, rows, segments) ==
    [name |-> name, needs |-> needs, declares |-> declares, fetches |-> fetches, apart |-> apart,
     marks |-> marks, rows |-> rows, segments |-> segments]

Ref(T) == Form("&T", <<T>>, <<Read(T)>>, <<Read(T)>>, {}, {}, <<Read(1)>>, TRUE)

Mut(T) == Form("&mut T", <<T>>, <<Write(T)>>, <<Write(T)>>, {}, {T}, <<Write(1)>>, TRUE)

EntityRef(T) == Form("(Entity, &T)", <<T>>, <<Read(T)>>, <<Read(T)>>, {}, {}, <<Read(1)>>, TRUE)

EntityMut(T) == Form("(Entity, &mut T)", <<T>>, <<Write(T)>>, <<Write(T)>>, {}, {T}, <<>>, TRUE)

RefRef(A, B) == Form("(&A, &B)", <<A, B>>, <<Read(A), Read(B)>>, <<Read(A), Read(B)>>,
                     {}, {}, <<Read(1), Read(2)>>, TRUE)

MutRef(A, B) == Form("(&mut A, &B)", <<A, B>>, <<Write(A), Read(B)>>, <<Read(B), Write(A)>>,
                     {<<A, B>>}, {A}, <<Write(1), Read(2)>>, TRUE)

\* *Mutated*: the shared side is reported.
RefMutSwapped(A, B) == Form("(&A, &mut B)", <<A, B>>, <<Read(A), Write(B)>>, <<Read(A), Write(B)>>,
                            {<<A, B>>}, {A}, <<>>, TRUE)
RefMut(A, B) == Form("(&A, &mut B)", <<A, B>>, <<Read(A), Write(B)>>, <<Read(A), Write(B)>>,
                     {<<A, B>>}, {B}, <<>>, TRUE)

MutMut(A, B) == Form("(&mut A, &mut B)", <<A, B>>, <<Write(A), Write(B)>>, <<Write(A), Write(B)>>,
                     {<<A, B>>}, {A, B}, <<Write(1), Write(2)>>, TRUE)

OptRef(T) == Form("Option<&T>", <<>>, <<Read(T)>>, <<MayRead(T)>>, {}, {}, <<>>, FALSE)

OptMut(T) == Form("Option<&mut T>", <<>>, <<Write(T)>>, <<MayWrite(T)>>, {}, {T}, <<>>, FALSE)

MutOptRef(A, B) == Form("(&mut A, Option<&B>)", <<A>>, <<Write(A), Read(B)>>,
                        <<MayRead(B), Write(A)>>, {<<A, B>>}, {A}, <<>>, FALSE)

RefOptRef(A, B) == Form("(&A, Option<&B>)", <<A>>, <<Read(A), Read(B)>>,
                        <<Read(A), MayRead(B)>>, {}, {}, <<>>, FALSE)

RefOptMut(A, B) == Form("(&A, Option<&mut B>)", <<A>>, <<Read(A), Write(B)>>,
                        <<Read(A), MayWrite(B)>>, {<<A, B>>}, {B}, <<>>, FALSE)

MutOptMut(A, B) == Form("(&mut A, Option<&mut B>)", <<A>>, <<Write(A), Write(B)>>,
                        <<MayWrite(B), Write(A)>>, {<<A, B>>}, {A, B}, <<>>, FALSE)

EntityOptRef(T) == Form("(Entity, Option<&T>)", <<>>, <<Read(T)>>, <<MayRead(T)>>,
                        {}, {}, <<>>, FALSE)

RefRefRef(A, B, C) == Form("(&A, &B, &C)", <<A, B, C>>, <<Read(A), Read(B), Read(C)>>,
                           <<Read(A), Read(B), Read(C)>>, {}, {},
                           <<Read(1), Read(2), Read(3)>>, FALSE)

MutRefRef(A, B, C) == Form("(&mut A, &B, &C)", <<A, B, C>>, <<Write(A), Read(B), Read(C)>>,
                           <<Read(B), Read(C), Write(A)>>, {<<A, B>>, <<A, C>>}, {A}, <<>>, FALSE)

MutMutRef(A, B, C) == Form("(&mut A, &mut B, &C)", <<A, B, C>>, <<Write(A), Write(B), Read(C)>>,
                           <<Read(C), Write(A), Write(B)>>, {<<A, B>>, <<A, C>>, <<B, C>>},
                           {A, B}, <<>>, FALSE)

\* Every shape over component types CS.
OnOne(T) == {Ref(T), Mut(T), EntityRef(T), EntityMut(T), OptRef(T), OptMut(T), EntityOptRef(T)}
OnTwo(A, B) == {RefRef(A, B), MutRef(A, B), RefMut(A, B), MutMut(A, B),
                MutOptRef(A, B), RefOptRef(A, B), RefOptMut(A, B), MutOptMut(A, B)}
OnThree(A, B, C) == {RefRefRef(A, B, C), MutRefRef(A, B, C), MutMutRef(A, B, C)}
FormsOn(A, B, CS) == OnTwo(A, B) \cup UNION {OnThree(A, B, C) : C \in CS}
Forms(CS) == UNION {OnOne(A) \cup UNION {FormsOn(A, B, CS) : B \in CS} : A \in CS}

-----------------------------------------------------------------------------
(***************************************************************************)
(* Filters: a tuple of atoms, each of them one of four.                    *)
(***************************************************************************)
With(T) == [is |-> "with", on |-> T]
Without(T) == [is |-> "without", on |-> T]
Changed(T) == [is |-> "changed", on |-> T]
Added(T) == [is |-> "added", on |-> T]
Atoms(CS) == {With(a) : a \in CS} \cup {Without(a) : a \in CS}
             \cup {Changed(a) : a \in CS} \cup {Added(a) : a \in CS}

ElementsOf(seq) == {seq[i] : i \in DOMAIN seq}
TickAtoms(filter) == {a \in ElementsOf(filter) : a.is \in {"changed", "added"}}
NeedsTicks(filter) == TickAtoms(filter) # {}
Uniform(filter) == \A a \in ElementsOf(filter) : a.is \in {"with", "without"}
Looked(filter) == {a.on : a \in TickAtoms(filter)}

\* What a query state requires of an entity and what it excludes, the filter included.
Required(form, filter) ==
    ElementsOf(form.needs) \cup {a.on : a \in {b \in ElementsOf(filter) : b.is # "without"}}
Excluded(filter) == {a.on : a \in {b \in ElementsOf(filter) : b.is = "without"}}

\* The ways to use a query: all its matches, the only one, or that of one entity.
Ways(entities) == {"all", "only"} \cup entities
YieldOf(way, S) == {e \in S : way = "all" \/ way = e \/ (way = "only" /\ Cardinality(S) = 1)}

Spans(form) == form.rows # <<>>
\* A row's items as those of an entity.
RowItems(form) ==
    [j \in DOMAIN form.rows |->
        [on |-> form.needs[form.rows[j].on], mode |-> form.rows[j].mode, must |-> form.rows[j].must]]
=============================================================================
