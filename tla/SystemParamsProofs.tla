------------------------- MODULE SystemParamsProofs -------------------------
(***************************************************************************)
(* Proofs about SystemParams: whatever signatures the systems have, over   *)
(* however many component types, entities and systems.                     *)
(***************************************************************************)
EXTENDS SystemParams, TLAPS

(***************************************************************************)
(* What every query shape owes its users, of the items it takes from an    *)
(* entity and of those it takes from a row.                                *)
(***************************************************************************)
Covered(items, form) ==
    \A j \in DOMAIN items : \E d \in DOMAIN form.declares :
        form.declares[d].on = items[j].on /\ form.declares[d].mode = items[j].mode
Harmless(items) ==
    \A j, k \in DOMAIN items :
        j # k /\ items[j].on = items[k].on => items[j].mode = "shared" /\ items[k].mode = "shared"
Reported(items, form) ==
    /\ \A j \in DOMAIN items : items[j].mode = "exclusive" => items[j].on \in form.marks
    /\ \A c \in form.marks : \E j \in DOMAIN items : items[j].on = c /\ items[j].mode = "exclusive"
SoundItems(items, form) ==
    /\ Covered(items, form)
    /\ Harmless(form.declares) => Harmless(items)
    /\ Reported(items, form)
Modes == {"shared", "exclusive"}
Sound(form) ==
    /\ SoundItems(form.fetches, form)
    /\ Spans(form) => SoundItems(RowItems(form), form)
    /\ Harmless(form.declares) => \A pair \in form.apart : pair[1] # pair[2]
    /\ \A j \in DOMAIN form.declares : form.declares[j].mode \in Modes

(* A row's items are those declared, column by column. *)
RowsDeclared(form) ==
    /\ DOMAIN form.rows = DOMAIN form.declares
    /\ \A j \in DOMAIN form.rows :
        form.needs[form.rows[j].on] = form.declares[j].on /\ form.rows[j].mode = form.declares[j].mode

LEMMA RowsSound ==
    ASSUME NEW form, RowsDeclared(form), Reported(form.declares, form)
    PROVE  SoundItems(RowItems(form), form)
<1>1. /\ DOMAIN RowItems(form) = DOMAIN form.declares
      /\ \A j \in DOMAIN RowItems(form) :
            RowItems(form)[j].on = form.declares[j].on /\ RowItems(form)[j].mode = form.declares[j].mode
  BY DEF RowItems, RowsDeclared
<1> QED
  BY <1>1 DEF SoundItems, Covered, Harmless, Reported

LEMMA RefSound ==
    ASSUME NEW T PROVE Sound(Ref(T))
<1> DEFINE q == Ref(T)
<1>1. Covered(q.fetches, q) /\ Reported(q.fetches, q)
  BY DEF Covered, Reported, Ref, Form, Read, Write, MayRead, MayWrite
<1>2. Harmless(q.declares) => Harmless(q.fetches) /\ \A pair \in q.apart : pair[1] # pair[2]
  BY DEF Harmless, Ref, Form, Read, Write, MayRead, MayWrite
<1>3. \A j \in DOMAIN q.declares : q.declares[j].mode \in Modes
  BY DEF Modes, Ref, Form, Read, Write, MayRead, MayWrite
<1>4. q.needs = <<T>> /\ q.rows = <<Read(1)>>
  BY DEF Ref, Form
<1>5. q.declares = <<Read(T)>> /\ q.marks = {}
  BY DEF Ref, Form
<1> HIDE DEF q
<1>6. RowsDeclared(q)
  BY <1>4, <1>5 DEF RowsDeclared, Read, Write
<1>7. Reported(q.declares, q)
  BY <1>5 DEF Reported, Read, Write
<1>8. Sound(q)
  BY <1>1, <1>2, <1>3, <1>6, <1>7, RowsSound DEF Sound, SoundItems
<1> QED
  BY <1>8 DEF q

LEMMA MutSound ==
    ASSUME NEW T PROVE Sound(Mut(T))
<1> DEFINE q == Mut(T)
<1>1. Covered(q.fetches, q) /\ Reported(q.fetches, q)
  BY DEF Covered, Reported, Mut, Form, Read, Write, MayRead, MayWrite
<1>2. Harmless(q.declares) => Harmless(q.fetches) /\ \A pair \in q.apart : pair[1] # pair[2]
  BY DEF Harmless, Mut, Form, Read, Write, MayRead, MayWrite
<1>3. \A j \in DOMAIN q.declares : q.declares[j].mode \in Modes
  BY DEF Modes, Mut, Form, Read, Write, MayRead, MayWrite
<1>4. q.needs = <<T>> /\ q.rows = <<Write(1)>>
  BY DEF Mut, Form
<1>5. q.declares = <<Write(T)>> /\ q.marks = {T}
  BY DEF Mut, Form
<1> HIDE DEF q
<1>6. RowsDeclared(q)
  BY <1>4, <1>5 DEF RowsDeclared, Read, Write
<1>7. Reported(q.declares, q)
  BY <1>5 DEF Reported, Read, Write
<1>8. Sound(q)
  BY <1>1, <1>2, <1>3, <1>6, <1>7, RowsSound DEF Sound, SoundItems
<1> QED
  BY <1>8 DEF q

LEMMA EntityRefSound ==
    ASSUME NEW T PROVE Sound(EntityRef(T))
<1> DEFINE q == EntityRef(T)
<1>1. Covered(q.fetches, q) /\ Reported(q.fetches, q)
  BY DEF Covered, Reported, EntityRef, Form, Read, Write, MayRead, MayWrite
<1>2. Harmless(q.declares) => Harmless(q.fetches) /\ \A pair \in q.apart : pair[1] # pair[2]
  BY DEF Harmless, EntityRef, Form, Read, Write, MayRead, MayWrite
<1>3. \A j \in DOMAIN q.declares : q.declares[j].mode \in Modes
  BY DEF Modes, EntityRef, Form, Read, Write, MayRead, MayWrite
<1>4. q.needs = <<T>> /\ q.rows = <<Read(1)>>
  BY DEF EntityRef, Form
<1>5. q.declares = <<Read(T)>> /\ q.marks = {}
  BY DEF EntityRef, Form
<1> HIDE DEF q
<1>6. RowsDeclared(q)
  BY <1>4, <1>5 DEF RowsDeclared, Read, Write
<1>7. Reported(q.declares, q)
  BY <1>5 DEF Reported, Read, Write
<1>8. Sound(q)
  BY <1>1, <1>2, <1>3, <1>6, <1>7, RowsSound DEF Sound, SoundItems
<1> QED
  BY <1>8 DEF q

LEMMA EntityMutSound ==
    ASSUME NEW T PROVE Sound(EntityMut(T))
<1> DEFINE q == EntityMut(T)
<1>1. Covered(q.fetches, q) /\ Reported(q.fetches, q)
  BY DEF Covered, Reported, EntityMut, Form, Read, Write, MayRead, MayWrite
<1>2. Harmless(q.declares) => Harmless(q.fetches) /\ \A pair \in q.apart : pair[1] # pair[2]
  BY DEF Harmless, EntityMut, Form, Read, Write, MayRead, MayWrite
<1>3. \A j \in DOMAIN q.declares : q.declares[j].mode \in Modes
  BY DEF Modes, EntityMut, Form, Read, Write, MayRead, MayWrite
<1>4. ~Spans(q)
  BY DEF Spans, EntityMut, Form
<1> HIDE DEF q
<1>5. Sound(q)
  BY <1>1, <1>2, <1>3, <1>4 DEF Sound, SoundItems
<1> QED
  BY <1>5 DEF q

LEMMA OptRefSound ==
    ASSUME NEW T PROVE Sound(OptRef(T))
<1> DEFINE q == OptRef(T)
<1>1. Covered(q.fetches, q) /\ Reported(q.fetches, q)
  BY DEF Covered, Reported, OptRef, Form, Read, Write, MayRead, MayWrite
<1>2. Harmless(q.declares) => Harmless(q.fetches) /\ \A pair \in q.apart : pair[1] # pair[2]
  BY DEF Harmless, OptRef, Form, Read, Write, MayRead, MayWrite
<1>3. \A j \in DOMAIN q.declares : q.declares[j].mode \in Modes
  BY DEF Modes, OptRef, Form, Read, Write, MayRead, MayWrite
<1>4. ~Spans(q)
  BY DEF Spans, OptRef, Form
<1> HIDE DEF q
<1>5. Sound(q)
  BY <1>1, <1>2, <1>3, <1>4 DEF Sound, SoundItems
<1> QED
  BY <1>5 DEF q

LEMMA OptMutSound ==
    ASSUME NEW T PROVE Sound(OptMut(T))
<1> DEFINE q == OptMut(T)
<1>1. Covered(q.fetches, q) /\ Reported(q.fetches, q)
  BY DEF Covered, Reported, OptMut, Form, Read, Write, MayRead, MayWrite
<1>2. Harmless(q.declares) => Harmless(q.fetches) /\ \A pair \in q.apart : pair[1] # pair[2]
  BY DEF Harmless, OptMut, Form, Read, Write, MayRead, MayWrite
<1>3. \A j \in DOMAIN q.declares : q.declares[j].mode \in Modes
  BY DEF Modes, OptMut, Form, Read, Write, MayRead, MayWrite
<1>4. ~Spans(q)
  BY DEF Spans, OptMut, Form
<1> HIDE DEF q
<1>5. Sound(q)
  BY <1>1, <1>2, <1>3, <1>4 DEF Sound, SoundItems
<1> QED
  BY <1>5 DEF q

LEMMA EntityOptRefSound ==
    ASSUME NEW T PROVE Sound(EntityOptRef(T))
<1> DEFINE q == EntityOptRef(T)
<1>1. Covered(q.fetches, q) /\ Reported(q.fetches, q)
  BY DEF Covered, Reported, EntityOptRef, Form, Read, Write, MayRead, MayWrite
<1>2. Harmless(q.declares) => Harmless(q.fetches) /\ \A pair \in q.apart : pair[1] # pair[2]
  BY DEF Harmless, EntityOptRef, Form, Read, Write, MayRead, MayWrite
<1>3. \A j \in DOMAIN q.declares : q.declares[j].mode \in Modes
  BY DEF Modes, EntityOptRef, Form, Read, Write, MayRead, MayWrite
<1>4. ~Spans(q)
  BY DEF Spans, EntityOptRef, Form
<1> HIDE DEF q
<1>5. Sound(q)
  BY <1>1, <1>2, <1>3, <1>4 DEF Sound, SoundItems
<1> QED
  BY <1>5 DEF q

LEMMA RefRefSound ==
    ASSUME NEW A, NEW B PROVE Sound(RefRef(A, B))
<1> DEFINE q == RefRef(A, B)
<1>1. Covered(q.fetches, q) /\ Reported(q.fetches, q)
  BY DEF Covered, Reported, RefRef, Form, Read, Write, MayRead, MayWrite
<1>2. Harmless(q.declares) => Harmless(q.fetches) /\ \A pair \in q.apart : pair[1] # pair[2]
  BY DEF Harmless, RefRef, Form, Read, Write, MayRead, MayWrite
<1>3. \A j \in DOMAIN q.declares : q.declares[j].mode \in Modes
  BY DEF Modes, RefRef, Form, Read, Write, MayRead, MayWrite
<1>4. q.needs = <<A, B>> /\ q.rows = <<Read(1), Read(2)>>
  BY DEF RefRef, Form
<1>5. q.declares = <<Read(A), Read(B)>> /\ q.marks = {}
  BY DEF RefRef, Form
<1> HIDE DEF q
<1>6. RowsDeclared(q)
  BY <1>4, <1>5 DEF RowsDeclared, Read, Write
<1>7. Reported(q.declares, q)
  BY <1>5 DEF Reported, Read, Write
<1>8. Sound(q)
  BY <1>1, <1>2, <1>3, <1>6, <1>7, RowsSound DEF Sound, SoundItems
<1> QED
  BY <1>8 DEF q

LEMMA MutRefSound ==
    ASSUME NEW A, NEW B PROVE Sound(MutRef(A, B))
<1> DEFINE q == MutRef(A, B)
<1>1. Covered(q.fetches, q) /\ Reported(q.fetches, q)
  BY DEF Covered, Reported, MutRef, Form, Read, Write, MayRead, MayWrite
<1>2. Harmless(q.declares) => Harmless(q.fetches) /\ \A pair \in q.apart : pair[1] # pair[2]
  BY DEF Harmless, MutRef, Form, Read, Write, MayRead, MayWrite
<1>3. \A j \in DOMAIN q.declares : q.declares[j].mode \in Modes
  BY DEF Modes, MutRef, Form, Read, Write, MayRead, MayWrite
<1>4. q.needs = <<A, B>> /\ q.rows = <<Write(1), Read(2)>>
  BY DEF MutRef, Form
<1>5. q.declares = <<Write(A), Read(B)>> /\ q.marks = {A}
  BY DEF MutRef, Form
<1> HIDE DEF q
<1>6. RowsDeclared(q)
  BY <1>4, <1>5 DEF RowsDeclared, Read, Write
<1>7. Reported(q.declares, q)
  BY <1>5 DEF Reported, Read, Write
<1>8. Sound(q)
  BY <1>1, <1>2, <1>3, <1>6, <1>7, RowsSound DEF Sound, SoundItems
<1> QED
  BY <1>8 DEF q

LEMMA RefMutSound ==
    ASSUME NEW A, NEW B PROVE Sound(RefMut(A, B))
<1> DEFINE q == RefMut(A, B)
<1>1. Covered(q.fetches, q) /\ Reported(q.fetches, q)
  BY DEF Covered, Reported, RefMut, Form, Read, Write, MayRead, MayWrite
<1>2. Harmless(q.declares) => Harmless(q.fetches) /\ \A pair \in q.apart : pair[1] # pair[2]
  BY DEF Harmless, RefMut, Form, Read, Write, MayRead, MayWrite
<1>3. \A j \in DOMAIN q.declares : q.declares[j].mode \in Modes
  BY DEF Modes, RefMut, Form, Read, Write, MayRead, MayWrite
<1>4. ~Spans(q)
  BY DEF Spans, RefMut, Form
<1> HIDE DEF q
<1>5. Sound(q)
  BY <1>1, <1>2, <1>3, <1>4 DEF Sound, SoundItems
<1> QED
  BY <1>5 DEF q

LEMMA MutMutSound ==
    ASSUME NEW A, NEW B PROVE Sound(MutMut(A, B))
<1> DEFINE q == MutMut(A, B)
<1>1. Covered(q.fetches, q) /\ Reported(q.fetches, q)
  BY DEF Covered, Reported, MutMut, Form, Read, Write, MayRead, MayWrite
<1>2. Harmless(q.declares) => Harmless(q.fetches) /\ \A pair \in q.apart : pair[1] # pair[2]
  BY DEF Harmless, MutMut, Form, Read, Write, MayRead, MayWrite
<1>3. \A j \in DOMAIN q.declares : q.declares[j].mode \in Modes
  BY DEF Modes, MutMut, Form, Read, Write, MayRead, MayWrite
<1>4. q.needs = <<A, B>> /\ q.rows = <<Write(1), Write(2)>>
  BY DEF MutMut, Form
<1>5. q.declares = <<Write(A), Write(B)>> /\ q.marks = {A, B}
  BY DEF MutMut, Form
<1> HIDE DEF q
<1>6. RowsDeclared(q)
  BY <1>4, <1>5 DEF RowsDeclared, Read, Write
<1>7. Reported(q.declares, q)
  BY <1>5 DEF Reported, Read, Write
<1>8. Sound(q)
  BY <1>1, <1>2, <1>3, <1>6, <1>7, RowsSound DEF Sound, SoundItems
<1> QED
  BY <1>8 DEF q

LEMMA MutOptRefSound ==
    ASSUME NEW A, NEW B PROVE Sound(MutOptRef(A, B))
<1> DEFINE q == MutOptRef(A, B)
<1>1. Covered(q.fetches, q) /\ Reported(q.fetches, q)
  BY DEF Covered, Reported, MutOptRef, Form, Read, Write, MayRead, MayWrite
<1>2. Harmless(q.declares) => Harmless(q.fetches) /\ \A pair \in q.apart : pair[1] # pair[2]
  BY DEF Harmless, MutOptRef, Form, Read, Write, MayRead, MayWrite
<1>3. \A j \in DOMAIN q.declares : q.declares[j].mode \in Modes
  BY DEF Modes, MutOptRef, Form, Read, Write, MayRead, MayWrite
<1>4. ~Spans(q)
  BY DEF Spans, MutOptRef, Form
<1> HIDE DEF q
<1>5. Sound(q)
  BY <1>1, <1>2, <1>3, <1>4 DEF Sound, SoundItems
<1> QED
  BY <1>5 DEF q

LEMMA RefOptRefSound ==
    ASSUME NEW A, NEW B PROVE Sound(RefOptRef(A, B))
<1> DEFINE q == RefOptRef(A, B)
<1>1. Covered(q.fetches, q) /\ Reported(q.fetches, q)
  BY DEF Covered, Reported, RefOptRef, Form, Read, Write, MayRead, MayWrite
<1>2. Harmless(q.declares) => Harmless(q.fetches) /\ \A pair \in q.apart : pair[1] # pair[2]
  BY DEF Harmless, RefOptRef, Form, Read, Write, MayRead, MayWrite
<1>3. \A j \in DOMAIN q.declares : q.declares[j].mode \in Modes
  BY DEF Modes, RefOptRef, Form, Read, Write, MayRead, MayWrite
<1>4. ~Spans(q)
  BY DEF Spans, RefOptRef, Form
<1> HIDE DEF q
<1>5. Sound(q)
  BY <1>1, <1>2, <1>3, <1>4 DEF Sound, SoundItems
<1> QED
  BY <1>5 DEF q

LEMMA RefOptMutSound ==
    ASSUME NEW A, NEW B PROVE Sound(RefOptMut(A, B))
<1> DEFINE q == RefOptMut(A, B)
<1>1. Covered(q.fetches, q) /\ Reported(q.fetches, q)
  BY DEF Covered, Reported, RefOptMut, Form, Read, Write, MayRead, MayWrite
<1>2. Harmless(q.declares) => Harmless(q.fetches) /\ \A pair \in q.apart : pair[1] # pair[2]
  BY DEF Harmless, RefOptMut, Form, Read, Write, MayRead, MayWrite
<1>3. \A j \in DOMAIN q.declares : q.declares[j].mode \in Modes
  BY DEF Modes, RefOptMut, Form, Read, Write, MayRead, MayWrite
<1>4. ~Spans(q)
  BY DEF Spans, RefOptMut, Form
<1> HIDE DEF q
<1>5. Sound(q)
  BY <1>1, <1>2, <1>3, <1>4 DEF Sound, SoundItems
<1> QED
  BY <1>5 DEF q

LEMMA MutOptMutSound ==
    ASSUME NEW A, NEW B PROVE Sound(MutOptMut(A, B))
<1> DEFINE q == MutOptMut(A, B)
<1>1. Covered(q.fetches, q) /\ Reported(q.fetches, q)
  BY DEF Covered, Reported, MutOptMut, Form, Read, Write, MayRead, MayWrite
<1>2. Harmless(q.declares) => Harmless(q.fetches) /\ \A pair \in q.apart : pair[1] # pair[2]
  BY DEF Harmless, MutOptMut, Form, Read, Write, MayRead, MayWrite
<1>3. \A j \in DOMAIN q.declares : q.declares[j].mode \in Modes
  BY DEF Modes, MutOptMut, Form, Read, Write, MayRead, MayWrite
<1>4. ~Spans(q)
  BY DEF Spans, MutOptMut, Form
<1> HIDE DEF q
<1>5. Sound(q)
  BY <1>1, <1>2, <1>3, <1>4 DEF Sound, SoundItems
<1> QED
  BY <1>5 DEF q

LEMMA RefRefRefSound ==
    ASSUME NEW A, NEW B, NEW C PROVE Sound(RefRefRef(A, B, C))
<1> DEFINE q == RefRefRef(A, B, C)
<1>1. Covered(q.fetches, q) /\ Reported(q.fetches, q)
  BY DEF Covered, Reported, RefRefRef, Form, Read, Write, MayRead, MayWrite
<1>2. Harmless(q.declares) => Harmless(q.fetches) /\ \A pair \in q.apart : pair[1] # pair[2]
  BY DEF Harmless, RefRefRef, Form, Read, Write, MayRead, MayWrite
<1>3. \A j \in DOMAIN q.declares : q.declares[j].mode \in Modes
  BY DEF Modes, RefRefRef, Form, Read, Write, MayRead, MayWrite
<1>4. q.needs = <<A, B, C>> /\ q.rows = <<Read(1), Read(2), Read(3)>>
  BY DEF RefRefRef, Form
<1>5. q.declares = <<Read(A), Read(B), Read(C)>> /\ q.marks = {}
  BY DEF RefRefRef, Form
<1> HIDE DEF q
<1>6. RowsDeclared(q)
  BY <1>4, <1>5 DEF RowsDeclared, Read, Write
<1>7. Reported(q.declares, q)
  BY <1>5 DEF Reported, Read, Write
<1>8. Sound(q)
  BY <1>1, <1>2, <1>3, <1>6, <1>7, RowsSound DEF Sound, SoundItems
<1> QED
  BY <1>8 DEF q

LEMMA MutRefRefSound ==
    ASSUME NEW A, NEW B, NEW C PROVE Sound(MutRefRef(A, B, C))
<1> DEFINE q == MutRefRef(A, B, C)
<1>1. Covered(q.fetches, q) /\ Reported(q.fetches, q)
  BY DEF Covered, Reported, MutRefRef, Form, Read, Write, MayRead, MayWrite
<1>2. Harmless(q.declares) => Harmless(q.fetches) /\ \A pair \in q.apart : pair[1] # pair[2]
  BY DEF Harmless, MutRefRef, Form, Read, Write, MayRead, MayWrite
<1>3. \A j \in DOMAIN q.declares : q.declares[j].mode \in Modes
  BY DEF Modes, MutRefRef, Form, Read, Write, MayRead, MayWrite
<1>4. ~Spans(q)
  BY DEF Spans, MutRefRef, Form
<1> HIDE DEF q
<1>5. Sound(q)
  BY <1>1, <1>2, <1>3, <1>4 DEF Sound, SoundItems
<1> QED
  BY <1>5 DEF q

LEMMA MutMutRefSound ==
    ASSUME NEW A, NEW B, NEW C PROVE Sound(MutMutRef(A, B, C))
<1> DEFINE q == MutMutRef(A, B, C)
<1>1. Covered(q.fetches, q) /\ Reported(q.fetches, q)
  BY DEF Covered, Reported, MutMutRef, Form, Read, Write, MayRead, MayWrite
<1>2. Harmless(q.declares) => Harmless(q.fetches) /\ \A pair \in q.apart : pair[1] # pair[2]
  BY DEF Harmless, MutMutRef, Form, Read, Write, MayRead, MayWrite
<1>3. \A j \in DOMAIN q.declares : q.declares[j].mode \in Modes
  BY DEF Modes, MutMutRef, Form, Read, Write, MayRead, MayWrite
<1>4. ~Spans(q)
  BY DEF Spans, MutMutRef, Form
<1> HIDE DEF q
<1>5. Sound(q)
  BY <1>1, <1>2, <1>3, <1>4 DEF Sound, SoundItems
<1> QED
  BY <1>5 DEF q


LEMMA FormsSound == \A form \in Forms(Types) : Sound(form)
<1>1. \A T : \A form \in OnOne(T) : Sound(form)
  BY RefSound, MutSound, EntityRefSound, EntityMutSound, OptRefSound, OptMutSound, EntityOptRefSound DEF OnOne
<1>2. \A A, B : \A form \in OnTwo(A, B) : Sound(form)
  BY RefRefSound, MutRefSound, RefMutSound, MutMutSound, MutOptRefSound, RefOptRefSound, RefOptMutSound,
     MutOptMutSound DEF OnTwo
<1>3. \A A, B, C : \A form \in OnThree(A, B, C) : Sound(form)
  BY RefRefRefSound, MutRefRefSound, MutMutRefSound DEF OnThree
<1>4. \A A, B \in Types : \A form \in FormsOn(A, B, Types) : Sound(form)
  BY <1>2, <1>3 DEF FormsOn
<1>5. \A A \in Types : \A form \in UNION {FormsOn(A, B, Types) : B \in Types} : Sound(form)
  BY <1>4
<1> QED
  BY <1>1, <1>5 DEF Forms

-----------------------------------------------------------------------------
(***************************************************************************)
(* What a parameter borrows.                                               *)
(***************************************************************************)
HandleKinds == {"res", "resMut", "relations", "relationsMut"}
SoundParam(p) == p.kind \in Kinds /\ (p.kind = "query" => Sound(p.form))

LEMMA BorrowsOfHandle ==
    ASSUME NEW p, p.kind \in HandleKinds
    PROVE  \E key, mode : /\ Borrows(p) = <<Borrow(key, mode)>>
                          /\ key[1] \in {"resource", "relation"} /\ mode \in Modes
<1>1. CASE p.kind = "res"
  <2>1. Borrows(p) = <<Borrow(Resource(p.on), "shared")>>
    BY <1>1 DEF Borrows
  <2> QED
    BY <2>1 DEF Resource, Modes
<1>2. CASE p.kind = "resMut"
  <2>1. Borrows(p) = <<Borrow(Resource(p.on), "exclusive")>>
    BY <1>2 DEF Borrows
  <2> QED
    BY <2>1 DEF Resource, Modes
<1>3. CASE p.kind = "relations"
  <2>1. Borrows(p) = <<Borrow(Relation(p.on), "shared")>>
    BY <1>3 DEF Borrows
  <2> QED
    BY <2>1 DEF Relation, Modes
<1>4. CASE p.kind = "relationsMut"
  <2>1. Borrows(p) = <<Borrow(Relation(p.on), "exclusive")>>
    BY <1>4 DEF Borrows
  <2> QED
    BY <2>1 DEF Relation, Modes
<1> QED
  BY <1>1, <1>2, <1>3, <1>4 DEF HandleKinds

LEMMA BorrowsOfQuery ==
    ASSUME NEW p, p.kind = "query"
    PROVE  /\ DOMAIN Borrows(p) = DOMAIN p.form.declares
           /\ \A j \in DOMAIN Borrows(p) :
                Borrows(p)[j] = Borrow(Component(p.form.declares[j].on), p.form.declares[j].mode)
  BY DEF Borrows

LEMMA BorrowsKnown ==
    ASSUME NEW p, SoundParam(p), NEW j \in DOMAIN Borrows(p)
    PROVE  /\ Borrows(p)[j] = Borrow(Borrows(p)[j].key, Borrows(p)[j].mode)
           /\ Borrows(p)[j].key \notin {Everything, Structure}
           /\ Borrows(p)[j].mode \in Modes
<1>1. CASE p.kind = "query"
  BY <1>1, BorrowsOfQuery DEF SoundParam, Sound, Borrow, Component, Everything, Structure
<1>2. CASE p.kind \in HandleKinds
  <2>1. PICK key, mode : /\ Borrows(p) = <<Borrow(key, mode)>>
                         /\ key[1] \in {"resource", "relation"} /\ mode \in Modes
    BY <1>2, BorrowsOfHandle
  <2> QED
    BY <2>1 DEF Borrow, Everything, Structure
<1>3. CASE p.kind \in {"removed", "world", "commands", "localCommands"}
  <2>1. Borrows(p) = <<>>
    BY <1>3 DEF Borrows
  <2> QED
    BY <2>1
<1> QED
  BY <1>1, <1>2, <1>3 DEF SoundParam, Kinds, HandleKinds

\* A borrow is an access of the system.
LEMMA BorrowIsAccess ==
    ASSUME NEW ps, NEW i \in DOMAIN ps, NEW j \in DOMAIN Borrows(ps[i])
    PROVE  /\ Borrows(ps[i])[j].mode = "shared" => Borrows(ps[i])[j].key \in Reads(ps)
           /\ Borrows(ps[i])[j].mode = "exclusive" => Borrows(ps[i])[j].key \in Writes(ps)
<1>1. Borrows(ps[i])[j].mode = "shared" => Borrows(ps[i])[j].key \in ReadsOf(ps[i])
  BY DEF ReadsOf, Borrowed
<1>2. Borrows(ps[i])[j].mode = "exclusive" => Borrows(ps[i])[j].key \in WritesOf(ps[i])
  BY DEF WritesOf, Borrowed
<1> QED
  BY <1>1, <1>2 DEF Reads, Writes

\* The borrows of an accepted system do no harm to one another.
LEMMA BorrowsHarmless ==
    ASSUME NEW ps, ~BorrowConflict(ps), NEW i \in DOMAIN ps, ps[i].kind = "query", Sound(ps[i].form)
    PROVE  Harmless(ps[i].form.declares)
<1> DEFINE ds == ps[i].form.declares
<1> SUFFICES ASSUME NEW j \in DOMAIN ds, NEW k \in DOMAIN ds, j # k, ds[j].on = ds[k].on
             PROVE  ds[j].mode = "shared" /\ ds[k].mode = "shared"
  BY DEF Harmless
<1>1. <<i, j>> # <<i, k>>
  OBVIOUS
<1>2. ~Clash(Borrows(ps[i])[j], Borrows(ps[i])[k])
  BY <1>1, BorrowsOfQuery DEF BorrowConflict
<1>3. ds[j].mode \in Modes /\ ds[k].mode \in Modes
  BY DEF Sound
<1> QED
  BY <1>2, <1>3, BorrowsOfQuery DEF Clash, Borrow, Modes

-----------------------------------------------------------------------------
(***************************************************************************)
(* The inductive invariant.  Signatures: those of the catalogue; once      *)
(* accepted, admitted; once transferable, without the world.               *)
(***************************************************************************)
Accepted(s) == stage[s] \notin {"unregistered", "refused"}
TypeOK ==
    /\ DOMAIN params = Systems /\ DOMAIN built = Systems
    /\ stage \in [Systems -> Stages]
    /\ at \in [Systems -> Nat \ {0}]
    /\ cohort \subseteq Systems
Signed ==
    \A s \in Systems :
        /\ stage[s] # "unregistered" => params[s] \in Catalogue[s]
        /\ Accepted(s) => ~BorrowConflict(params[s]) /\ ~AccessConflict(params[s])
        /\ stage[s] = "unregistered" => s \notin mobile /\ params[s] = <<>>
        /\ s \in mobile => Transferable(params[s])

\* Busy systems are one that runs alone or members of one cohort, which can run together.
Together ==
    /\ Busy = {} => cohort = {}
    /\ cohort \subseteq mobile
    /\ \A s \in cohort : Accepted(s)
    /\ \A s, t \in cohort : s # t => ~Conflict(params[s], params[t])
    /\ \A s, t \in cohort : stage[s] = "preparing" => stage[t] \in {"preparing", "prepared"}
    /\ \A s \in Busy : s \in cohort \/ (cohort = {} /\ Busy = {s} /\ stage[s] = "running")

\* A package holds what the parameters passed so far asked for, and nothing else.
PackageOf(ps) == UNION {Prepared(ps[i]) : i \in DOMAIN ps}
Packed ==
    \A s \in Systems :
        /\ stage[s] \in {"unregistered", "refused", "registered"} => built[s] = {} /\ at[s] = 1
        /\ built[s] \subseteq PackageOf(params[s])
        /\ stage[s] = "preparing" =>
               \A i \in DOMAIN params[s] : i < at[s] => Prepared(params[s][i]) \subseteq built[s]
        /\ s \in cohort /\ stage[s] \in {"prepared", "running"} => built[s] = PackageOf(params[s])

\* Where a reference comes from.
FromHandle(r, p) ==
    /\ p.kind \in HandleKinds
    /\ r.key = Borrows(p)[1].key /\ r.mode = Borrows(p)[1].mode
    /\ r.term = 1 /\ r.of = Singular
FromWorld(r, p) ==
    p.kind = "world" /\ r.key = Everything /\ r.mode = "exclusive" /\ r.term = 1 /\ r.of = Singular
FromItem(r, items) ==
    r.term \in DOMAIN items /\ r.key = Component(items[r.term].on) /\ r.mode = items[r.term].mode
Sources(p) == {p.form.fetches} \cup {items \in {RowItems(p.form)} : Spans(p.form)}
Given ==
    \A r \in live :
        /\ r = Held(r.sys, r.param, r.term, r.key, r.of, r.mode)
        /\ r.sys \in Systems /\ stage[r.sys] = "running" /\ r.param \in DOMAIN params[r.sys]
        /\ LET p == params[r.sys][r.param] IN
            FromHandle(r, p) \/ FromWorld(r, p) \/ (p.kind = "query" /\ r.param < at[r.sys])

\* All references of a query parameter come from one list of items.
OneSource ==
    \A s \in Systems : \A i \in DOMAIN params[s] :
        params[s][i].kind = "query" =>
            \E items \in Sources(params[s][i]) :
                \A r \in live : r.sys = s /\ r.param = i => FromItem(r, items)

OfComponent(key) == key[1] = "component"
Agreed ==
    /\ \A m \in marks : OfComponent(m[3]) =>
        \E r \in live : r.mode = "exclusive" /\ OfComponent(r.key) /\ m = <<r.sys, r.param, r.key, r.of>>
    /\ \A r \in live : r.mode = "exclusive" /\ OfComponent(r.key) =>
        <<r.sys, r.param, r.key, r.of>> \in marks

IInv ==
    /\ TypeOK /\ Signed /\ Together /\ Packed /\ Given /\ OneSource
    /\ PreparationSuffices /\ SameAnswers /\ Agreed

-----------------------------------------------------------------------------
(***************************************************************************)
(* What the invariant says of a registered system's parameters.            *)
(***************************************************************************)
LEMMA Signature ==
    ASSUME Signed, NEW s \in Systems, stage[s] # "unregistered"
    PROVE  /\ DOMAIN params[s] = 1..Len(params[s]) /\ Len(params[s]) \in Nat
           /\ \A i \in DOMAIN params[s] : SoundParam(params[s][i])
  BY CatalogueAssumption, FormsSound DEF Signed, SoundParam

LEMMA SourceSound ==
    ASSUME NEW p, p.kind = "query", Sound(p.form), NEW items \in Sources(p)
    PROVE  SoundItems(items, p.form)
  BY DEF Sources, Sound

\* A reference that is not to the whole world was borrowed.
LEMMA ReferenceBorrowed ==
    ASSUME Signed, Given, OneSource, NEW r \in live
    PROVE  LET p == params[r.sys][r.param] IN
           FromWorld(r, p) \/ \E j \in DOMAIN Borrows(p) : Borrows(p)[j] = Borrow(r.key, r.mode)
<1> DEFINE s == r.sys
           p == params[r.sys][r.param]
<1>1. s \in Systems /\ stage[s] = "running" /\ r.param \in DOMAIN params[s]
  BY DEF Given
<1>2. SoundParam(p)
  BY <1>1, Signature
<1>3. CASE FromHandle(r, p)
  <2>1. PICK key, mode : Borrows(p) = <<Borrow(key, mode)>>
    BY <1>3, BorrowsOfHandle DEF FromHandle
  <2>2. r.key = key /\ r.mode = mode
    BY <1>3, <2>1 DEF FromHandle, Borrow
  <2> QED
    BY <2>1, <2>2
<1>4. CASE p.kind = "query"
  <2>1. PICK items \in Sources(p) : FromItem(r, items)
    BY <1>1, <1>4 DEF OneSource
  <2>2. Covered(items, p.form)
    BY <1>2, <1>4, <2>1, SourceSound DEF SoundItems, SoundParam
  <2>3. PICK d \in DOMAIN p.form.declares :
            p.form.declares[d].on = items[r.term].on /\ p.form.declares[d].mode = items[r.term].mode
    BY <2>1, <2>2 DEF Covered, FromItem
  <2>4. d \in DOMAIN Borrows(p) /\ Borrows(p)[d] = Borrow(r.key, r.mode)
    BY <1>4, <2>1, <2>3, BorrowsOfQuery DEF FromItem
  <2> QED
    BY <2>4
<1> QED
  BY <1>3, <1>4 DEF Given

\* Two references of one parameter.
LEMMA OneParameterHarmless ==
    ASSUME Signed, Given, OneSource, NEW r \in live, NEW q \in live, r # q,
           r.sys = q.sys, r.param = q.param, r.key = q.key, r.of = q.of
    PROVE  r.mode = "shared" /\ q.mode = "shared"
<1> DEFINE s == r.sys
           p == params[r.sys][r.param]
<1>1. s \in Systems /\ stage[s] = "running" /\ r.param \in DOMAIN params[s]
  BY DEF Given
<1>2. SoundParam(p)
  BY <1>1, Signature
<1>3. r.term # q.term \/ r.mode # q.mode
  BY DEF Given
<1>4. p.kind = "query"
  BY <1>3 DEF Given, FromHandle, FromWorld, HandleKinds
<1>5. PICK items \in Sources(p) : \A x \in live : x.sys = s /\ x.param = r.param => FromItem(x, items)
  BY <1>1, <1>4 DEF OneSource
<1>6. r.term # q.term /\ items[r.term].on = items[q.term].on
  BY <1>3, <1>5 DEF FromItem, Component
<1>7. Harmless(p.form.declares)
  BY <1>1, <1>2, <1>4, BorrowsHarmless DEF Signed, Accepted, SoundParam
<1>8. Harmless(items)
  BY <1>2, <1>4, <1>7, SourceSound DEF SoundItems, SoundParam
<1> QED
  BY <1>5, <1>6, <1>8 DEF Harmless, FromItem

\* Two parameters of one system.
LEMMA OneSystemHarmless ==
    ASSUME Signed, Given, OneSource, NEW r \in live, NEW q \in live, r # q, r.sys = q.sys, Overlap(r, q)
    PROVE  r.mode = "shared" /\ q.mode = "shared"
<1> DEFINE ps == params[r.sys]
           i == r.param
           k == q.param
<1>1. r.sys \in Systems /\ stage[r.sys] = "running" /\ i \in DOMAIN ps /\ k \in DOMAIN ps
  BY DEF Given
<1>2. SoundParam(ps[i]) /\ SoundParam(ps[k])
  BY <1>1, Signature
<1>3. ~BorrowConflict(ps)
  BY <1>1 DEF Signed, Accepted
<1>4. \/ FromWorld(r, ps[i])
      \/ \E j \in DOMAIN Borrows(ps[i]) : Borrows(ps[i])[j] = Borrow(r.key, r.mode)
  BY ReferenceBorrowed
<1>5. \/ FromWorld(q, ps[k])
      \/ \E j \in DOMAIN Borrows(ps[k]) : Borrows(ps[k])[j] = Borrow(q.key, q.mode)
  BY ReferenceBorrowed
<1>6. CASE FromWorld(r, ps[i]) /\ FromWorld(q, ps[k])
  <2>1. i # k
    BY <1>6 DEF Given, FromWorld
  <2> QED
    BY <1>1, <1>3, <1>6, <2>1 DEF BorrowConflict, WorldShared, WholeWorlds, FromWorld
<1>7. ASSUME NEW a \in DOMAIN ps, NEW b \in DOMAIN ps, ps[a].kind = "world", SoundParam(ps[b]),
             NEW j \in DOMAIN Borrows(ps[b])
      PROVE  FALSE
  <2>1. Borrows(ps[b])[j].key \in Immediate(ps)
    BY <1>7, BorrowsKnown, BorrowIsAccess DEF Immediate, Modes
  <2> QED
    BY <1>3, <1>7, <2>1 DEF BorrowConflict, WorldShared, WholeWorlds
<1>8. CASE \E j \in DOMAIN Borrows(ps[i]) : Borrows(ps[i])[j] = Borrow(r.key, r.mode)
  <2>1. PICK j \in DOMAIN Borrows(ps[i]) : Borrows(ps[i])[j] = Borrow(r.key, r.mode)
    BY <1>8
  <2>2. PICK l \in DOMAIN Borrows(ps[k]) : Borrows(ps[k])[l] = Borrow(q.key, q.mode)
    BY <1>1, <1>2, <1>5, <1>7, <2>1 DEF FromWorld
  <2>3. r.key = q.key /\ r.of = q.of /\ r.mode \in Modes /\ q.mode \in Modes
    BY <1>2, <2>1, <2>2, BorrowsKnown DEF Overlap, Borrow
  <2>4. CASE i = k
    BY <2>3, <2>4, OneParameterHarmless
  <2>5. CASE i # k
    <3>1. <<i, j>> # <<k, l>>
      BY <2>5
    <3>2. ~Clash(Borrows(ps[i])[j], Borrows(ps[k])[l])
      BY <1>1, <1>3, <3>1 DEF BorrowConflict
    <3> QED
      BY <2>1, <2>2, <2>3, <3>2 DEF Clash, Borrow, Modes
  <2> QED
    BY <2>4, <2>5
<1> QED
  BY <1>1, <1>2, <1>4, <1>5, <1>6, <1>7, <1>8 DEF FromWorld

\* Two systems.
LEMMA TwoSystemsHarmless ==
    ASSUME Signed, Together, Given, OneSource,
           NEW r \in live, NEW q \in live, r.sys # q.sys, Overlap(r, q)
    PROVE  r.mode = "shared" /\ q.mode = "shared"
<1> DEFINE s == r.sys
           t == q.sys
<1>1. /\ s \in Systems /\ stage[s] = "running" /\ r.param \in DOMAIN params[s]
      /\ t \in Systems /\ stage[t] = "running" /\ q.param \in DOMAIN params[t]
  BY DEF Given
<1>2. s \in Busy /\ t \in Busy
  BY <1>1 DEF Busy
<1>3. s \in cohort /\ t \in cohort
  BY <1>2 DEF Together
<1>4. ~Conflict(params[s], params[t])
  BY <1>3 DEF Together
<1>5. Transferable(params[s]) /\ Transferable(params[t])
  BY <1>1, <1>3 DEF Together, Signed
<1>6. PICK j \in DOMAIN Borrows(params[s][r.param]) : Borrows(params[s][r.param])[j] = Borrow(r.key, r.mode)
  BY <1>1, <1>5, ReferenceBorrowed DEF FromWorld, Transferable
<1>7. PICK l \in DOMAIN Borrows(params[t][q.param]) : Borrows(params[t][q.param])[l] = Borrow(q.key, q.mode)
  BY <1>1, <1>5, ReferenceBorrowed DEF FromWorld, Transferable
<1>8. SoundParam(params[s][r.param]) /\ SoundParam(params[t][q.param])
  BY <1>1, Signature
<1>9. /\ r.key \notin {Everything, Structure} /\ r.mode \in Modes
      /\ q.key \notin {Everything, Structure} /\ q.mode \in Modes
  BY <1>6, <1>7, <1>8, BorrowsKnown DEF Borrow
<1>10. r.key = q.key
  BY <1>9 DEF Overlap
<1>11. /\ r.mode = "shared" => r.key \in Reads(params[s])
       /\ r.mode = "exclusive" => r.key \in Writes(params[s])
  BY <1>1, <1>6, BorrowIsAccess DEF Borrow
<1>12. /\ q.mode = "shared" => q.key \in Reads(params[t])
       /\ q.mode = "exclusive" => q.key \in Writes(params[t])
  BY <1>1, <1>7, BorrowIsAccess DEF Borrow
<1> QED
  BY <1>4, <1>9, <1>10, <1>11, <1>12 DEF Conflict, Modes

LEMMA InvariantAliasing ==
    ASSUME IInv PROVE NoAliasing
  BY OneSystemHarmless, TwoSystemsHarmless DEF IInv, NoAliasing, Overlap

LEMMA InvariantMarks ==
    ASSUME IInv PROVE MarksExact
  BY DEF IInv, Agreed, MarksExact, OfComponent

-----------------------------------------------------------------------------
(***************************************************************************)
(* Steps.  What most of them have in common: signatures stay, and no       *)
(* reference is added.                                                     *)
(***************************************************************************)
LEMMA Initial ==
    ASSUME Init PROVE IInv
<1>1. TypeOK
  BY DEF Init, TypeOK, Stages
<1>2. Signed
  BY DEF Init, Signed, Accepted
<1>3. Together
  BY DEF Init, Together, Busy
<1>4. Packed
  BY DEF Init, Packed
<1>5. Given /\ OneSource /\ SameAnswers /\ Agreed /\ PreparationSuffices
  BY DEF Init, Given, OneSource, SameAnswers, Agreed, PreparationSuffices
<1> QED
  BY <1>1, <1>2, <1>3, <1>4, <1>5 DEF IInv

LEMMA SignedKept ==
    ASSUME Signed, UNCHANGED <<params, mobile>>,
           \A s \in Systems : /\ stage'[s] = "unregistered" => stage[s] = "unregistered"
                              /\ stage[s] \in {"unregistered", "refused"} => stage'[s] = stage[s]
    PROVE  Signed'
  BY DEF Signed, Accepted

LEMMA NothingGiven ==
    ASSUME Given, OneSource, Agreed, UNCHANGED <<params, live, marks>>,
           \A s \in Systems : stage[s] = "running" => stage'[s] = "running" /\ at'[s] = at[s]
    PROVE  Given' /\ OneSource' /\ Agreed'
<1>1. Given'
  BY DEF Given
<1>2. OneSource'
  BY DEF OneSource
<1>3. Agreed'
  BY DEF Agreed
<1> QED
  BY <1>1, <1>2, <1>3

LEMMA AnswersKept ==
    ASSUME SameAnswers, UNCHANGED answers PROVE SameAnswers'
  BY DEF SameAnswers

LEMMA RegisterStep ==
    ASSUME IInv, NEW s \in Systems, Register(s) PROVE IInv'
<1> USE DEF IInv
<1>1. PICK ps \in Catalogue[s], transferable \in BOOLEAN :
        /\ transferable => Transferable(ps)
        /\ params' = [params EXCEPT ![s] = ps]
        /\ stage' = [stage EXCEPT ![s] = IF Admitted(ps, transferable) THEN "registered" ELSE "refused"]
        /\ mobile' = IF transferable THEN mobile \cup {s} ELSE mobile
  BY DEF Register
<1>2. stage[s] = "unregistered" /\ UNCHANGED <<at, built, cohort, live, marks, answers>>
  BY DEF Register
<1>3. TypeOK'
  BY <1>1, <1>2 DEF TypeOK, Stages
<1>4. /\ params'[s] = ps /\ stage'[s] \in {"registered", "refused"}
      /\ stage'[s] = "registered" => Admitted(ps, transferable)
      /\ \A t \in Systems \ {s} : params'[t] = params[t] /\ stage'[t] = stage[t]
  BY <1>1 DEF TypeOK
<1>5. Signed'
  <2> SUFFICES ASSUME NEW t \in Systems
               PROVE  /\ stage'[t] # "unregistered" => params'[t] \in Catalogue[t]
                      /\ Accepted(t)' => ~BorrowConflict(params'[t]) /\ ~AccessConflict(params'[t])
                      /\ stage'[t] = "unregistered" => t \notin mobile' /\ params'[t] = <<>>
                      /\ t \in mobile' => Transferable(params'[t])
    BY DEF Signed
  <2>1. CASE t = s
    BY <1>1, <1>2, <1>4, <2>1 DEF Signed, Accepted, Admitted
  <2>2. CASE t # s
    BY <1>1, <1>4, <2>2 DEF Signed, Accepted
  <2> QED
    BY <2>1, <2>2
<1>6. Busy' = Busy /\ s \notin cohort
  BY <1>2, <1>4 DEF Busy, Together, Accepted
<1>7. Together'
  BY <1>1, <1>2, <1>4, <1>6 DEF Together, Accepted, TypeOK, Busy
<1>8. Packed'
  BY <1>2, <1>4 DEF Packed
<1>9. \A r \in live : r.sys \in Systems \ {s}
  BY <1>2 DEF Given
<1>10. Given' /\ Agreed'
  BY <1>2, <1>4, <1>9 DEF Given, Agreed
<1>11. OneSource'
  <2> SUFFICES ASSUME NEW t \in Systems, NEW i \in DOMAIN params'[t], params'[t][i].kind = "query"
               PROVE  \E items \in Sources(params'[t][i]) :
                        \A r \in live : r.sys = t /\ r.param = i => FromItem(r, items)
    BY <1>2 DEF OneSource
  <2>1. CASE t = s
    BY <1>9, <2>1 DEF Sources
  <2>2. CASE t # s
    BY <1>4, <2>2 DEF OneSource
  <2> QED
    BY <2>1, <2>2
<1>12. SameAnswers' /\ PreparationSuffices'
  BY <1>2, <1>4, AnswersKept DEF PreparationSuffices
<1> QED
  BY <1>3, <1>5, <1>7, <1>8, <1>10, <1>11, <1>12

LEMMA FormCohortStep ==
    ASSUME IInv, NEW members \in SUBSET Systems, FormCohort(members) PROVE IInv'
<1> USE DEF IInv
<1>1. /\ Busy = {} /\ members # {}
      /\ \A s \in members : s \in mobile /\ stage[s] = "registered"
      /\ \A s, t \in members : s # t => ~Conflict(params[s], params[t])
      /\ cohort' = members
      /\ stage' = [s \in Systems |-> IF s \in members THEN "preparing" ELSE stage[s]]
      /\ UNCHANGED <<params, mobile, at, built, live, marks, answers>>
  BY DEF FormCohort
<1>2. TypeOK'
  BY <1>1 DEF TypeOK, Stages
<1>3. Signed'
  BY <1>1, SignedKept
<1>4. Together'
  BY <1>1 DEF Together, Accepted, Busy
<1>5. Packed'
  <2> SUFFICES ASSUME NEW s \in Systems
               PROVE  /\ stage'[s] \in {"unregistered", "refused", "registered"} => built[s] = {} /\ at[s] = 1
                      /\ built[s] \subseteq PackageOf(params[s])
                      /\ stage'[s] = "preparing" =>
                           \A i \in DOMAIN params[s] : i < at[s] => Prepared(params[s][i]) \subseteq built[s]
                      /\ s \in cohort' /\ stage'[s] \in {"prepared", "running"} => built[s] = PackageOf(params[s])
    BY <1>1 DEF Packed
  <2>1. CASE s \in members
    BY <1>1, <2>1, Signature DEF Packed
  <2>2. CASE s \notin members
    BY <1>1, <2>2 DEF Packed
  <2> QED
    BY <2>1, <2>2
<1>6. Given' /\ OneSource' /\ Agreed'
  BY <1>1, NothingGiven
<1>7. SameAnswers' /\ PreparationSuffices'
  BY <1>1, AnswersKept DEF PreparationSuffices
<1> QED
  BY <1>2, <1>3, <1>4, <1>5, <1>6, <1>7

\* Only a member of a cohort is prepared, and then everyone busy is a member.
LEMMA OnlyMembersPrepare ==
    ASSUME Together, NEW s \in Systems, stage[s] \in {"preparing", "prepared"}
    PROVE  s \in cohort /\ Busy \subseteq cohort
  BY DEF Together, Busy

LEMMA PreparationFailsStep ==
    ASSUME IInv, NEW s \in Systems, PreparationFails(s) PROVE IInv'
<1> USE DEF IInv
<1>1. /\ stage[s] = "preparing"
      /\ stage' = [t \in Systems |-> IF t = s THEN "failed"
                                     ELSE IF t \in cohort THEN "registered" ELSE stage[t]]
      /\ at' = [t \in Systems |-> IF t \in cohort THEN 1 ELSE at[t]]
      /\ built' = [t \in Systems |-> IF t \in cohort THEN {} ELSE built[t]]
      /\ cohort' = {}
      /\ UNCHANGED <<params, mobile, live, marks, answers>>
  BY DEF PreparationFails
<1>2. s \in cohort /\ Busy \subseteq cohort
  BY <1>1, OnlyMembersPrepare
<1>3. TypeOK'
  BY <1>1 DEF TypeOK, Stages
<1>4. \A t \in cohort : Accepted(t)
  BY DEF Together
<1>5. Signed'
  BY <1>1, <1>2, <1>4, SignedKept DEF Accepted
<1>6. Busy' = {}
  BY <1>1, <1>2 DEF Busy
<1>7. Together'
  BY <1>1, <1>6 DEF Together
<1>8. Packed'
  BY <1>1, <1>2 DEF Packed
<1>9. \A t \in Systems : stage[t] # "running"
  BY <1>1, <1>2 DEF Together, Busy
<1>10. Given' /\ OneSource' /\ Agreed'
  BY <1>1, <1>9, NothingGiven
<1>11. SameAnswers' /\ PreparationSuffices'
  BY <1>1, AnswersKept DEF PreparationSuffices
<1> QED
  BY <1>3, <1>5, <1>7, <1>8, <1>10, <1>11

\* A package asks for no payload both ways.
LEMMA NeverMixed ==
    ASSUME NEW ps, ~AccessConflict(ps), NEW package, package \subseteq PackageOf(ps),
           \A i \in DOMAIN ps : SoundParam(ps[i])
    PROVE  ~Mixed(package)
<1>1. ASSUME NEW x \in PackageOf(ps), x[1] = "payload"
      PROVE  /\ x[3] = "shared" => x[2] \in Reads(ps)
             /\ x[3] = "exclusive" => x[2] \in Writes(ps)
  <2>1. PICK i \in DOMAIN ps : x \in Prepared(ps[i])
    BY <1>1 DEF PackageOf
  <2>2. SoundParam(ps[i])
    OBVIOUS
  <2>3. PICK j \in DOMAIN Borrows(ps[i]) : x = Payload(Borrows(ps[i])[j])
    <3>1. CASE ps[i].kind = "query"
      <4>1. x \in QueryPrepared(ps[i])
        BY <2>1, <3>1 DEF Prepared
      <4> QED
        BY <1>1, <4>1 DEF QueryPrepared, Span, Alive, Member, Metadata, ElementsOf
    <3>2. CASE ps[i].kind \in HandleKinds
      <4>1. x \in HandlePrepared(ps[i])
        BY <2>1, <3>2 DEF Prepared, HandleKinds
      <4> QED
        BY <1>1, <4>1 DEF HandlePrepared, Alive, Validation, ElementsOf
    <3>3. CASE ps[i].kind = "removed"
      <4>1. x = Records(ps[i].on)
        BY <2>1, <3>3 DEF Prepared
      <4> QED
        BY <1>1, <4>1 DEF Records
    <3>4. CASE ps[i].kind \in {"world", "commands", "localCommands"}
      BY <2>1, <3>4 DEF Prepared
    <3> QED
      BY <2>2, <3>1, <3>2, <3>3, <3>4 DEF SoundParam, Kinds, HandleKinds
  <2>4. x[2] = Borrows(ps[i])[j].key /\ x[3] = Borrows(ps[i])[j].mode
    BY <2>3 DEF Payload
  <2> QED
    BY <2>4, BorrowIsAccess
<1> SUFFICES ASSUME Mixed(package) PROVE FALSE
  OBVIOUS
<1>2. PICK x \in package : /\ x[1] = "payload" /\ x[3] = "shared"
                           /\ Payload([key |-> x[2], mode |-> "exclusive"]) \in package
  BY DEF Mixed
<1>3. <<"payload", x[2], "exclusive">> \in PackageOf(ps)
  BY <1>2 DEF Payload
<1>4. x[2] \in Writes(ps)
  <2> DEFINE y == <<"payload", x[2], "exclusive">>
  <2>1. y[1] = "payload" /\ y[2] = x[2] /\ y[3] = "exclusive"
    OBVIOUS
  <2> QED
    BY <1>1, <1>3, <2>1
<1>5. x[2] \in Reads(ps)
  BY <1>1, <1>2
<1> QED
  BY <1>4, <1>5 DEF AccessConflict

LEMMA PrepareStep ==
    ASSUME IInv, NEW s \in Systems, Prepare(s) PROVE IInv'
<1> USE DEF IInv
<1> DEFINE ps == params[s]
<1>1. /\ stage[s] = "preparing" /\ at[s] \in DOMAIN ps
      /\ built' = [built EXCEPT ![s] = @ \cup Prepared(ps[at[s]])]
      /\ at' = [at EXCEPT ![s] = @ + 1]
      /\ stage' = IF Mixed(built'[s]) THEN [stage EXCEPT ![s] = "violated"] ELSE stage
      /\ UNCHANGED <<params, mobile, cohort, live, marks, answers>>
  BY DEF Prepare
<1>2. /\ built'[s] = built[s] \cup Prepared(ps[at[s]])
      /\ at'[s] = at[s] + 1 /\ at[s] \in Nat
      /\ \A t \in Systems \ {s} : built'[t] = built[t] /\ at'[t] = at[t]
  BY <1>1 DEF TypeOK
<1>3. built'[s] \subseteq PackageOf(ps)
  <2>1. Prepared(ps[at[s]]) \subseteq PackageOf(ps)
    BY <1>1 DEF PackageOf
  <2> QED
    BY <1>2, <2>1 DEF Packed
<1>4. ~Mixed(built'[s])
  BY <1>1, <1>3, Signature, NeverMixed DEF Signed, Accepted
<1>5. UNCHANGED <<params, mobile, stage, cohort, live, marks, answers>>
  BY <1>1, <1>4
<1>6. TypeOK'
  BY <1>1, <1>5 DEF TypeOK
<1>7. Signed'
  BY <1>5, SignedKept
<1>8. Together'
  BY <1>5 DEF Together, Accepted, Busy
<1>9. Packed'
  <2> SUFFICES ASSUME NEW t \in Systems
               PROVE  /\ stage[t] \in {"unregistered", "refused", "registered"} => built'[t] = {} /\ at'[t] = 1
                      /\ built'[t] \subseteq PackageOf(params[t])
                      /\ stage[t] = "preparing" =>
                           \A i \in DOMAIN params[t] : i < at'[t] => Prepared(params[t][i]) \subseteq built'[t]
                      /\ t \in cohort /\ stage[t] \in {"prepared", "running"} => built'[t] = PackageOf(params[t])
    BY <1>5 DEF Packed
  <2>1. CASE t = s
    <3>1. \A i \in DOMAIN ps : i < at'[s] => i < at[s] \/ i = at[s]
      BY <1>1, <1>2, Signature
    <3> QED
      BY <1>1, <1>2, <1>3, <2>1, <3>1 DEF Packed
  <2>2. CASE t # s
    BY <1>2, <2>2 DEF Packed
  <2> QED
    BY <2>1, <2>2
<1>10. Given' /\ OneSource' /\ Agreed'
  BY <1>1, <1>2, <1>5, NothingGiven
<1>11. SameAnswers' /\ PreparationSuffices'
  BY <1>5, AnswersKept DEF PreparationSuffices
<1> QED
  BY <1>6, <1>7, <1>8, <1>9, <1>10, <1>11

LEMMA FinishPreparationStep ==
    ASSUME IInv, NEW s \in Systems, FinishPreparation(s) PROVE IInv'
<1> USE DEF IInv
<1>1. /\ stage[s] = "preparing" /\ at[s] \notin DOMAIN params[s]
      /\ stage' = [stage EXCEPT ![s] = "prepared"]
      /\ UNCHANGED <<params, mobile, at, built, cohort, live, marks, answers>>
  BY DEF FinishPreparation
<1>2. stage'[s] = "prepared" /\ \A t \in Systems \ {s} : stage'[t] = stage[t]
  BY <1>1 DEF TypeOK
<1>3. s \in cohort /\ Busy \subseteq cohort
  BY <1>1, OnlyMembersPrepare
<1>4. TypeOK'
  BY <1>1 DEF TypeOK, Stages
<1>5. Signed'
  BY <1>1, <1>2, SignedKept
<1>6. Busy' = Busy
  BY <1>1, <1>2 DEF Busy
<1>7. Together'
  BY <1>1, <1>2, <1>3, <1>6 DEF Together, Accepted
<1>8. built[s] = PackageOf(params[s])
  <2>1. \A i \in DOMAIN params[s] : i < at[s]
    BY <1>1, Signature DEF TypeOK
  <2>2. \A i \in DOMAIN params[s] : Prepared(params[s][i]) \subseteq built[s]
    BY <1>1, <2>1 DEF Packed
  <2>3. PackageOf(params[s]) \subseteq built[s]
    BY <2>2 DEF PackageOf
  <2> QED
    BY <2>3 DEF Packed
<1>9. Packed'
  BY <1>1, <1>2, <1>8 DEF Packed
<1>10. Given' /\ OneSource' /\ Agreed'
  BY <1>1, <1>2, NothingGiven
<1>11. SameAnswers' /\ PreparationSuffices'
  BY <1>1, <1>2, AnswersKept DEF PreparationSuffices
<1> QED
  BY <1>4, <1>5, <1>7, <1>9, <1>10, <1>11

-----------------------------------------------------------------------------
(***************************************************************************)
(* Steps that extract handles.                                             *)
(***************************************************************************)
LEMMA HandlesKnown ==
    ASSUME NEW s \in Systems, NEW r \in Handles(s)
    PROVE  /\ r = Held(r.sys, r.param, r.term, r.key, r.of, r.mode)
           /\ r.sys = s /\ r.param \in DOMAIN params[s]
           /\ FromHandle(r, params[s][r.param]) \/ FromWorld(r, params[s][r.param])
           /\ ~OfComponent(r.key)
<1> DEFINE ps == params[s]
<1>1. CASE r \in {Held(s, i, 1, Borrows(ps[i])[1].key, Singular, Borrows(ps[i])[1].mode) :
                    i \in {k \in DOMAIN ps : ps[k].kind \in {"res", "resMut", "relations", "relationsMut"}}}
  <2>1. PICK i \in DOMAIN ps : /\ ps[i].kind \in HandleKinds
                               /\ r = Held(s, i, 1, Borrows(ps[i])[1].key, Singular, Borrows(ps[i])[1].mode)
    BY <1>1 DEF HandleKinds
  <2>2. r = Held(r.sys, r.param, r.term, r.key, r.of, r.mode) /\ r.sys = s /\ r.param = i /\ FromHandle(r, ps[i])
    BY <2>1 DEF Held, FromHandle
  <2>3. PICK key, mode : Borrows(ps[i]) = <<Borrow(key, mode)>> /\ key[1] \in {"resource", "relation"}
    BY <2>1, BorrowsOfHandle
  <2>4. r.key = key
    BY <2>1, <2>3 DEF Held, Borrow
  <2> QED
    BY <2>2, <2>3, <2>4 DEF OfComponent
<1>2. CASE r \in {Held(s, i, 1, Everything, Singular, "exclusive") : i \in WholeWorlds(ps)}
  <2>1. PICK i \in WholeWorlds(ps) : r = Held(s, i, 1, Everything, Singular, "exclusive")
    BY <1>2
  <2> QED
    BY <2>1 DEF Held, FromWorld, WholeWorlds, OfComponent, Everything
<1> QED
  BY <1>1, <1>2 DEF Handles

LEMMA HandlesGiven ==
    ASSUME IInv, NEW s \in Systems, stage[s] # "running", stage'[s] = "running",
           \A t \in Systems \ {s} : stage'[t] = stage[t] /\ at'[t] = at[t],
           live' = live \cup Handles(s), UNCHANGED <<params, marks>>
    PROVE  Given' /\ OneSource' /\ Agreed'
<1> USE DEF IInv
<1>1. \A r \in live : r.sys \in Systems \ {s}
  BY DEF Given
<1>2. Given'
  <2> SUFFICES ASSUME NEW r \in live'
               PROVE  /\ r = Held(r.sys, r.param, r.term, r.key, r.of, r.mode)
                      /\ r.sys \in Systems /\ stage'[r.sys] = "running" /\ r.param \in DOMAIN params[r.sys]
                      /\ LET p == params[r.sys][r.param] IN
                         FromHandle(r, p) \/ FromWorld(r, p) \/ (p.kind = "query" /\ r.param < at'[r.sys])
    BY DEF Given
  <2>1. CASE r \in live
    BY <1>1, <2>1 DEF Given
  <2>2. CASE r \in Handles(s)
    BY <2>2, HandlesKnown
  <2> QED
    BY <2>1, <2>2
<1>3. OneSource'
  <2> SUFFICES ASSUME NEW t \in Systems, NEW i \in DOMAIN params[t], params[t][i].kind = "query"
               PROVE  \E items \in Sources(params[t][i]) :
                        \A r \in live' : r.sys = t /\ r.param = i => FromItem(r, items)
    BY DEF OneSource
  <2>1. \A r \in Handles(s) : ~(r.sys = t /\ r.param = i)
    BY HandlesKnown DEF FromHandle, FromWorld, HandleKinds
  <2>2. PICK items \in Sources(params[t][i]) : \A r \in live : r.sys = t /\ r.param = i => FromItem(r, items)
    BY DEF OneSource
  <2> QED
    BY <2>1, <2>2
<1>4. Agreed'
  BY HandlesKnown DEF Agreed
<1> QED
  BY <1>2, <1>3, <1>4

LEMMA RunSeriallyStep ==
    ASSUME IInv, NEW s \in Systems, RunSerially(s) PROVE IInv'
<1> USE DEF IInv
<1>1. /\ Busy = {} /\ stage[s] = "registered"
      /\ UNCHANGED <<params, mobile, built, cohort, marks, answers>>
  BY DEF RunSerially
<1>2. \/ stage' = [stage EXCEPT ![s] = "failed"] /\ UNCHANGED <<at, live>>
      \/ /\ stage' = [stage EXCEPT ![s] = "running"]
         /\ at' = [at EXCEPT ![s] = 1]
         /\ live' = live \cup Handles(s)
  BY DEF RunSerially
<1>3. /\ stage'[s] \in {"failed", "running"}
      /\ \A t \in Systems \ {s} : stage'[t] = stage[t] /\ at'[t] = at[t]
  BY <1>2 DEF TypeOK
<1>4. TypeOK'
  BY <1>1, <1>2 DEF TypeOK, Stages
<1>5. Signed'
  BY <1>1, <1>3, SignedKept
<1>6. cohort = {} /\ Busy' \subseteq {s}
  BY <1>1, <1>3 DEF Together, Busy
<1>7. Together'
  BY <1>1, <1>3, <1>6 DEF Together, Busy
<1>8. Packed'
  BY <1>1, <1>3, <1>6 DEF Packed
<1>9. Given' /\ OneSource' /\ Agreed'
  <2>1. CASE stage'[s] = "failed"
    BY <1>1, <1>2, <1>3, <2>1, NothingGiven DEF TypeOK
  <2>2. CASE stage'[s] = "running"
    BY <1>1, <1>2, <1>3, <2>2, HandlesGiven DEF TypeOK
  <2> QED
    BY <1>3, <2>1, <2>2
<1>10. SameAnswers' /\ PreparationSuffices'
  BY <1>1, <1>3, AnswersKept DEF PreparationSuffices
<1> QED
  BY <1>4, <1>5, <1>7, <1>8, <1>9, <1>10

\* What a member's handles look up is in its package.
LEMMA HandlesArePrepared ==
    ASSUME IInv, NEW s \in cohort, stage[s] = "prepared" PROVE HandlesPrepared(s)
<1> USE DEF IInv
<1>1. s \in Systems /\ built[s] = PackageOf(params[s]) /\ Transferable(params[s])
  BY DEF TypeOK, Packed, Together, Signed
<1>2. \A i \in DOMAIN params[s] : params[s][i].kind \in HandleKinds =>
        HandlePrepared(params[s][i]) = Prepared(params[s][i])
  BY DEF Prepared, HandleKinds
<1>3. \A i \in DOMAIN params[s] : Prepared(params[s][i]) \subseteq PackageOf(params[s])
  BY DEF PackageOf
<1> QED
  BY <1>1, <1>2, <1>3 DEF HandlesPrepared, Transferable, HandleKinds

LEMMA LaunchStep ==
    ASSUME IInv, NEW s \in Systems, Launch(s) PROVE IInv'
<1> USE DEF IInv
<1>1. stage[s] = "prepared" /\ s \in cohort /\ Busy \subseteq cohort
  BY OnlyMembersPrepare DEF Launch
<1>2. /\ \A t \in cohort : stage[t] # "preparing"
      /\ stage' = [stage EXCEPT ![s] = "running"]
      /\ at' = [at EXCEPT ![s] = 1]
      /\ live' = live \cup Handles(s)
      /\ UNCHANGED <<params, mobile, built, cohort, marks, answers>>
  BY <1>1, HandlesArePrepared DEF Launch
<1>3. /\ stage'[s] = "running"
      /\ \A t \in Systems \ {s} : stage'[t] = stage[t] /\ at'[t] = at[t]
  BY <1>2 DEF TypeOK
<1>4. TypeOK'
  BY <1>2 DEF TypeOK, Stages
<1>5. Signed'
  BY <1>1, <1>2, <1>3, SignedKept
<1>6. Busy' = Busy
  BY <1>1, <1>3 DEF Busy
<1>7. Together'
  BY <1>1, <1>2, <1>3, <1>6 DEF Together, Accepted, TypeOK
<1>8. Packed'
  BY <1>1, <1>2, <1>3 DEF Packed
<1>9. Given' /\ OneSource' /\ Agreed'
  BY <1>1, <1>2, <1>3, HandlesGiven
<1>10. SameAnswers' /\ PreparationSuffices'
  BY <1>2, <1>3, AnswersKept DEF PreparationSuffices
<1> QED
  BY <1>4, <1>5, <1>7, <1>8, <1>9, <1>10

-----------------------------------------------------------------------------
(***************************************************************************)
(* Steps that use a parameter.                                             *)
(***************************************************************************)
\* A package holds the projection of a query if that query is projected, and its parts if not.
LEMMA ProjectionKnown ==
    ASSUME IInv, NEW s \in cohort, stage[s] = "running", NEW i \in DOMAIN params[s],
           params[s][i].kind = "query"
    PROVE  /\ Span(params[s][i]) \in built[s] <=> Projected(params[s][i])
           /\ QueryPrepared(params[s][i]) \subseteq built[s]
<1> USE DEF IInv
<1> DEFINE ps == params[s]
           p == ps[i]
<1>1. s \in Systems /\ built[s] = PackageOf(ps)
  BY DEF TypeOK, Packed
<1>2. QueryPrepared(p) \subseteq built[s]
  <2>1. Prepared(p) = QueryPrepared(p)
    BY DEF Prepared
  <2> QED
    BY <1>1, <2>1 DEF PackageOf
<1>3. Projected(p) => Span(p) \in built[s]
  BY <1>2 DEF QueryPrepared
<1>4. ASSUME Span(p) \in built[s] PROVE Projected(p)
  <2>1. PICK k \in DOMAIN ps : Span(p) \in Prepared(ps[k])
    BY <1>1, <1>4 DEF PackageOf
  <2>2. SoundParam(ps[k])
    BY <1>1, Signature
  <2>3. ps[k].kind = "query"
    <3>1. CASE ps[k].kind \in HandleKinds
      <4>1. Span(p) \in HandlePrepared(ps[k])
        BY <2>1, <3>1 DEF Prepared, HandleKinds
      <4> QED
        BY <4>1 DEF HandlePrepared, Span, Payload, Alive, Validation
    <3>2. CASE ps[k].kind = "removed"
      <4>1. Span(p) = Records(ps[k].on)
        BY <2>1, <3>2 DEF Prepared
      <4> QED
        BY <4>1 DEF Span, Records
    <3>3. CASE ps[k].kind \in {"world", "commands", "localCommands"}
      BY <2>1, <3>3 DEF Prepared
    <3> QED
      BY <2>2, <3>1, <3>2, <3>3 DEF SoundParam, Kinds, HandleKinds
  <2>4. Span(p) \in QueryPrepared(ps[k])
    BY <2>1, <2>3 DEF Prepared
  <2>5. Projected(ps[k]) /\ Span(p) = Span(ps[k])
    BY <2>4 DEF QueryPrepared, Span, Alive, Member, Payload, Metadata
  <2>6. p.form = ps[k].form /\ p.filter = ps[k].filter
    BY <2>5 DEF Span
  <2> QED
    BY <2>5, <2>6 DEF Projected
<1> QED
  BY <1>2, <1>3, <1>4

LEMMA QueryServed ==
    ASSUME IInv, NEW s \in Systems, stage[s] = "running", NEW i \in DOMAIN params[s],
           params[s][i].kind = "query", NEW via
    PROVE  Served(s, params[s][i], via)
<1> USE DEF IInv
<1> DEFINE p == params[s][i]
<1>1. SoundParam(p) /\ Sound(p.form)
  BY Signature DEF SoundParam
<1>2. \A pair \in p.form.apart : pair[1] # pair[2]
  <2>1. Harmless(p.form.declares)
    BY <1>1, BorrowsHarmless DEF Signed, Accepted
  <2> QED
    BY <1>1, <2>1 DEF Sound
<1>3. ASSUME s \in cohort, Projected(p) PROVE FilterReady(s, p) /\ OnSpans(s, p, via)
  <2>1. Looked(p.filter) = {}
    BY <1>3 DEF Projected, NeedsTicks, Looked
  <2>2. OnSpans(s, p, via)
    BY <1>3, ProjectionKnown DEF OnSpans, Projected
  <2> QED
    BY <2>1, <2>2 DEF FilterReady
<1>4. ASSUME s \in cohort, ~Projected(p) PROVE FilterReady(s, p) /\ FetchReady(s, p, Rows(s, p, via))
  <2>1. QueryPrepared(p) \subseteq built[s]
    BY <1>4, ProjectionKnown
  <2>2. /\ \A c \in Required(p.form, p.filter) \cup Excluded(p.filter) \cup Carried(p) \cup Looked(p.filter) :
            Member(c) \in built[s]
        /\ \A b \in ElementsOf(Borrows(p)) : Payload(b) \in built[s]
        /\ \A c \in Looked(p.filter) : Metadata(c) \in built[s]
    BY <1>4, <2>1 DEF QueryPrepared
  <2>3. FilterReady(s, p)
    BY <2>2 DEF FilterReady
  <2>4. ASSUME NEW e, NEW d \in ElementsOf(p.form.fetches) PROVE PayloadReady(s, e, d)
    <3>1. PICK k \in DOMAIN p.form.declares : p.form.declares[k].on = d.on /\ p.form.declares[k].mode = d.mode
      BY <1>1, <2>4 DEF Sound, SoundItems, Covered, ElementsOf
    <3>2. d.on \in Carried(p) /\ d.mode \in Modes
      BY <1>1, <3>1 DEF Carried, ElementsOf, Sound
    <3>3. k \in DOMAIN Borrows(p) /\ Borrows(p)[k] = Borrow(Component(d.on), d.mode)
      BY <3>1, BorrowsOfQuery
    <3>4. Borrow(Component(d.on), d.mode) \in ElementsOf(Borrows(p))
      BY <3>3, Zenon DEF ElementsOf
    <3> QED
      BY <2>2, <3>2, <3>4 DEF PayloadReady, Modes
  <2>5. FetchReady(s, p, Rows(s, p, via))
    BY <2>2, <2>4 DEF FetchReady
  <2> QED
    BY <2>3, <2>5
<1> QED
  BY <1>2, <1>3, <1>4 DEF Served

LEMMA QueryAnswers ==
    ASSUME IInv, NEW s \in Systems, stage[s] = "running", NEW i \in DOMAIN params[s],
           params[s][i].kind = "query", NEW look \in Looking
    PROVE  LET p == params[s][i] IN
           Rows(s, p, look.via) \cap look.at = {e \in look.at : Fits(p, e) /\ Fresh(p, e)}
<1> USE DEF IInv
<1> DEFINE p == params[s][i]
<1>1. look.at \subseteq Entities
  BY DEF Looking
<1>2. CASE OnSpans(s, p, look.via)
  <2>1. look.via = "iter" \/ Projected(p)
    BY <1>2, ProjectionKnown DEF OnSpans
  <2>2. Projected(p) => \A e : Fresh(p, e)
    BY DEF Projected, NeedsTicks, Fresh
  <2>3. Rows(s, p, look.via) = {e \in Entities : Fits(p, e) /\ (look.via = "iter" => Fresh(p, e))}
    BY <1>2 DEF Rows, SpanRows
  <2>4. \A e \in Entities : (look.via = "iter" => Fresh(p, e)) <=> Fresh(p, e)
    BY <2>1, <2>2
  <2> QED
    BY <1>1, <2>3, <2>4
<1>3. CASE ~OnSpans(s, p, look.via)
  <2>1. s \in cohort => Alive \in built[s]
    <3> SUFFICES ASSUME s \in cohort PROVE Alive \in built[s]
      OBVIOUS
    <3>1. ~Projected(p)
      BY <1>3, ProjectionKnown DEF OnSpans, Projected
    <3> QED
      BY <3>1, ProjectionKnown DEF QueryPrepared
  <2>2. Known(s) = Entities
    BY <2>1 DEF Known
  <2>3. Rows(s, p, look.via) = {e \in Entities : Fits(p, e) /\ Fresh(p, e)}
    BY <1>3, <2>2 DEF Rows
  <2> QED
    BY <1>1, <2>3
<1> QED
  BY <1>2, <1>3

LEMMA TakenKnown ==
    ASSUME NEW s, NEW i, NEW via, NEW given, NEW r
    PROVE  r \in Taken(s, i, via, given) <=>
             \E e \in given : \E k \in DOMAIN ItemsOf(s, params[s][i], via) :
                /\ ItemsOf(s, params[s][i], via)[k].on \in Has[e]
                /\ r = Held(s, i, k, Component(ItemsOf(s, params[s][i], via)[k].on), e,
                            ItemsOf(s, params[s][i], via)[k].mode)
<1> DEFINE items == ItemsOf(s, params[s][i], via)
           of(e) == {Held(s, i, j, Component(items[j].on), e, items[j].mode) :
                       j \in {k \in DOMAIN items : items[k].on \in Has[e]}}
<1>1. Taken(s, i, via, given) = UNION {of(e) : e \in given}
  BY DEF Taken
<1>2. \A e \in given : r \in of(e) <=>
        \E k \in DOMAIN items : /\ items[k].on \in Has[e]
                                /\ r = Held(s, i, k, Component(items[k].on), e, items[k].mode)
  OBVIOUS
<1> HIDE DEF items, of
<1>3. r \in Taken(s, i, via, given) <=> \E e \in given : r \in of(e)
  BY <1>1
<1> QED
  BY <1>2, <1>3 DEF items

LEMMA MarkedKnown ==
    ASSUME NEW s, NEW i, NEW given, NEW m
    PROVE  m \in MarkedBy(s, i, given) <=>
             \E e \in given : \E c \in params[s][i].form.marks \cap Has[e] : m = <<s, i, Component(c), e>>
<1> DEFINE of(e) == {<<s, i, Component(c), e>> : c \in params[s][i].form.marks \cap Has[e]}
<1>1. MarkedBy(s, i, given) = UNION {of(e) : e \in given}
  BY DEF MarkedBy
<1>2. \A e \in given : m \in of(e) <=>
        \E c \in params[s][i].form.marks \cap Has[e] : m = <<s, i, Component(c), e>>
  OBVIOUS
<1> HIDE DEF of
<1>3. m \in MarkedBy(s, i, given) <=> \E e \in given : m \in of(e)
  BY <1>1
<1> QED
  BY <1>2, <1>3

LEMMA QueryGives ==
    ASSUME IInv, NEW s \in Systems, stage[s] = "running", NEW i \in DOMAIN params[s], i = at[s],
           params[s][i].kind = "query", NEW via, NEW given,
           live' = live \cup Taken(s, i, via, given), marks' = marks \cup MarkedBy(s, i, given),
           at' = [at EXCEPT ![s] = @ + 1], UNCHANGED <<params, stage>>
    PROVE  Given' /\ OneSource' /\ Agreed'
<1> USE DEF IInv
<1> DEFINE p == params[s][i]
           items == ItemsOf(s, p, via)
<1>1. /\ at'[s] = i + 1 /\ i \in Nat
      /\ \A t \in Systems \ {s} : at'[t] = at[t]
  BY DEF TypeOK
<1>2. items \in Sources(p)
  BY DEF ItemsOf, Sources, OnSpans
<1>3. SoundItems(items, p.form)
  BY <1>2, Signature, SourceSound DEF SoundParam
<1>4. ASSUME NEW r \in Taken(s, i, via, given)
      PROVE  /\ r = Held(s, i, r.term, r.key, r.of, r.mode)
             /\ r.sys = s /\ r.param = i /\ FromItem(r, items) /\ OfComponent(r.key)
             /\ r.mode = "exclusive" => <<s, i, r.key, r.of>> \in MarkedBy(s, i, given)
  <2>1. PICK e \in given, k \in DOMAIN items :
            items[k].on \in Has[e] /\ r = Held(s, i, k, Component(items[k].on), e, items[k].mode)
    BY <1>4, TakenKnown
  <2>2. r = Held(s, i, r.term, r.key, r.of, r.mode) /\ r.sys = s /\ r.param = i
    BY <2>1 DEF Held
  <2>3. FromItem(r, items) /\ OfComponent(r.key)
    BY <2>1 DEF Held, FromItem, OfComponent, Component
  <2>4. r.mode = "exclusive" => items[k].on \in p.form.marks \cap Has[e]
    BY <1>3, <2>1 DEF Held, SoundItems, Reported
  <2>5. r.key = Component(items[k].on) /\ r.of = e
    BY <2>1 DEF Held
  <2> QED
    BY <2>2, <2>3, <2>4, <2>5, MarkedKnown
<1>5. ASSUME NEW m \in MarkedBy(s, i, given)
      PROVE  \E r \in Taken(s, i, via, given) :
                r.mode = "exclusive" /\ OfComponent(r.key) /\ m = <<r.sys, r.param, r.key, r.of>>
  <2>1. PICK e \in given, c \in p.form.marks : c \in Has[e] /\ m = <<s, i, Component(c), e>>
    BY <1>5, MarkedKnown
  <2>2. PICK k \in DOMAIN items : items[k].on = c /\ items[k].mode = "exclusive"
    BY <1>3, <2>1 DEF SoundItems, Reported
  <2> DEFINE r == Held(s, i, k, Component(items[k].on), e, items[k].mode)
  <2>3. r \in Taken(s, i, via, given)
    BY <2>1, <2>2, TakenKnown
  <2>4. r.mode = "exclusive" /\ OfComponent(r.key) /\ m = <<r.sys, r.param, r.key, r.of>>
    BY <2>1, <2>2 DEF Held, OfComponent, Component
  <2> QED
    BY <2>3, <2>4
<1> HIDE DEF p, items
<1>6. Given'
  <2> SUFFICES ASSUME NEW r \in live'
               PROVE  /\ r = Held(r.sys, r.param, r.term, r.key, r.of, r.mode)
                      /\ r.sys \in Systems /\ stage[r.sys] = "running" /\ r.param \in DOMAIN params[r.sys]
                      /\ LET q == params[r.sys][r.param] IN
                         FromHandle(r, q) \/ FromWorld(r, q) \/ (q.kind = "query" /\ r.param < at'[r.sys])
    BY DEF Given
  <2>1. CASE r \in live
    <3>1. r.sys \in Systems /\ r.param \in Nat
      BY <2>1, Signature DEF Given
    <3>2. r.param < at[r.sys] => r.param < at'[r.sys]
      BY <1>1, <3>1
    <3> QED
      BY <2>1, <3>2 DEF Given
  <2>2. CASE r \in Taken(s, i, via, given)
    <3>1. r = Held(s, i, r.term, r.key, r.of, r.mode) /\ r.sys = s /\ r.param = i
      BY <1>4, <2>2
    <3>2. i < at'[s]
      BY <1>1
    <3> QED
      BY <3>1, <3>2
  <2> QED
    BY <2>1, <2>2
<1>7. OneSource'
  <2> SUFFICES ASSUME NEW t \in Systems, NEW j \in DOMAIN params[t], params[t][j].kind = "query"
               PROVE  \E those \in Sources(params[t][j]) :
                        \A r \in live' : r.sys = t /\ r.param = j => FromItem(r, those)
    BY DEF OneSource
  <2>1. CASE t = s /\ j = i
    <3>1. \A r \in live : ~(r.sys = s /\ r.param = i)
      BY <1>1 DEF Given, FromHandle, FromWorld, HandleKinds
    <3> QED
      BY <1>2, <1>4, <2>1, <3>1 DEF p
  <2>2. CASE ~(t = s /\ j = i)
    <3>1. PICK those \in Sources(params[t][j]) : \A r \in live : r.sys = t /\ r.param = j => FromItem(r, those)
      BY DEF OneSource
    <3> QED
      BY <1>4, <2>2, <3>1
  <2> QED
    BY <2>1, <2>2
<1>8. Agreed'
  <2>1. ASSUME NEW m \in marks', OfComponent(m[3])
        PROVE  \E r \in live' : r.mode = "exclusive" /\ OfComponent(r.key) /\ m = <<r.sys, r.param, r.key, r.of>>
    BY <1>5, <2>1 DEF Agreed
  <2>2. ASSUME NEW r \in live', r.mode = "exclusive", OfComponent(r.key)
        PROVE  <<r.sys, r.param, r.key, r.of>> \in marks'
    BY <1>4, <2>2 DEF Agreed
  <2> QED
    BY <2>1, <2>2 DEF Agreed
<1> QED
  BY <1>6, <1>7, <1>8

\* A running system moves to its next parameter: nothing but its place changes for the rest.
LEMMA MovedOn ==
    ASSUME IInv, NEW s \in Systems, stage[s] = "running", at' = [at EXCEPT ![s] = @ + 1],
           UNCHANGED <<params, mobile, stage, built, cohort>>
    PROVE  TypeOK' /\ Signed' /\ Together' /\ Packed'
<1> USE DEF IInv
<1>1. \A t \in Systems \ {s} : at'[t] = at[t]
  BY DEF TypeOK
<1>2. TypeOK'
  BY DEF TypeOK
<1>3. Signed'
  BY SignedKept
<1>4. Together'
  BY DEF Together, Accepted, Busy
<1>5. Packed'
  BY <1>1 DEF Packed
<1> QED
  BY <1>2, <1>3, <1>4, <1>5

LEMMA NothingTaken ==
    ASSUME IInv, NEW s \in Systems, stage[s] = "running", at' = [at EXCEPT ![s] = @ + 1],
           UNCHANGED <<params, stage, live>>,
           marks' = marks \/ \E m : ~OfComponent(m[3]) /\ marks' = marks \cup {m}
    PROVE  Given' /\ OneSource' /\ Agreed'
<1> USE DEF IInv
<1>1. /\ at'[s] = at[s] + 1 /\ at[s] \in Nat
      /\ \A t \in Systems \ {s} : at'[t] = at[t]
  BY DEF TypeOK
<1>2. \A r \in live : r.sys \in Systems /\ r.param \in Nat
  BY Signature DEF Given
<1>3. Given'
  BY <1>1, <1>2 DEF Given
<1>4. OneSource'
  BY DEF OneSource
<1>5. Agreed'
  BY DEF Agreed
<1> QED
  BY <1>3, <1>4, <1>5

LEMMA UseQueryStep ==
    ASSUME IInv, NEW s \in Systems, UseQuery(s) PROVE IInv'
<1> USE DEF IInv
<1> DEFINE i == at[s]
           p == params[s][i]
<1>1. /\ stage[s] = "running" /\ i \in DOMAIN params[s] /\ p.kind = "query"
      /\ UNCHANGED <<params, mobile, built, cohort>>
  BY DEF UseQuery
<1>2. PICK look \in Looking :
        LET rows == Rows(s, p, look.via) IN
        IF Served(s, p, look.via)
        THEN \E given \in Handed(look, rows) :
                /\ live' = live \cup Taken(s, i, look.via, given)
                /\ marks' = marks \cup MarkedBy(s, i, given)
                /\ answers' = {[query |-> p, at |-> look.at, rows |-> rows \cap look.at]}
                /\ at' = [at EXCEPT ![s] = @ + 1]
                /\ UNCHANGED stage
        ELSE stage' = [stage EXCEPT ![s] = "violated"] /\ UNCHANGED <<at, live, marks, answers>>
  BY DEF UseQuery
<1>3. Served(s, p, look.via)
  BY <1>1, QueryServed
<1>4. PICK given :
        /\ live' = live \cup Taken(s, i, look.via, given)
        /\ marks' = marks \cup MarkedBy(s, i, given)
        /\ answers' = {[query |-> p, at |-> look.at, rows |-> Rows(s, p, look.via) \cap look.at]}
        /\ at' = [at EXCEPT ![s] = @ + 1]
        /\ UNCHANGED stage
  BY <1>2, <1>3
<1>5. TypeOK' /\ Signed' /\ Together' /\ Packed'
  BY <1>1, <1>4, MovedOn
<1>6. Given' /\ OneSource' /\ Agreed'
  BY <1>1, <1>4, QueryGives
<1>7. SameAnswers'
  <2>1. Rows(s, p, look.via) \cap look.at = {e \in look.at : Fits(p, e) /\ Fresh(p, e)}
    BY <1>1, QueryAnswers
  <2> SUFFICES ASSUME NEW a \in answers' PROVE a.rows = {e \in a.at : Fits(a.query, e) /\ Fresh(a.query, e)}
    BY DEF SameAnswers
  <2>2. a.query = p /\ a.at = look.at /\ a.rows = Rows(s, p, look.via) \cap look.at
    BY <1>4
  <2> QED
    BY <2>1, <2>2
<1>8. PreparationSuffices'
  BY <1>4 DEF PreparationSuffices
<1> QED
  BY <1>5, <1>6, <1>7, <1>8

LEMMA UseRemovedStep ==
    ASSUME IInv, NEW s \in Systems, UseRemoved(s) PROVE IInv'
<1> USE DEF IInv
<1> DEFINE p == params[s][at[s]]
<1>1. /\ stage[s] = "running" /\ at[s] \in DOMAIN params[s] /\ p.kind = "removed"
      /\ UNCHANGED <<params, mobile, built, cohort, live, marks, answers>>
  BY DEF UseRemoved
<1>2. s \in cohort => Records(p.on) \in built[s]
  <2>1. Prepared(p) = {Records(p.on)}
    BY <1>1 DEF Prepared
  <2>2. Records(p.on) \in PackageOf(params[s])
    BY <1>1, <2>1 DEF PackageOf
  <2> QED
    BY <1>1, <2>2 DEF Packed
<1>3. at' = [at EXCEPT ![s] = @ + 1] /\ UNCHANGED stage
  BY <1>2 DEF UseRemoved
<1>4. TypeOK' /\ Signed' /\ Together' /\ Packed'
  BY <1>1, <1>3, MovedOn
<1>5. Given' /\ OneSource' /\ Agreed'
  BY <1>1, <1>3, NothingTaken
<1>6. SameAnswers' /\ PreparationSuffices'
  BY <1>1, <1>3, AnswersKept DEF PreparationSuffices
<1> QED
  BY <1>4, <1>5, <1>6

LEMMA UseHandleStep ==
    ASSUME IInv, NEW s \in Systems, UseHandle(s) PROVE IInv'
<1> USE DEF IInv
<1> DEFINE p == params[s][at[s]]
           m == <<s, at[s], Resource(p.on), Singular>>
<1>1. /\ stage[s] = "running"
      /\ at' = [at EXCEPT ![s] = @ + 1]
      /\ UNCHANGED <<params, mobile, stage, built, cohort, live, answers>>
  BY DEF UseHandle
<1>2. marks' = marks \/ marks' = marks \cup {m}
  BY DEF UseHandle
<1>3. ~OfComponent(m[3])
  BY DEF OfComponent, Resource
<1>4. TypeOK' /\ Signed' /\ Together' /\ Packed'
  BY <1>1, MovedOn
<1>5. Given' /\ OneSource' /\ Agreed'
  BY <1>1, <1>2, <1>3, NothingTaken
<1>6. SameAnswers' /\ PreparationSuffices'
  BY <1>1, AnswersKept DEF PreparationSuffices
<1> QED
  BY <1>4, <1>5, <1>6

LEMMA FinishStep ==
    ASSUME IInv, NEW s \in Systems, Finish(s) PROVE IInv'
<1> USE DEF IInv
<1>1. /\ stage[s] = "running"
      /\ stage' = [stage EXCEPT ![s] = "done"]
      /\ live' = {r \in live : r.sys # s}
      /\ marks' = {m \in marks : m[1] # s}
      /\ cohort' = IF Busy = {s} THEN {} ELSE cohort
      /\ UNCHANGED <<params, mobile, at, built, answers>>
  BY DEF Finish
<1>2. stage'[s] = "done" /\ \A t \in Systems \ {s} : stage'[t] = stage[t]
  BY <1>1 DEF TypeOK
<1>3. TypeOK'
  BY <1>1 DEF TypeOK, Stages
<1>4. Signed'
  BY <1>1, <1>2, SignedKept
<1>5. Busy' = Busy \ {s} /\ s \in Busy
  BY <1>1, <1>2 DEF Busy
<1>6. Together'
  BY <1>1, <1>2, <1>5 DEF Together, Accepted, TypeOK
<1>7. Packed'
  BY <1>1, <1>2 DEF Packed
<1>8. Given'
  BY <1>1, <1>2 DEF Given
<1>9. OneSource'
  BY <1>1 DEF OneSource
<1>10. Agreed'
  <2>1. ASSUME NEW m \in marks', OfComponent(m[3])
        PROVE  \E r \in live' : r.mode = "exclusive" /\ OfComponent(r.key) /\ m = <<r.sys, r.param, r.key, r.of>>
    <3>1. PICK r \in live : r.mode = "exclusive" /\ OfComponent(r.key) /\ m = <<r.sys, r.param, r.key, r.of>>
      BY <1>1, <2>1 DEF Agreed
    <3>2. r.sys # s
      BY <1>1, <3>1
    <3> QED
      BY <1>1, <3>1, <3>2
  <2>2. ASSUME NEW r \in live', r.mode = "exclusive", OfComponent(r.key)
        PROVE  <<r.sys, r.param, r.key, r.of>> \in marks'
    BY <1>1, <2>2 DEF Agreed
  <2> QED
    BY <2>1, <2>2 DEF Agreed
<1>11. SameAnswers' /\ PreparationSuffices'
  BY <1>1, <1>2, AnswersKept DEF PreparationSuffices
<1> QED
  BY <1>3, <1>4, <1>6, <1>7, <1>8, <1>9, <1>10, <1>11

LEMMA Stutter ==
    ASSUME IInv, UNCHANGED vars PROVE IInv'
<1> USE DEF IInv
<1>1. UNCHANGED <<params, mobile, stage, at, built, cohort, live, marks, answers>>
  BY DEF vars
<1>2. TypeOK' /\ Packed'
  BY <1>1 DEF TypeOK, Packed
<1>3. Signed'
  BY <1>1, SignedKept
<1>4. Together'
  BY <1>1 DEF Together, Accepted, Busy
<1>5. Given' /\ OneSource' /\ Agreed'
  BY <1>1, NothingGiven
<1>6. SameAnswers' /\ PreparationSuffices'
  BY <1>1, AnswersKept DEF PreparationSuffices
<1> QED
  BY <1>2, <1>3, <1>4, <1>5, <1>6

-----------------------------------------------------------------------------
(* The invariant holds in every state. *)
THEOREM InductiveInvariant == Spec => []IInv
<1>1. Init => IInv
  BY Initial
<1>2. IInv /\ [Next]_vars => IInv'
  <2> SUFFICES ASSUME IInv, [Next]_vars PROVE IInv'
    OBVIOUS
  <2>1. CASE \E members \in SUBSET Systems : FormCohort(members)
    BY <2>1, FormCohortStep
  <2>2. ASSUME NEW s \in Systems,
               \/ Register(s) \/ RunSerially(s)
               \/ Prepare(s) \/ PreparationFails(s) \/ FinishPreparation(s) \/ Launch(s)
               \/ UseQuery(s) \/ UseRemoved(s) \/ UseHandle(s) \/ Finish(s)
        PROVE  IInv'
    BY <2>2, RegisterStep, RunSeriallyStep, PrepareStep, PreparationFailsStep, FinishPreparationStep,
       LaunchStep, UseQueryStep, UseRemovedStep, UseHandleStep, FinishStep
  <2>3. CASE UNCHANGED vars
    BY <2>3, Stutter
  <2> QED
    BY <2>1, <2>2, <2>3 DEF Next
<1> QED
  BY <1>1, <1>2, PTL DEF Spec

(***************************************************************************)
(* Whatever systems are registered with whatever parameters, no two        *)
(* references the bodies hold alias with one of them exclusive.            *)
(***************************************************************************)
THEOREM AliasingTheorem == Spec => []NoAliasing
  BY InductiveInvariant, InvariantAliasing, PTL

(***************************************************************************)
(* No body, on a worker or alone, meets a projection that was not prepared *)
(* or was prepared both shared and exclusive.                              *)
(***************************************************************************)
THEOREM PreparationTheorem == Spec => []PreparationSuffices
<1>1. IInv => PreparationSuffices
  BY DEF IInv
<1> QED
  BY <1>1, InductiveInvariant, PTL

(***************************************************************************)
(* Every use of a query answers for the entities its form and its filter   *)
(* name, however and wherever it is asked.                                 *)
(***************************************************************************)
THEOREM AnswersTheorem == Spec => []SameAnswers
<1>1. IInv => SameAnswers
  BY DEF IInv
<1> QED
  BY <1>1, InductiveInvariant, PTL

(***************************************************************************)
(* Marks and exclusive component references are the same, of every form.   *)
(***************************************************************************)
THEOREM MarksTheorem == Spec => []MarksExact
  BY InductiveInvariant, InvariantMarks, PTL
=============================================================================
