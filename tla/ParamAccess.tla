----------------------------- MODULE ParamAccess -----------------------------
(***************************************************************************)
(* What the parameters of a system declare, and the two verdicts taken     *)
(* from it: whether the parameters of one system may be held at once, and  *)
(* whether two systems may run at once.  A group of parameters (a tuple or *)
(* a derived struct) declares and extracts what its members do, in their   *)
(* order, so a system is the sequence of its leaves.                       *)
(***************************************************************************)
EXTENDS QueryForms

QueryParam(form, filter) == [kind |-> "query", form |-> form, filter |-> filter]
Removed(T) == [kind |-> "removed", on |-> T]
Res(T) == [kind |-> "res", on |-> T]
ResMut(T) == [kind |-> "resMut", on |-> T]
Relations(R) == [kind |-> "relations", on |-> R]
RelationsMut(R) == [kind |-> "relationsMut", on |-> R]
WorldMut == [kind |-> "world"]
Commands == [kind |-> "commands"]
LocalCommands == [kind |-> "localCommands"]

Kinds == {"query", "removed", "res", "resMut", "relations", "relationsMut", "world", "commands", "localCommands"}

\* The domains keep one name in two domains apart.
Component(T) == <<"component", T>>
RemovedOf(T) == <<"removed", T>>
Resource(T) == <<"resource", T>>
Relation(R) == <<"relation", R>>
Structure == <<"structural", "world_structure">>
Everything == <<"world", "world">>

Borrow(key, mode) == [key |-> key, mode |-> mode]

\* The borrows a parameter counts against its siblings: those of a query's items, not its filter's.
Borrows(p) ==
    CASE p.kind = "query" ->
             [j \in DOMAIN p.form.declares |-> Borrow(Component(p.form.declares[j].on), p.form.declares[j].mode)]
      [] p.kind = "res" -> <<Borrow(Resource(p.on), "shared")>>
      [] p.kind = "resMut" -> <<Borrow(Resource(p.on), "exclusive")>>
      [] p.kind = "relations" -> <<Borrow(Relation(p.on), "shared")>>
      [] p.kind = "relationsMut" -> <<Borrow(Relation(p.on), "exclusive")>>
      [] p.kind \in {"removed", "world", "commands", "localCommands"} -> <<>>

Borrowed(p, mode) == {Borrows(p)[j].key : j \in {k \in DOMAIN Borrows(p) : Borrows(p)[k].mode = mode}}

\* Keys a parameter reads and writes, a filter's metadata included.
ReadsOf(p) ==
    Borrowed(p, "shared")
    \cup (IF p.kind = "query" THEN {Component(c) : c \in Looked(p.filter)} ELSE {})
    \cup (IF p.kind = "removed" THEN {RemovedOf(p.on)} ELSE {})
WritesOf(p) ==
    Borrowed(p, "exclusive")
    \cup (IF p.kind \in {"commands", "localCommands"} THEN {Structure} ELSE {})

\* The access of a system: that of its parameters together.
Reads(ps) == UNION {ReadsOf(ps[i]) : i \in DOMAIN ps}
Writes(ps) == UNION {WritesOf(ps[i]) : i \in DOMAIN ps}
WholeWorlds(ps) == {i \in DOMAIN ps : ps[i].kind = "world"}
Immediate(ps) == (Reads(ps) \cup Writes(ps)) \ {Structure}

-----------------------------------------------------------------------------
\* *Mutated*: two exclusive borrows of one key are let through.
ClashOpposed(b, c) == b.key = c.key /\ b.mode # c.mode
Clash(b, c) == b.key = c.key /\ "exclusive" \in {b.mode, c.mode}

\* The whole world is taken twice, or beside anything else.
WorldShared(ps) ==
    \/ \E i, k \in WholeWorlds(ps) : i # k
    \/ WholeWorlds(ps) # {} /\ Immediate(ps) # {}

BorrowConflict(ps) ==
    \/ WorldShared(ps)
    \/ \E i, k \in DOMAIN ps : \E j \in DOMAIN Borrows(ps[i]), l \in DOMAIN Borrows(ps[k]) :
           <<i, j>> # <<k, l>> /\ Clash(Borrows(ps[i])[j], Borrows(ps[k])[l])

\* A system that reads and writes one key, in whatever parameters.
AccessConflict(ps) == WorldShared(ps) \/ Reads(ps) \cap Writes(ps) # {}

\* Local and transferable recorders do not mix in one system.
RecordersMixed(ps) ==
    \E i, k \in DOMAIN ps : ps[i].kind = "commands" /\ ps[k].kind = "localCommands"
LocalRecorder(ps) == \E i \in DOMAIN ps : ps[i].kind = "localCommands"

\* A system's function is accepted by the type system as transferable.
Transferable(ps) == \A i \in DOMAIN ps : ps[i].kind \notin {"world", "localCommands"}

\* Registration: recorders, the state of every query, borrows, access.
Admitted(ps, transferable) ==
    /\ ~RecordersMixed(ps)
    /\ transferable => ~LocalRecorder(ps)
    /\ \A i \in DOMAIN ps : ps[i].kind = "query" => ~BorrowConflict(<<ps[i]>>)
    /\ ~BorrowConflict(ps)
    /\ ~AccessConflict(ps)

-----------------------------------------------------------------------------
(***************************************************************************)
(* Two systems conflict if one writes what the other touches; recording    *)
(* commands beside another recorder is no conflict, taking the whole world *)
(* beside anything immediate is one.                                       *)
(***************************************************************************)
Conflict(ps, qs) ==
    \/ (Writes(ps) \cap Writes(qs)) \ {Structure} # {}
    \/ Writes(ps) \cap Reads(qs) # {}
    \/ Reads(ps) \cap Writes(qs) # {}
    \/ WholeWorlds(ps) # {} /\ (WholeWorlds(qs) # {} \/ Immediate(qs) # {})
    \/ WholeWorlds(qs) # {} /\ Immediate(ps) # {}
=============================================================================
