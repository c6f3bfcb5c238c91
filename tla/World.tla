--------------------------------- MODULE World ---------------------------------
(***************************************************************************)
(* world/ and storage/: entities, their components in archetype storage,   *)
(* and the record of changes.                                              *)
(*                                                                         *)
(* All entities with the same set of components share an archetype: a row  *)
(* of entities and, per component, a column of cells.  An entity that      *)
(* gains or loses a component moves to the last row of another archetype,  *)
(* and the last entity of the archetype it leaves takes its row.           *)
(*                                                                         *)
(* An operation on a bundle works component by component, and each may     *)
(* find the change cursor exhausted and panic; `pending' holds what the    *)
(* operation has still to do.  The caller has the world exclusively, so no *)
(* other operation starts before.                                          *)
(***************************************************************************)
EXTENDS EntityAllocator, ChangeCursor

CONSTANTS Types, Values, Bundles

ASSUME WorldAssumption == Bundles \subseteq Seq(Types)

VARIABLES
    alive,          \* alive_entities
    rows,           \* per archetype, its entities by row
    columns,        \* per archetype, per component, its cells by row
    locations,      \* entity_locations
    cursor,         \* change_tick
    typeTick,       \* component_change_ticks
    removed,        \* removed_component_records
    index,          \* per component, its secondary index
    pending,        \* the rest of the operation
    subject,        \* ... and the entity it is about
    panicked,       \* history: an operation has panicked
    lost            \* history: <<component, entity>> lost in this window

storageVars == <<alive, rows, columns, locations>>
changeVars == <<cursor, typeTick, removed, index>>
worldVars == <<allocatorVars, storageVars, changeVars, pending, subject,
               panicked, lost>>

(* An archetype is known by its components, in no order.                   *)
Archetypes == SUBSET Types

WorldInit ==
    /\ AllocatorInit
    /\ alive = {}
    /\ rows = [k \in Archetypes |-> <<>>]
    /\ columns = [k \in Archetypes |-> [t \in k |-> <<>>]]
    /\ locations = [e \in {} |-> [archetype |-> {}, row |-> 0]]
    /\ cursor = Origin
    /\ typeTick = [t \in Types |-> Origin]
    /\ removed = [t \in Types |-> <<>>]
    /\ index = [t \in Types |-> [dirty |-> TRUE, entries |-> {}]]
    /\ pending = <<>>
    /\ subject = [index |-> 0, generation |-> 0]
    /\ panicked = FALSE
    /\ lost = {}

-----------------------------------------------------------------------------
(* Storage.                                                                *)

(* Mutated: the rows behind close up.                                      *)
SwapRemoveShifts(s, i) ==
    [j \in 1..(Len(s) - 1) |-> IF j < i THEN s[j] ELSE s[j + 1]]

(* The last element takes the place of the removed one.                    *)
SwapRemove(s, i) ==
    [j \in 1..(Len(s) - 1) |-> IF j = i THEN s[Len(s)] ELSE s[j]]

ComponentsOf(e) == locations[e].archetype

CellOf(e, t) == columns[locations[e].archetype][t][locations[e].row]

(* Who has the last row of e's archetype, and moves into e's.              *)
LastOf(e) == rows[ComponentsOf(e)][Len(rows[ComponentsOf(e)])]

RowsWithout(e) ==
    [rows EXCEPT ![ComponentsOf(e)] = SwapRemove(@, locations[e].row)]

(* Mutated: the cells stay behind.                                         *)
ColumnsWithoutNothing(e) == columns

ColumnsWithout(e) ==
    [columns EXCEPT ![ComponentsOf(e)] =
        [t \in ComponentsOf(e) |-> SwapRemove(@[t], locations[e].row)]]

(* Mutated: the entity that moved into the row keeps its old location.     *)
LocationsWithoutStale(e) == locations

(* e's own entry is replaced or dropped by the caller.                     *)
LocationsWithout(e) ==
    [locations EXCEPT ![LastOf(e)].row = locations[e].row]

(* extract_rows and append_entity_row: e moves to another archetype, the   *)
(* cell of component t there being cell[t].                                *)
MoveTo(e, target, cell) ==
    /\ rows' = [RowsWithout(e) EXCEPT ![target] = Append(@, e)]
    /\ columns' = [ColumnsWithout(e) EXCEPT ![target] =
                      [t \in target |-> Append(@[t], cell[t])]]
    /\ locations' = [LocationsWithout(e) EXCEPT ![e] =
                        [archetype |-> target, row |-> Len(rows[target]) + 1]]

(* A new entity takes the last row of the empty archetype.                 *)
Place(e) ==
    /\ rows' = [rows EXCEPT ![{}] = Append(@, e)]
    /\ locations' = [x \in DOMAIN locations \union {e} |->
                       IF x = e
                       THEN [archetype |-> {}, row |-> Len(rows[{}]) + 1]
                       ELSE locations[x]]
    /\ UNCHANGED columns

Withdraw(e) ==
    /\ rows' = RowsWithout(e)
    /\ columns' = ColumnsWithout(e)
    /\ locations' = [x \in DOMAIN locations \ {e} |-> LocationsWithout(e)[x]]

AddComponent(e, t, v, at) ==
    MoveTo(e, ComponentsOf(e) \union {t},
           [u \in ComponentsOf(e) \union {t} |->
              IF u = t THEN [value |-> v, added |-> at, changed |-> at]
              ELSE CellOf(e, u)])

RemoveComponent(e, t) ==
    MoveTo(e, ComponentsOf(e) \ {t},
           [u \in ComponentsOf(e) \ {t} |-> CellOf(e, u)])

UpdateComponent(e, t, v, at) ==
    /\ columns' = [columns EXCEPT ![ComponentsOf(e)][t][locations[e].row] =
                      [value |-> v, added |-> @.added, changed |-> at]]
    /\ UNCHANGED <<rows, locations>>

-----------------------------------------------------------------------------
(* Changes.                                                                *)

MarkIndexes(t) == index' = [index EXCEPT ![t].dirty = TRUE]

(* The cursor advances; the component's high-water mark and its indexes    *)
(* follow.                                                                 *)
RecordChange(t) ==
    /\ cursor' = NextCursor(cursor)
    /\ typeTick' = [typeTick EXCEPT ![t] = cursor']
    /\ MarkIndexes(t)

RecordRemoval(e, t) ==
    /\ RecordChange(t)
    /\ removed' = [removed EXCEPT
                     ![t] = Append(@, [entity |-> e, tick |-> cursor'])]

Panic ==
    /\ Exhausted(cursor)
    /\ pending' = <<>>
    /\ panicked' = TRUE
    /\ UNCHANGED <<changeVars, subject>>

-----------------------------------------------------------------------------
(* Operations.                                                             *)
Idle == pending = <<>>

Exists(e) == Verdict(e) = "ok" /\ e \in alive

Have(op, bundle) ==
    /\ pending' = [i \in DOMAIN bundle |-> [op |-> op, type |-> bundle[i]]]
    /\ UNCHANGED <<changeVars, panicked>>

(* spawn: the entity is placed in the empty archetype and gets the         *)
(* components of the bundle one by one.                                    *)
Spawn(e, bundle) ==
    /\ Idle
    /\ Allocate(e)
    /\ alive' = alive \union {e}
    /\ Place(e)
    /\ Have("insert", bundle)
    /\ subject' = e
    /\ UNCHANGED lost

Insert(e, bundle) ==
    /\ Idle
    /\ Exists(e)
    /\ Have("insert", bundle)
    /\ subject' = e
    /\ UNCHANGED <<allocatorVars, storageVars, lost>>

(* remove: only if every component of the bundle is there, and named once. *)
Remove(e, bundle) ==
    /\ Idle
    /\ Exists(e)
    /\ \A i \in DOMAIN bundle :
          /\ bundle[i] \in ComponentsOf(e)
          /\ \A j \in DOMAIN bundle : bundle[i] = bundle[j] => i = j
    /\ Have("remove", bundle)
    /\ subject' = e
    /\ UNCHANGED <<allocatorVars, storageVars, lost>>

Orders(S) ==
    {s \in [1..Cardinality(S) -> S] : \A i, j \in DOMAIN s : s[i] = s[j] => i = j}

(* despawn: the entity goes first; then each of its components, in the     *)
(* order of their type ids, is recorded as removed.                        *)
Despawn(e) ==
    /\ Idle
    /\ Exists(e)
    /\ Withdraw(e)
    /\ alive' = alive \ {e}
    /\ Free(e)
    /\ \E order \in Orders(ComponentsOf(e)) : Have("record", order)
    /\ subject' = e
    /\ lost' = lost \union {<<t, e>> : t \in ComponentsOf(e)}

Doing(op) == pending # <<>> /\ Head(pending).op = op

(* Mutated: the component keeps the position it was added at before.       *)
CommitInsertAtCursor ==
    /\ Doing("insert")
    /\ ~ Exhausted(cursor)
    /\ LET t == Head(pending).type
       IN  /\ \E v \in Values :
                 IF t \in ComponentsOf(subject)
                 THEN UpdateComponent(subject, t, v, cursor)
                 ELSE AddComponent(subject, t, v, cursor)
           /\ RecordChange(t)
    /\ pending' = Tail(pending)
    /\ UNCHANGED <<allocatorVars, alive, removed, subject, panicked, lost>>

(* __commit_insert_component: the position is computed first, so that      *)
(* nothing is changed if there is none.                                    *)
CommitInsert ==
    /\ Doing("insert")
    /\ LET t == Head(pending).type
       IN  IF Exhausted(cursor)
           THEN Panic /\ UNCHANGED <<rows, columns, locations>>
           ELSE /\ \E v \in Values :
                      IF t \in ComponentsOf(subject)
                      THEN UpdateComponent(subject, t, v, NextCursor(cursor))
                      ELSE AddComponent(subject, t, v, NextCursor(cursor))
                /\ RecordChange(t)
                /\ pending' = Tail(pending)
                /\ UNCHANGED <<removed, subject, panicked>>
    /\ UNCHANGED <<allocatorVars, alive, lost>>

(* Mutated: the removal is recorded as a change only.                      *)
CommitRemoveUnrecorded ==
    /\ Doing("remove")
    /\ RemoveComponent(subject, Head(pending).type)
    /\ IF Exhausted(cursor) THEN Panic
       ELSE /\ RecordChange(Head(pending).type)
            /\ pending' = Tail(pending)
            /\ UNCHANGED <<removed, subject, panicked>>
    /\ lost' = lost \union {<<Head(pending).type, subject>>}
    /\ UNCHANGED <<allocatorVars, alive>>

(* __commit_remove_component: the component goes before its position is    *)
(* known.                                                                  *)
CommitRemove ==
    /\ Doing("remove")
    /\ RemoveComponent(subject, Head(pending).type)
    /\ IF Exhausted(cursor) THEN Panic
       ELSE /\ RecordRemoval(subject, Head(pending).type)
            /\ pending' = Tail(pending)
            /\ UNCHANGED <<subject, panicked>>
    /\ lost' = lost \union {<<Head(pending).type, subject>>}
    /\ UNCHANGED <<allocatorVars, alive>>

CommitRecord ==
    /\ Doing("record")
    /\ IF Exhausted(cursor) THEN Panic
       ELSE /\ RecordRemoval(subject, Head(pending).type)
            /\ pending' = Tail(pending)
            /\ UNCHANGED <<subject, panicked>>
    /\ UNCHANGED <<allocatorVars, storageVars, lost>>

(* Mutated: the row is marked, the component's high-water mark is not.     *)
ModifyRowOnly(e, t, v) ==
    /\ Idle
    /\ Exists(e)
    /\ t \in ComponentsOf(e)
    /\ ~ Exhausted(cursor)
    /\ cursor' = NextCursor(cursor)
    /\ UpdateComponent(e, t, v, cursor')
    /\ UNCHANGED <<allocatorVars, alive, typeTick, index, removed, pending,
                   subject, panicked, lost>>

(* get_mut, and what the caller writes through it before it lets go of the *)
(* world.                                                                  *)
Modify(e, t, v) ==
    /\ Idle
    /\ Exists(e)
    /\ t \in ComponentsOf(e)
    /\ IF Exhausted(cursor)
       THEN Panic /\ UNCHANGED <<rows, columns, locations>>
       ELSE /\ RecordChange(t)
            /\ UpdateComponent(e, t, v, cursor')
            /\ UNCHANGED <<removed, pending, subject, panicked>>
    /\ UNCHANGED <<allocatorVars, alive, lost>>

(* A deferred publication opens a new window of removals.                  *)
BeginPublication ==
    /\ Idle
    /\ removed' = [t \in Types |-> <<>>]
    /\ lost' = {}
    /\ UNCHANGED <<allocatorVars, storageVars, cursor, typeTick, index, pending,
                   subject, panicked>>

(* Mutated: only an archetype with all excluded components is passed over. *)
FittingExcludesAll(required, excluded) ==
    {k \in Archetypes : /\ required \subseteq k
                        /\ excluded = {} \/ ~ (excluded \subseteq k)}

(* matches_constraints: the archetypes a query visits.                     *)
Fitting(required, excluded) ==
    {k \in Archetypes : required \subseteq k /\ excluded \intersect k = {}}

(* collect_matching_entities: archetype by archetype, row by row.          *)
Matching(required, excluded) ==
    UNION {{k} \X DOMAIN rows[k] : k \in Fitting(required, excluded)}

Rebuilt(t) ==
    [dirty |-> FALSE,
     entries |-> {<<rows[m[1]][m[2]], columns[m[1]][t][m[2]].value>> :
                     m \in Matching({t}, {})}]

(* A lookup rebuilds the index it asks if it is dirty.                     *)
Lookup(t) ==
    /\ Idle
    /\ index[t].dirty
    /\ index' = [index EXCEPT ![t] = Rebuilt(t)]
    /\ UNCHANGED <<allocatorVars, storageVars, cursor, typeTick, removed,
                   pending, subject, panicked, lost>>

WorldNext ==
    \/ \E e \in Entities :
          \/ \E b \in Bundles : Spawn(e, b) \/ Insert(e, b) \/ Remove(e, b)
          \/ Despawn(e)
          \/ \E t \in Types, v \in Values : Modify(e, t, v)
    \/ CommitInsert \/ CommitRemove \/ CommitRecord
    \/ BeginPublication
    \/ \E t \in Types : Lookup(t)

WorldSpec == WorldInit /\ [][WorldNext]_worldVars

-----------------------------------------------------------------------------
(* The places an entity is known at agree, between any two steps of any    *)
(* operation: the living entities are the allocator's and those with a     *)
(* location, each is at its location and nowhere else, and every column of *)
(* an archetype is as long as its row of entities.                         *)
OnePlaceEach ==
    /\ alive = {e \in Entities : issued[e] > 0 /\ e \notin freed}
    /\ DOMAIN locations = alive
    /\ \A e \in alive : /\ locations[e].row \in DOMAIN rows[locations[e].archetype]
                        /\ rows[locations[e].archetype][locations[e].row] = e
    /\ \A k \in Archetypes : \A i \in DOMAIN rows[k] :
          /\ rows[k][i] \in alive
          /\ locations[rows[k][i]] = [archetype |-> k, row |-> i]
    /\ \A k \in Archetypes : \A t \in k : Len(columns[k][t]) = Len(rows[k])

(* No row has changed later than its component's high-water mark, and none *)
(* later than the cursor: component_changed_since never answers no while a *)
(* row says yes.                                                           *)
ChangesBelowMarks ==
    \A e \in alive : \A t \in ComponentsOf(e) :
        /\ NotAfter(CellOf(e, t).changed, typeTick[t])
        /\ NotAfter(CellOf(e, t).added, CellOf(e, t).changed)
        /\ NotAfter(typeTick[t], cursor)

(* Every component lost since the last publication began has a removal in  *)
(* the window, unless an operation panicked; the window reports nothing    *)
(* else, and its positions increase.                                       *)
RemovalsReported ==
    /\ \A t \in Types : \A i \in DOMAIN removed[t] :
          /\ <<t, removed[t][i].entity>> \in lost
          /\ \A j \in DOMAIN removed[t] :
                i < j => Before(removed[t][i].tick, removed[t][j].tick)
    /\ (Idle /\ ~ panicked) =>
          \A p \in lost : \E i \in DOMAIN removed[p[1]] :
              removed[p[1]][i].entity = p[2]

(* An index that is not dirty holds what a rebuild would find, unless an   *)
(* operation panicked.                                                     *)
IndexesCurrent ==
    (Idle /\ ~ panicked) =>
        \A t \in Types :
            index[t].dirty \/
            index[t].entries = {<<e, CellOf(e, t).value>> :
                                  e \in {e \in alive : t \in ComponentsOf(e)}}

(* A query visits every entity with the required and without the excluded  *)
(* components, once.                                                       *)
QueriesExact ==
    \A required, excluded \in Archetypes :
        LET found == Matching(required, excluded)
            wanted == {e \in alive : /\ required \subseteq ComponentsOf(e)
                                     /\ excluded \intersect ComponentsOf(e) = {}}
        IN  /\ {rows[m[1]][m[2]] : m \in found} = wanted
            /\ Cardinality(found) = Cardinality(wanted)

(* The world implements the store of cells, whatever moves.                *)
Store == INSTANCE EntityStore
    WITH Handles <- Entities, now <- cursor,
         contents <- [e \in DOMAIN locations |->
                        [t \in ComponentsOf(e) |-> CellOf(e, t)]]

ImplementsStore == Store!StoreSpec

=============================================================================
