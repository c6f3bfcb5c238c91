----------------------------- MODULE ChangePlaces -----------------------------
(***************************************************************************)
(* What a change can be observed of: the rows of entities, the resources,  *)
(* and the types of both.                                                  *)
(***************************************************************************)
EXTENDS ChangeCursor

CONSTANTS
    Rows,           \* pairs of an entity and a component type it has
    Resources,      \* resource types
    NoEntity,
    Watched         \* the position at which the watch begins

ASSUME PlacesAssumption ==
    /\ Watched \in Cursors
    /\ \A r \in Rows : r[1] # NoEntity /\ r[2] \notin Resources

Places == Rows \union ({NoEntity} \X Resources)

TypeOf(place) == place[2]

Components == {TypeOf(r) : r \in Rows}

ObservedTypes == Components \union Resources

(* u128::MAX less the ordinal of the cursor.                               *)
Remaining(c) == (EpochMax - c.epoch) * (TickMax + 1) + (TickMax - c.tick)

=============================================================================
