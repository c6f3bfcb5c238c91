------------------------------ MODULE EntityStore ------------------------------
(***************************************************************************)
(* What a world promises of its component data: every living entity has    *)
(* some components, each with a value and the positions it was added and   *)
(* last changed at; an operation changes the entity and component it is    *)
(* about and nothing else.  How the data lies in memory is not seen.       *)
(***************************************************************************)
EXTENDS ChangeCursor

CONSTANTS Handles, Types, Values

VARIABLES
    contents,       \* per living entity, per component it has, a cell
    now             \* the change cursor

storeVars == <<contents, now>>

Cell == [value : Values, added : Cursors, changed : Cursors]

NoCells == [t \in {} |-> Origin]

StoreInit == contents = [e \in {} |-> NoCells] /\ now = Origin

Living == DOMAIN contents

Create(e) ==
    /\ e \notin Living
    /\ contents' = [x \in Living \union {e} |->
                      IF x = e THEN NoCells ELSE contents[x]]
    /\ UNCHANGED now

(* The position of a change is the one after the cursor.                   *)
Put(e, t, v) ==
    /\ e \in Living
    /\ ~ Exhausted(now)
    /\ now' = NextCursor(now)
    /\ contents' = [contents EXCEPT ![e] =
         [u \in DOMAIN @ \union {t} |->
            IF u # t THEN contents[e][u]
            ELSE [value |-> v, changed |-> now',
                  added |-> IF t \in DOMAIN contents[e]
                            THEN contents[e][t].added ELSE now']]]

(* Without a position left a component still goes; its removal has none.   *)
Take(e, t) ==
    /\ e \in Living
    /\ t \in DOMAIN contents[e]
    /\ now' = IF Exhausted(now) THEN now ELSE NextCursor(now)
    /\ contents' = [contents EXCEPT ![e] =
                      [u \in DOMAIN @ \ {t} |-> contents[e][u]]]

Destroy(e) ==
    /\ e \in Living
    /\ contents' = [x \in Living \ {e} |-> contents[x]]
    /\ UNCHANGED now

(* A change of something that is gone already.                             *)
Pass == ~ Exhausted(now) /\ now' = NextCursor(now) /\ UNCHANGED contents

StoreNext ==
    \/ \E e \in Handles :
          \/ Create(e) \/ Destroy(e)
          \/ \E t \in Types : Take(e, t) \/ \E v \in Values : Put(e, t, v)
    \/ Pass

StoreSpec == StoreInit /\ [][StoreNext]_storeVars

=============================================================================
