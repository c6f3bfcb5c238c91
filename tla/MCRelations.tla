------------------------------ MODULE MCRelations ------------------------------
(***************************************************************************)
(* Bounds.  One relation for each kind of policy: a hierarchy (one target, *)
(* no cycles), dependencies (many targets, no cycles) and a symmetric      *)
(* relation.  Three slots: the shortest cycle that no single edge shows    *)
(* has three entities.  Two generations, so that the handles of a slot     *)
(* that was reused are still asked for.  FewEdges: the relations know      *)
(* nothing of one another but the entities, so all edges among three       *)
(* entities are explored in each relation on its own, and at most two      *)
(* edges where several relations have some.                                *)
(***************************************************************************)
EXTENDS Relations

MCPolicy ==
    [child |-> [symmetric |-> FALSE, reflexive |-> FALSE,
                one |-> TRUE, acyclic |-> TRUE],
     needs |-> [symmetric |-> FALSE, reflexive |-> TRUE,
                one |-> FALSE, acyclic |-> TRUE],
     peer |-> [symmetric |-> TRUE, reflexive |-> TRUE,
               one |-> FALSE, acyclic |-> FALSE]]

AllEdges == {d \in Domains \X Entities \X Entities : <<d[2], d[3]>> \in edges[d[1]]}
FewEdges == \/ \E r \in Domains : \A d \in AllEdges : d[1] = r
            \/ Cardinality(AllEdges) <= 2
=============================================================================
