----------------------------- MODULE Reachability -----------------------------
(***************************************************************************)
(* Paths in a set of directed edges.  A path is followed by sets that no   *)
(* edge leaves: y is reached from x when every such set with x has y.      *)
(***************************************************************************)

Ends(E) == UNION {{p[1], p[2]} : p \in E}

Closed(E, S) == \A p \in E : p[1] \in S => p[2] \in S

Reaches(E, x, y) ==
    \A S \in SUBSET (Ends(E) \union {x, y}) :
        (x \in S /\ Closed(E, S)) => y \in S

(* No edge is on a cycle.                                                  *)
Acyclic(E) == \A p \in E : ~ Reaches(E, p[2], p[1])

=============================================================================
