--------------------------- MODULE MCScheduleRegistry ---------------------------
(***************************************************************************)
(* Bounds.  Two schedules, four identities, calls of one, two or three     *)
(* systems.  A system that needs another one fails its schedule until that *)
(* one is registered; two that must precede one another fail it for good.  *)
(***************************************************************************)
EXTENDS ScheduleRegistry

MCKinds == {"needs", "provides", "before", "after"}

MCPlannable(K) == /\ "needs" \in K => "provides" \in K
                  /\ ~ {"before", "after"} \subseteq K

MCRequests ==
    {<<k>> : k \in MCKinds \union {Refused}} \union
    {<<"needs", "provides">>, <<"before", "after">>, <<"provides", Refused>>,
     <<"provides", "provides", "before">>, <<"provides", Refused, "needs">>}
=============================================================================
