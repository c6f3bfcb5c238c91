--------------------------- MODULE MCSystemParams ---------------------------
(***************************************************************************)
(* Two systems.  The first has any one query over three component types    *)
(* with one of the filters below, or two parameters of a dozen; the second *)
(* has one of those that can get in its way.  One entity lacks a type the  *)
(* other has.                                                              *)
(***************************************************************************)
EXTENDS SystemParams, TLC

CONSTANTS s1, s2, e1, e2

MCTypes == {"A", "B", "C"}
Filters == {<<>>, <<Changed("B")>>, <<Without("C")>>, <<With("B"), Added("A")>>}
AnyQuery == {QueryParam(form, filter) : form \in Forms(MCTypes), filter \in Filters}

Plain(form) == QueryParam(form, <<>>)
Some == {Plain(Ref("A")), Plain(RefMut("A", "B")), Plain(OptMut("C")), Removed("A"), Res("score"), ResMut("score"),
         ResMut("absent"), Relations("owns"), RelationsMut("owns"), WorldMut, Commands, LocalCommands}
Rival == {QueryParam(Mut("A"), <<>>), QueryParam(RefMut("A", "B"), <<Changed("A")>>), Res("score"),
          RelationsMut("owns"), WorldMut}

MCSystems == {s1, s2}
MCCatalogue == (s1 :> {<<p>> : p \in AnyQuery} \cup {<<p, q>> : p \in Some, q \in Some})
               @@ (s2 :> {<<p>> : p \in Rival})
MCEntities == {e1, e2}
MCHas == (e1 :> {"A", "B"}) @@ (e2 :> {"A", "B", "C"})
MCNews == {<<"changed", e1, "B">>, <<"changed", e2, "A">>, <<"added", e2, "A">>}
MCStored == {"score"}
=============================================================================
