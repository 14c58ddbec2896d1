----------------------------- MODULE MCFetchAll -----------------------------
(* FetchAll on every order of every subset of five resources in three      *)
(* batch groups: up to four batches for two slots, two calls each.         *)
EXTENDS FetchAll

Res(id, sub, region) == [id |-> id, sub |-> sub, region |-> region]

MCResources == {Res("a", "s1", "east"), Res("b", "s1", "east"),
                Res("c", "s1", "east"), Res("d", "s1", "west"),
                Res("e", "s2", "east")}
=============================================================================
