---------------------------- MODULE MCEnrichment ----------------------------
(* An instance of Enrichment for TLC: two functions, one of them with two  *)
(* subcategories, two jobs one after the other and two changes by the org. *)
EXTENDS Enrichment

MCFunctionIds == <<"eng", "gen">>
MCSubcats == [eng |-> <<"eng.dev", "eng.test">>, gen |-> <<"gen.admin">>]
=============================================================================
