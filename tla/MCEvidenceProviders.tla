------------------------ MODULE MCEvidenceProviders ------------------------
(***************************************************************************)
(* Instance of EvidenceProviders for TLC: two weather adapters, which      *)
(* share a cache entry, one of them switched off by default; a breaker     *)
(* that opens on the second failure.  Either two collections overlap, for  *)
(* one tenant or for two tenants whose trips have the same cache key, or   *)
(* one collection runs while administrators make as many changes to the    *)
(* switches as a torn read needs.                                          *)
(***************************************************************************)
EXTENDS EvidenceProviders, TLC

CONSTANTS nws, faa, weather, t1, t2, k1, c1, c2

MCAdapters == {nws, faa}

MCReaders == Collectors \X MCAdapters

MCTypeOf == [a \in MCAdapters |-> weather]

MCFreshness == [a \in MCAdapters |-> 2]

MCDefault == [a \in MCAdapters |-> a = nws]

MCPlans ==
  {[trips |-> c1 :> {<<t1, k1>>} @@ c2 :> {<<t1, k1>>, <<t2, k1>>},
    targets |-> {}],
   [trips |-> c1 :> {<<t1, k1>>} @@ c2 :> {},
    targets |-> {<<t1, nws>>, <<t1, faa>>, <<Platform, nws>>}]}
=============================================================================
