----------------------------- MODULE MCPrivacy -----------------------------
(***************************************************************************)
(* Instances of Privacy for TLC: one traveler with one trip and a hold of  *)
(* each scope.  The casts: two deletion runs under a hold; a deletion of   *)
(* memory, and one of everything, beside a writing handler; retention      *)
(* under holds beside a writing handler, and beside a deletion run.        *)
(***************************************************************************)
EXTENDS Privacy

CONSTANTS v1, t1, onTenant, onTraveler, onTrip, dAll, dMemory, w1, w2, p1, sweep

MCTravelerOf == [t \in Trips |-> v1]
MCScope == [h \in Holds |-> CASE h = onTenant -> "tenant" [] h = onTraveler -> v1
                              [] h = onTrip -> t1]
MCSubject == [d \in Dels |-> v1]
MCMemoryOnly == {d \in Dels : d = dMemory}
MCCasts == {{w1, w2, dAll, onTraveler}, {w1, p1, dMemory, onTrip}, {w1, p1, dAll, onTrip},
            {p1, sweep, onTenant}, {p1, sweep, onTraveler}, {p1, sweep, onTrip},
            {w1, dAll, sweep, onTenant}}
Retention == {{p1, sweep, onTraveler}}
=============================================================================
