-------------------------- MODULE MCTenantServices --------------------------
(***************************************************************************)
(* Instance of TenantServices for TLC: one traveler with three fields, two *)
(* settings changes that overlap in the consent version, one proposal with *)
(* a proper patch and one that patches the version, one playbook with two  *)
(* texts, and the four kinds of CSV content.                               *)
(***************************************************************************)
EXTENDS TenantServices, TLC

CONSTANTS t1, consent, seat, language, version, p1, p2, b1, g1, g2

MCTravelerOf == [p \in {p1, p2} |-> t1]

MCPatchOf == [p \in {p1, p2} |-> IF p = p1 THEN {seat} ELSE {version}]

Updates == [kind : {"update"}, traveler : {t1},
            change : {{consent, seat}, {consent, language}}]

MCFingerprints ==
  Updates
    \cup [kind : {"propose"}, proposal : {p1, p2}, status : {"pending", "confirmed"}]
    \cup [kind : {"confirm"}, proposal : {p1, p2}]
    \cup [kind : {"erase"}, traveler : {t1}]
    \cup [kind : {"publish"}, playbook : {b1}, text : {g1, g2}]
    \cup [kind : {"import"}, content : {"clean", "refused", "outsized", "ragged"}]

MCPosted == {{p2}, {p1, p2}}

\* Any two requests, and a confirmation with two more requests about the same
\* memory.
About == [kind : {"update"}, traveler : {t1}, change : {{consent, language}}]
           \cup [kind : {"propose"}, proposal : {p1}, status : {"pending"}]
           \cup [kind : {"confirm"}, proposal : {p1}]
           \cup [kind : {"erase"}, traveler : {t1}]

MCWorkloads == {w \in [Requests -> About] : \E r \in Requests : w[r].kind = "confirm"}
                 \cup {w \in [Requests -> MCFingerprints \cup {None}] :
                         \E r \in Requests : w[r] = None}

Symmetry == Permutations(Requests)
=============================================================================
