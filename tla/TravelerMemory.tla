--------------------------- MODULE TravelerMemory ---------------------------
(***************************************************************************)
(* Traveler memory: update_preferences, create_memory_proposal,            *)
(* confirm_memory_proposal and delete_traveler_memory of apps/api/main.py. *)
(* A profile is read, changed and written back whole, in two transactions, *)
(* with version = read version + 1; a confirmation saves the profile, then *)
(* the proposal, and tests the status of a proposal read before its claim. *)
(*                                                                         *)
(* The value of a field is the request content that set it.  A proposal is *)
(* posted with the status the client gives it, with one patch per          *)
(* proposal_id.  The check of the memory-writes switch and that of legal   *)
(* holds have either outcome here: RuntimeControls and Privacy model what  *)
(* they read.                                                              *)
(***************************************************************************)
EXTENDS Handlers, Sequences, FiniteSetsExt

CONSTANTS
  Travelers,
  Fields,       \* fields of a profile that a change may set
  Proposals,
  TravelerOf,   \* proposal -> traveler
  PatchOf,      \* proposal -> names in its patch, restricted ones included
  Posted        \* bound: the sets of proposals that may be pending at the start

ASSUME ProposalsTyped ==
  TravelerOf \in [Proposals -> Travelers] /\ Posted \subseteq SUBSET Proposals

\* MemoryProposalStatus
ProposalStatus == {"pending", "confirmed", "rejected"}

ASSUME MemoryRequestsTyped ==
  \A h \in Fingerprints :
    /\ h.kind \in {"update", "erase"} => h.traveler \in Travelers
    /\ h.kind \in {"propose", "confirm"} => h.proposal \in Proposals
    /\ h.kind = "propose" => h.status \in ProposalStatus

VARIABLES
  profile,   \* traveler_preferences
  proposal,  \* status of the memory_proposals
  seen,      \* what each request has read: profile, and status of its proposal
  audit,     \* memory_audit_events: the requests recorded
  log,       \* history: changes saved since the profile was created
  stale,     \* history: a change was saved over one its request had not read
  saved,     \* history: the requests that saved their change
  resolved,  \* history: proposals confirmed since they were posted or erased
  again      \* history: confirmations that read such a proposal

memoryVars == <<profile, proposal, seen, audit, log, stale, saved, resolved, again>>

Profile == [version : Nat \ {0}, by : [Fields -> Fingerprints \cup {None}]]

ASSUME NoneIsNoProfile == None \notin Profile

MemoryTypeOK ==
  /\ profile \in [Travelers -> Profile \cup {None}]
  /\ proposal \in [Proposals -> ProposalStatus \cup {"absent"}]
  /\ seen \in [Requests -> [profile : Profile \cup {None}, fresh : BOOLEAN,
                            status : ProposalStatus \cup {None}]]
  /\ audit \in SUBSET Requests
  /\ log \in [Travelers -> Seq(Fingerprints)]
  /\ stale \in [Travelers -> BOOLEAN]
  /\ saved \in SUBSET Requests
  /\ resolved \in SUBSET Proposals
  /\ again \in SUBSET Requests

Unseen == [profile |-> None, fresh |-> FALSE, status |-> None]

MemoryInit ==
  /\ profile = [t \in Travelers |-> None]
  /\ \E posted \in Posted :
       proposal = [p \in Proposals |-> IF p \in posted THEN "pending" ELSE "absent"]
  /\ seen = [r \in Requests |-> Unseen]
  /\ audit = {}
  /\ log = [t \in Travelers |-> <<>>]
  /\ stale = [t \in Travelers |-> FALSE]
  /\ saved = {} /\ resolved = {} /\ again = {}

MemoryKinds == {"update", "propose", "confirm", "erase"}

TravelerBy(h) == IF h.kind \in {"update", "erase"} THEN h.traveler ELSE TravelerOf[h.proposal]

Changed(h) == IF h.kind = "update" THEN h.change ELSE PatchOf[h.proposal]

-----------------------------------------------------------------------------
(***************************************************************************)
(* Before the claim.                                                       *)
(***************************************************************************)

\* control_enabled: HTTP 503 when memory writes are off.
ReadSwitch(r) ==
  /\ Before(r, "start")
  /\ Kind(r) \in {"update", "propose", "confirm"}
  /\ \/ Continue(r, "done")
     \/ Continue(r, IF Wants(r, "confirm") THEN "proposal" ELSE "claim")
  /\ UNCHANGED memoryVars

\* get_memory_proposal: HTTP 404 when there is none.
ReadProposal(r) ==
  LET status == proposal[want[r].proposal]
  IN /\ Before(r, "proposal")
     /\ IF status = "absent" THEN Continue(r, "done") /\ UNCHANGED seen
        ELSE Continue(r, "claim") /\ seen' = [seen EXCEPT ![r].status = status]
     /\ again' = IF want[r].proposal \in resolved THEN again \cup {r} ELSE again
     /\ UNCHANGED <<profile, proposal, audit, log, stale, saved, resolved>>

\* active_legal_holds_for_traveler: HTTP 423 while a hold is active.
CheckHold(r) ==
  /\ Before(r, "start")
  /\ Wants(r, "erase")
  /\ \E s \in {"claim", "done"} : Continue(r, s)
  /\ UNCHANGED memoryVars

FirstStep(r) == IF Kind(r) \in {"update", "confirm"} THEN "profile" ELSE "save"

ClaimMemory(r) ==
  /\ Kind(r) \in MemoryKinds
  /\ Claim(r, FirstStep(r))
  /\ UNCHANGED memoryVars

-----------------------------------------------------------------------------
(***************************************************************************)
(* After the claim.                                                        *)
(***************************************************************************)
AfterResolvingFirst(r, s) ==
  CASE s = "profile" -> IF Wants(r, "confirm") THEN "resolve" ELSE "save"
    [] s = "resolve" -> "save"
    [] s = "save" -> "audit"

\* The order of update_preferences and confirm_memory_proposal.
After(r, s) ==
  CASE s = "profile" -> "save"
    [] s = "save" -> IF Wants(r, "confirm") THEN "resolve" ELSE "audit"
    [] s = "resolve" -> "audit"

AcceptableResolved(r) ==
  Wants(r, "confirm") =>
    seen[r].status # "rejected" /\ PatchOf[want[r].proposal] \subseteq Fields

\* A confirmation is refused (409, 422) on the proposal it read before its
\* claim; a patch must not name the identity or version of a profile.
Acceptable(r) ==
  Wants(r, "confirm") =>
    seen[r].status = "pending" /\ PatchOf[want[r].proposal] \subseteq Fields

ReadProfile(r) ==
  /\ At(r, "profile")
  /\ Acceptable(r)
  /\ seen' = [seen EXCEPT ![r].profile = profile[TravelerBy(want[r])],
                          ![r].fresh = TRUE]
  /\ Continue(r, After(r, "profile"))
  /\ UNCHANGED <<profile, proposal, audit, log, stale, saved, resolved, again>>

RefuseConfirmation(r) ==
  /\ At(r, "profile")
  /\ ~Acceptable(r)
  /\ GiveUp(r)
  /\ UNCHANGED memoryVars

MergedWithoutBaseline(base, h) ==
  [version |-> IF base = None THEN 1 ELSE base.version + 1,
   by |-> [f \in Fields |-> IF f \in Changed(h) THEN h ELSE None]]

\* The baseline overridden by the change.
Merged(base, h) ==
  [version |-> IF base = None THEN 1 ELSE base.version + 1,
   by |-> [f \in Fields |-> IF f \in Changed(h) THEN h
                            ELSE IF base = None THEN None ELSE base.by[f]]]

\* What the requests have read, once r writes t's profile.
Outdated(r, t) ==
  [s \in Requests |->
     IF s = r THEN Unseen
     ELSE IF Kind(s) \in MemoryKinds /\ TravelerBy(want[s]) = t
     THEN [seen[s] EXCEPT !.fresh = FALSE] ELSE seen[s]]

\* save_profile is an upsert of the whole profile.
SaveProfile(r) ==
  LET h == want[r]
      t == TravelerBy(h)
  IN /\ At(r, "save")
     /\ Kind(r) \in {"update", "confirm"}
     /\ profile' = [profile EXCEPT ![t] = Merged(seen[r].profile, h)]
     /\ log' = [log EXCEPT ![t] = Append(@, h)]
     /\ stale' = [stale EXCEPT ![t] = @ \/ ~seen[r].fresh]
     /\ saved' = saved \cup {r}
     /\ seen' = Outdated(r, t)
     /\ Continue(r, After(r, "save"))
     /\ UNCHANGED <<proposal, audit, resolved, again>>

\* The status that save_memory_proposal is given: what the client posted, or
\* the copy that was read, resolved.
StatusToSave(r) == IF Wants(r, "propose") THEN want[r].status ELSE "confirmed"

\* save_memory_proposal is an upsert.
SaveProposal(r) ==
  LET p == want[r].proposal
  IN /\ At(r, IF Wants(r, "propose") THEN "save" ELSE "resolve")
     /\ Kind(r) \in {"propose", "confirm"}
     /\ proposal' = [proposal EXCEPT ![p] = StatusToSave(r)]
     /\ saved' = IF Wants(r, "propose") THEN saved \cup {r} ELSE saved
     /\ resolved' = IF Wants(r, "propose") THEN resolved \ {p} ELSE resolved \cup {p}
     /\ Continue(r, IF Wants(r, "propose") THEN "audit" ELSE After(r, "resolve"))
     /\ UNCHANGED <<profile, seen, audit, log, stale, again>>

\* delete_traveler_memory removes profile and proposals in one transaction.
EraseMemory(r) ==
  LET t == TravelerBy(want[r])
  IN /\ At(r, "save")
     /\ Wants(r, "erase")
     /\ profile' = [profile EXCEPT ![t] = None]
     /\ proposal' = [p \in Proposals |-> IF TravelerOf[p] = t THEN "absent" ELSE proposal[p]]
     /\ log' = [log EXCEPT ![t] = <<>>]
     /\ stale' = [stale EXCEPT ![t] = FALSE]
     /\ saved' = saved \cup {r}
     /\ resolved' = {p \in resolved : TravelerOf[p] # t}
     /\ seen' = Outdated(r, t)
     /\ Continue(r, "audit")
     /\ UNCHANGED <<audit, again>>

\* record_memory_audit; the event that follows it is not modelled.
RecordAudit(r) ==
  /\ At(r, "audit")
  /\ Kind(r) \in MemoryKinds
  /\ audit' = audit \cup {r}
  /\ Conclude(r)
  /\ UNCHANGED <<profile, proposal, seen, log, stale, saved, resolved, again>>

MemoryStep(r) ==
  \/ ReadSwitch(r) \/ ReadProposal(r) \/ CheckHold(r) \/ ClaimMemory(r)
  \/ ReadProfile(r) \/ RefuseConfirmation(r) \/ SaveProfile(r)
  \/ SaveProposal(r) \/ EraseMemory(r) \/ RecordAudit(r)

-----------------------------------------------------------------------------
(***************************************************************************)
(* Properties.                                                             *)
(***************************************************************************)

\* The profile that a sequence of changes makes, one after the other.
Replay(s) ==
  LET Setters(f) == {i \in 1 .. Len(s) : f \in Changed(s[i])}
  IN [version |-> Len(s),
      by |-> [f \in Fields |-> IF Setters(f) = {} THEN None ELSE s[Max(Setters(f))]]]

\* Unless a request saved over a change (or an erasure) it had not read, a
\* profile is what its saved changes make one after the other, whoever made
\* them, whether they were confirmed proposals or explicit settings: none is
\* lost, none resurfaces after an erasure, and the version counts them.
ProfileIsReplay ==
  /\ MemoryTypeOK
  /\ \A t \in Travelers :
       ~stale[t] => profile[t] = IF log[t] = <<>> THEN None ELSE Replay(log[t])

\* Wherever the handlers crash and however they interleave: a proposal reads
\* "confirmed" only when its patch was saved to the profile, or when a client
\* posted it with that status, which create_memory_proposal stores as it comes;
\* after a confirmation that was answered, it is pending again only if it was
\* posted so.  The audit trail names no change that was not saved, and every
\* answered one.
ConfirmedMeansSaved ==
  /\ \A p \in Proposals :
       LET By(kind) == {r \in saved : Wants(r, kind) /\ want[r].proposal = p}
           PostedAs(status) == \E r \in By("propose") : want[r].status = status
       IN /\ proposal[p] = "confirmed" => By("confirm") # {} \/ PostedAs("confirmed")
          /\ proposal[p] = "pending" /\ (\E r \in By("confirm") : Succeeded(r))
               => PostedAs("pending")
  /\ audit \subseteq saved
  /\ \A r \in Requests :
       Succeeded(r) /\ Kind(r) \in MemoryKinds => Executor(r) \in audit

\* A patch is applied twice only by confirmations that overlap, or after the
\* proposal was posted again: one that reads the proposal after another has
\* confirmed it saves nothing, whatever else is posted, erased or lost between.
AppliedAgainOnlyByOverlap == saved \cap again = {}
=============================================================================
