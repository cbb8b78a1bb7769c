--------------------------- MODULE TenantServices ---------------------------
(***************************************************************************)
(* The handlers of TravelerMemory, Playbooks and TripImport together: they *)
(* share the idempotency keys of one tenant, so that a key may be met by a *)
(* request of another kind, and every request may stop between two         *)
(* transactions.                                                           *)
(***************************************************************************)
EXTENDS TravelerMemory, Playbooks, TripImport

serviceVars == <<vars, handlerVars, memoryVars, guidance, importVars>>

ServicesInit ==
  /\ HandlersInit /\ MemoryInit /\ PlaybooksInit /\ ImportInit

Crash(r) ==
  /\ GiveUp(r)
  /\ UNCHANGED <<memoryVars, guidance, importVars>>

CompleteKey(r) ==
  /\ Finish(r)
  /\ UNCHANGED <<memoryVars, guidance, importVars>>

ServicesTick ==
  /\ Tick
  /\ UNCHANGED <<handlerVars, memoryVars, guidance, importVars>>

ServicesNext ==
  \/ \E r \in Requests :
       \/ MemoryStep(r) /\ UNCHANGED <<guidance, importVars>>
       \/ PlaybookStep(r) /\ UNCHANGED <<memoryVars, importVars>>
       \/ ImportStep(r) /\ UNCHANGED <<memoryVars, guidance>>
       \/ CompleteKey(r) \/ Crash(r)
  \/ ServicesTick

ServicesSpec == ServicesInit /\ [][ServicesNext]_serviceVars

-----------------------------------------------------------------------------
(***************************************************************************)
(* Properties.                                                             *)
(***************************************************************************)

\* All these handlers keep to the key protocol: answers before the claim leave
\* the key alone, and the whole chain of transactions is its one action Act.
ServicesKeepKeys == Spec
=============================================================================
