-------------------------- MODULE RuntimeControls --------------------------
(***************************************************************************)
(* Runtime controls (kill switches): an expiring override of the tenant,   *)
(* else an expiring override of the platform, else the default the process *)
(* was started with.  control_enabled of apps/api/main.py reads the two    *)
(* override rows in two transactions, so administrators and expiry can     *)
(* move either row between them.  set_runtime_control and                  *)
(* set_platform_runtime_control save the new row with its history entry in *)
(* one transaction.                                                        *)
(*                                                                         *)
(* Time is what is left of each override.  The append-only histories, the  *)
(* previous value they record and the events are not modelled: no property *)
(* reads them.                                                             *)
(***************************************************************************)
EXTENDS Integers, FiniteSets

CONSTANTS
  Tenants,
  Platform,    \* the scope of platform overrides
  Controls,    \* RuntimeControlName
  Readers,     \* callers of control_enabled
  Default,     \* default_control_enabled: what the process was started with
  Lifetimes,   \* ticks until expires_at of a new override, or Forever
  Forever,     \* an override without expires_at
  None,        \* no row, no value
  MaxChanges   \* bound on the number of saved changes

ASSUME ScopesTyped == Platform \notin Tenants
ASSUME DefaultTyped == Default \in [Controls -> BOOLEAN]
ASSUME LifetimesTyped == Lifetimes \subseteq (Nat \ {0}) \cup {Forever} /\ Forever \notin Nat
ASSUME NoneIsNoValue == None \notin BOOLEAN
ASSUME ChangesBounded == MaxChanges \in Nat

VARIABLES
  override,  \* runtime_control_overrides and platform_runtime_control_overrides
  read,      \* the control_enabled call of each reader
  changes    \* number of saved changes, for the bound

controlVars == <<override, read, changes>>

Scopes == Tenants \cup {Platform}

Override == [enabled : BOOLEAN, left : Nat \cup {Forever}]

\* on, moved and sound are history: whether the control was on at some instant
\* of the read, else the scopes whose row changed or expired during it; and the
\* verdict on the result.
Read == [phase : {"idle", "tenant", "platform", "done"},
         tenant : Tenants \cup {None}, control : Controls \cup {None},
         result : BOOLEAN \cup {None}, on : BOOLEAN,
         moved : SUBSET {"tenant", "platform"}, sound : BOOLEAN]

ControlsTypeOK ==
  /\ override \in [Scopes \X Controls -> Override \cup {None}]
  /\ read \in [Readers -> Read]
  /\ changes \in 0 .. MaxChanges

NoRead == [phase |-> "idle", tenant |-> None, control |-> None, result |-> None,
           on |-> FALSE, moved |-> {}, sound |-> TRUE]

ControlsInit ==
  /\ override = [x \in Scopes \X Controls |-> None]
  /\ read = [p \in Readers |-> NoRead]
  /\ changes = 0

-----------------------------------------------------------------------------
(***************************************************************************)
(* What is in force, given the override rows ov: the documented precedence *)
(* of tenant over platform over default among the rows not yet expired.    *)
(***************************************************************************)
InForce(row) == IF row = None THEN FALSE ELSE row.left # 0

Effective(ov, t, c) ==
  IF InForce(ov[<<t, c>>]) THEN ov[<<t, c>>].enabled
  ELSE IF InForce(ov[<<Platform, c>>]) THEN ov[<<Platform, c>>].enabled
  ELSE Default[c]

\* The history d of a read under way, while the rows become ov.
Watch(d, ov) ==
  LET Value(row) == IF InForce(row) THEN row.enabled ELSE None
      Moved(s) == Value(ov[<<s, d.control>>]) # Value(override[<<s, d.control>>])
      moved == d.moved \cup (IF Moved(d.tenant) THEN {"tenant"} ELSE {})
                       \cup (IF Moved(Platform) THEN {"platform"} ELSE {})
  IN IF d.on \/ Effective(ov, d.tenant, d.control)
     THEN [d EXCEPT !.on = TRUE, !.moved = {}]
     ELSE [d EXCEPT !.moved = moved]

Watched(ov) ==
  [p \in Readers |-> IF read[p].phase \in {"tenant", "platform"} THEN Watch(read[p], ov)
                     ELSE read[p]]

-----------------------------------------------------------------------------
(***************************************************************************)
(* control_enabled, one action per transaction.                            *)
(***************************************************************************)
GetOverrideExpired(s, c) == override[<<s, c>>]

\* get_runtime_control_override and get_platform_control_override: an expired
\* row is no row.
GetOverride(s, c) ==
  IF override[<<s, c>>] = None THEN None
  ELSE IF override[<<s, c>>].left = 0 THEN None ELSE override[<<s, c>>]

BegunRead(t, c) ==
  [NoRead EXCEPT !.phase = "tenant", !.tenant = t, !.control = c,
                 !.on = Effective(override, t, c)]

\* The read is over.  "On" is sound when the control was on at some instant of
\* the read, or when the tenant's and the platform's row both moved during it.
Returned(d, value) ==
  [d EXCEPT !.phase = "done", !.result = value, !.on = FALSE, !.moved = {},
            !.sound = value => d.on \/ d.moved = {"tenant", "platform"}]

ReadTenant(p) ==
  /\ read[p].phase = "tenant"
  /\ LET row == GetOverride(read[p].tenant, read[p].control)
     IN read' = [read EXCEPT ![p] = IF row = None THEN [@ EXCEPT !.phase = "platform"]
                                    ELSE Returned(@, row.enabled)]
  /\ UNCHANGED <<override, changes>>

ReadPlatform(p) ==
  /\ read[p].phase = "platform"
  /\ LET row == GetOverride(Platform, read[p].control)
     IN read' = [read EXCEPT ![p] = Returned(@, IF row = None
                                                THEN Default[read[p].control]
                                                ELSE row.enabled)]
  /\ UNCHANGED <<override, changes>>

-----------------------------------------------------------------------------
(***************************************************************************)
(* The administrators.  An expiry in the past is refused before anything   *)
(* is saved, and a replay or 409 of the idempotency key saves nothing.     *)
(***************************************************************************)

\* save_runtime_control_change and save_platform_control_change: history entry
\* and upsert in one transaction.
SaveChange(s, c, enabled, left) ==
  /\ changes < MaxChanges
  /\ override' = [override EXCEPT ![<<s, c>>] = [enabled |-> enabled, left |-> left]]
  /\ read' = Watched(override')
  /\ changes' = changes + 1

SetRuntimeControl(t, c, enabled, left) ==
  t \in Tenants /\ SaveChange(t, c, enabled, left)

SetPlatformRuntimeControl(c, enabled, left) == SaveChange(Platform, c, enabled, left)

\* Time passes for the overrides.
Aged(left) == IF left = Forever \/ left = 0 THEN left ELSE left - 1

AgeOverrides ==
  /\ override' = [x \in DOMAIN override |->
                    IF override[x] = None THEN None
                    ELSE [override[x] EXCEPT !.left = Aged(@)]]
  /\ read' = Watched(override')
  /\ UNCHANGED changes

\* targets bounds the override rows that administrators change.
ControlsNext(targets) ==
  \E x \in targets, enabled \in BOOLEAN, left \in Lifetimes :
    \/ SetRuntimeControl(x[1], x[2], enabled, left)
    \/ x[1] = Platform /\ SetPlatformRuntimeControl(x[2], enabled, left)
=============================================================================
