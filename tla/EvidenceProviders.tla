------------------------- MODULE EvidenceProviders -------------------------
(***************************************************************************)
(* Live evidence collection of one API process: LiveEvidenceCollector of   *)
(* tools/live_providers.py over JsonHttpProvider, ProviderCache and        *)
(* CircuitBreaker of tools/providers.py, called through                    *)
(* collect_assessment_evidence of apps/api/main.py.                        *)
(*                                                                         *)
(* A collection resolves the runtime switches of all adapters, then        *)
(* fetches from all of them at once.  The cache and one breaker per        *)
(* adapter are shared by every collection of the process, of whatever      *)
(* tenant, and are lost with it.  A fetch runs without a suspension up to  *)
(* its first HTTP request, and from its last answer to its end; between    *)
(* them other collections run.  Time is the freshness left of an envelope, *)
(* counted from the start of its fetch.  The envelope of the locally       *)
(* computed connection feasibility is part of Deliver.                     *)
(***************************************************************************)
EXTENDS RuntimeControls

CONSTANTS
  Collectors,   \* assessments that collect evidence at the same time
  Adapters,     \* the provider adapters; also the names of their switches
  Types,        \* source types
  TypeOf,       \* adapter -> source type
  TripKeys,     \* cache_key: carrier, flight, departure airport, country
  Plans,        \* bound: the (tenant, cache key) each collector assesses, and
                \* the override rows that administrators change meanwhile
  Freshness,    \* adapter -> freshness_minutes, in ticks
  Configured,   \* adapters whose URL is set
  Retries,      \* retries of a request after an HTTP error
  Threshold     \* failures that open a breaker

ASSUME AdaptersTyped ==
  /\ Adapters \subseteq Controls /\ Configured \subseteq Adapters
  /\ TypeOf \in [Adapters -> Types] /\ Freshness \in [Adapters -> Nat]
  /\ \A a \in Adapters : Freshness[a] > 0
ASSUME FetchBounds == Retries \in Nat /\ Threshold \in Nat \ {0}
ASSUME CollectorsTyped ==
  /\ IsFiniteSet(Collectors)
  /\ Readers = Collectors \X Adapters
  /\ Plans \subseteq [trips : [Collectors -> SUBSET (Tenants \X TripKeys)],
                      targets : SUBSET (Scopes \X Controls)]

VARIABLES
  plan,      \* the one of Plans that is under way
  cache,     \* ProviderCache._items
  failures,  \* CircuitBreaker.failures of each adapter
  collect,   \* the collection each collector is running
  fetch      \* the fetch of each collector from each adapter

providerVars == <<plan, cache, failures, collect, fetch>>
vars == <<override, read, changes, plan, cache, failures, collect, fetch>>

\* An available envelope in the cache.  tenant, type and key are history: for
\* whom and from what it was fetched.
Envelope == [tenant : Tenants, type : Types, key : TripKeys, left : Nat]

\* current is history: the verdict on the envelope the fetch ended with.
Fetch == [phase : {"idle", "sending", "done"}, attempt : 0 .. Retries, left : Nat,
          result : {"fresh", "cached", "unavailable", "error", None}, current : BOOLEAN]

TypeOK ==
  /\ ControlsTypeOK
  /\ plan \in Plans
  /\ cache \in [Tenants \X Types \X TripKeys -> Envelope \cup {None}]
  /\ failures \in [Adapters -> Nat]
  /\ collect \in [Collectors -> [tenant : Tenants \cup {None},
                                 key : TripKeys \cup {None}]]
  /\ fetch \in [Collectors \X Adapters -> Fetch]

NoFetch == [phase |-> "idle", attempt |-> 0, left |-> 0, result |-> None,
            current |-> TRUE]

NoCollection == [tenant |-> None, key |-> None]

Init ==
  /\ ControlsInit
  /\ plan \in Plans
  /\ cache = [x \in Tenants \X Types \X TripKeys |-> None]
  /\ failures = [a \in Adapters |-> 0]
  /\ collect = [c \in Collectors |-> NoCollection]
  /\ fetch = [x \in Collectors \X Adapters |-> NoFetch]

Collecting(c) == collect[c].tenant # None

\* c's collection is over, read and fetch are the other collections'.
Ended(c) ==
  /\ collect' = [collect EXCEPT ![c] = NoCollection]
  /\ read' = [p \in Readers |-> IF p[1] = c THEN NoRead ELSE read[p]]
  /\ fetch' = [x \in DOMAIN fetch |-> IF x[1] = c THEN NoFetch ELSE fetch[x]]

-----------------------------------------------------------------------------
(***************************************************************************)
(* Resolving the switches.                                                 *)
(***************************************************************************)
Collect(c, t, k) ==
  /\ ~Collecting(c)
  /\ collect' = [collect EXCEPT ![c] = [tenant |-> t, key |-> k]]
  /\ read' = [p \in Readers |-> IF p[1] = c THEN BegunRead(t, p[2])
                                ELSE read[p]]
  /\ UNCHANGED <<override, changes, plan, cache, failures, fetch>>

Resolve(c, a) ==
  /\ ReadTenant(<<c, a>>) \/ ReadPlatform(<<c, a>>)
  /\ UNCHANGED providerVars

Resolved(c) == \A a \in Adapters : read[<<c, a>>].phase = "done"

\* A failed read of a switch fails the request.
Abandon(c) ==
  /\ Collecting(c)
  /\ ~Resolved(c)
  /\ Ended(c)
  /\ UNCHANGED <<override, changes, plan, cache, failures>>

-----------------------------------------------------------------------------
(***************************************************************************)
(* JsonHttpProvider.fetch.                                                 *)
(***************************************************************************)
SlotOfAnyTenant(c, a) == <<CHOOSE t \in Tenants : TRUE, TypeOf[a], collect[c].key>>

\* The adapters of one source type share the entry of a tenant and trip key.
Slot(c, a) == <<collect[c].tenant, TypeOf[a], collect[c].key>>

Cached(c, a) ==
  LET item == cache[Slot(c, a)]
  IN IF item = None THEN None ELSE IF item.left > 0 THEN item ELSE None

OpenTooLate(a) == failures[a] > Threshold

Open(a) == failures[a] >= Threshold

Starting(c, a) == Collecting(c) /\ Resolved(c) /\ fetch[<<c, a>>].phase = "idle"

\* The fetch ends with a freshness_status or an exception.  An available
\* envelope is current when it is about this tenant and trip key, of this
\* source type, and its freshness is not over or it is this fetch's own answer.
Finish(c, a, result, item) ==
  fetch' = [fetch EXCEPT ![<<c, a>>] =
    [NoFetch EXCEPT !.phase = "done", !.result = result,
                    !.current = \/ result \in {"unavailable", "error"}
                                \/ /\ item.tenant = collect[c].tenant
                                   /\ item.type = TypeOf[a]
                                   /\ item.key = collect[c].key
                                   /\ item.left > 0 \/ result = "fresh"]]

\* The cache comes first: before the breaker, and before the switch.
ServeCached(c, a) ==
  /\ Starting(c, a)
  /\ Cached(c, a) # None
  /\ Finish(c, a, "cached", Cached(c, a))
  /\ UNCHANGED <<override, read, changes, plan, cache, failures, collect>>

MaySend(c, a) == ~Open(a) /\ read[<<c, a>>].result /\ a \in Configured

\* provider_circuit_open, provider_disabled or provider_url_not_configured.
RefuseFetch(c, a) ==
  /\ Starting(c, a)
  /\ Cached(c, a) = None
  /\ ~MaySend(c, a)
  /\ Finish(c, a, "unavailable", None)
  /\ UNCHANGED <<override, read, changes, plan, cache, failures, collect>>

Send(c, a) ==
  /\ Starting(c, a)
  /\ Cached(c, a) = None
  /\ MaySend(c, a)
  /\ fetch' = [fetch EXCEPT ![<<c, a>>] = [NoFetch EXCEPT !.phase = "sending",
                                                      !.left = Freshness[a]]]
  /\ UNCHANGED <<override, read, changes, plan, cache, failures, collect>>

Sending(c, a) == fetch[<<c, a>>].phase = "sending"

\* An HTTP error or timeout before the last attempt.
Retry(c, a) ==
  /\ Sending(c, a)
  /\ fetch[<<c, a>>].attempt < Retries
  /\ fetch' = [fetch EXCEPT ![<<c, a>>].attempt = @ + 1]
  /\ UNCHANGED <<override, read, changes, plan, cache, failures, collect>>

\* An HTTP error on the last attempt, or an answer that is no JSON object on
\* any attempt, becomes an UNAVAILABLE envelope.
FailFetch(c, a) ==
  /\ Sending(c, a)
  /\ failures' = [failures EXCEPT ![a] = @ + 1]
  /\ Finish(c, a, "unavailable", None)
  /\ UNCHANGED <<override, read, changes, plan, cache, collect>>

\* An exception that fetch does not catch, as of a malformed URL or normalize:
\* the breaker does not count it.
RaiseFetch(c, a) ==
  /\ Sending(c, a)
  /\ Finish(c, a, "error", None)
  /\ UNCHANGED <<override, read, changes, plan, cache, failures, collect>>

SucceedFetch(c, a) ==
  /\ Sending(c, a)
  /\ LET item == [tenant |-> collect[c].tenant, type |-> TypeOf[a],
                  key |-> collect[c].key, left |-> fetch[<<c, a>>].left]
     IN /\ cache' = [cache EXCEPT ![Slot(c, a)] = item]
        /\ Finish(c, a, "fresh", item)
  /\ failures' = [failures EXCEPT ![a] = 0]
  /\ UNCHANGED <<override, read, changes, plan, collect>>

ArrivedAvailable(c, a) ==
  fetch[<<c, a>>].phase = "done" /\ fetch[<<c, a>>].result # "unavailable"

\* With an envelope, for most failures too, or with an exception.
Arrived(c, a) == fetch[<<c, a>>].phase = "done"

\* gather returns once every adapter has its envelope.  An exception fails the
\* assessment at once, but the other fetches run on, with their effects on the
\* cache and the breakers: the collector is free when the last of them ends.
Deliver(c) ==
  /\ Collecting(c)
  /\ \A a \in Adapters : Arrived(c, a)
  /\ Ended(c)
  /\ UNCHANGED <<override, changes, plan, cache, failures>>

-----------------------------------------------------------------------------
\* The process is replaced: requests, cache and breakers are gone.
Restart ==
  /\ read' = [p \in Readers |-> NoRead]
  /\ cache' = [x \in DOMAIN cache |-> None]
  /\ failures' = [a \in Adapters |-> 0]
  /\ collect' = [c \in Collectors |-> NoCollection]
  /\ fetch' = [x \in DOMAIN fetch |-> NoFetch]
  /\ UNCHANGED <<override, changes, plan>>

\* The timeout of 5 s is per read or write of a connection: a fetch may outlive
\* the freshness of what it fetches.
Tick ==
  /\ AgeOverrides
  /\ cache' = [x \in DOMAIN cache |-> IF cache[x] = None THEN None
                                      ELSE [cache[x] EXCEPT !.left = Aged(@)]]
  /\ fetch' = [x \in DOMAIN fetch |-> [fetch[x] EXCEPT !.left = Aged(@)]]
  /\ UNCHANGED <<plan, failures, collect>>

\* What the event loop runs for c's collection once it has begun.
Step(c) ==
  \/ Deliver(c)
  \/ \E a \in Adapters : \/ Resolve(c, a)
                         \/ ServeCached(c, a) \/ RefuseFetch(c, a) \/ Send(c, a)
                         \/ Retry(c, a) \/ FailFetch(c, a) \/ RaiseFetch(c, a)
                         \/ SucceedFetch(c, a)

Next ==
  \/ ControlsNext(plan.targets) /\ UNCHANGED providerVars
  \/ \E c \in Collectors : \/ \E x \in plan.trips[c] : Collect(c, x[1], x[2])
                            \/ Step(c) \/ Abandon(c)
  \/ Restart
  \/ Tick

\* The event loop runs what is ready, and every HTTP attempt ends by an answer,
\* an error or its timeout.
Fairness == \A c \in Collectors : WF_vars(Step(c))

Spec == Init /\ [][Next]_vars /\ Fairness

-----------------------------------------------------------------------------
(***************************************************************************)
(* Properties.                                                             *)
(***************************************************************************)

\* Evidence handed to an assessment as available was fetched for that tenant
\* and that trip key, from a source of the adapter's type, whoever filled the
\* cache; what comes from the cache was requested less than the freshness ago.
\* (The key has carrier, flight, departure airport and country, no date: trips
\* of one flight on two days share it.  An answer that took longer than its
\* freshness reaches the assessment that waited for it, and no other.)
ServedIsCurrent ==
  /\ TypeOK
  /\ \A c \in Collectors, a \in Adapters : fetch[<<c, a>>].current

\* A failing provider is called a bounded number of times: the failures
\* counted and the requests in flight never exceed what was under way when the
\* breaker opened, however the collections overlap.
BreakerHolds ==
  \A a \in Adapters :
    failures[a] + Cardinality({c \in Collectors : Sending(c, a)})
      <= Threshold - 1 + Cardinality(Collectors)

\* The kill switch holds: a request goes to a provider only when its switch was
\* on at some instant of the read that resolved it.  The one exception is a
\* read during which both the tenant's and the platform's override moved.
KillSwitchHolds ==
  \A c \in Collectors, a \in Adapters :
    Sending(c, a) => read[<<c, a>>].result /\ read[<<c, a>>].sound

\* One slow or failing source does not hold the assessment: every collection
\* ends, with an envelope per adapter or an error.
CollectEnds == \A c \in Collectors : Collecting(c) ~> ~Collecting(c)
=============================================================================
