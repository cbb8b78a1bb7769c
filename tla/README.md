# RouteShield: specifications, model checking and proofs

This directory holds TLA+ specifications of RouteShield (the travel-route-risk
service of this repository), TLC configurations that check them on small
instances, and TLAPS proofs of the results that hold for every instance. File
names below are relative to the repository; `PROJECT.json` maps every
definition to the lines it models.

## 1. Inventory

RouteShield is one FastAPI process image (`apps/api/main.py`) run as several
replicas and as scheduled jobs over one PostgreSQL database. A handler is a
chain of short transactions; nothing is locked between them. All concurrency
is therefore interleaving of *repository calls* of different requests, jobs and
redeliveries, and a crash may fall between any two of them.

| Component | State | Operations | Interacts with | What makes it correct |
|---|---|---|---|---|
| Idempotency keys (`claim_mutation`, `complete_mutation`) | a row per (tenant, key): fingerprint, state, response, expiry | claim, complete, purge | wraps every mutating handler | one execution per key and TTL; replays return the response of the same request |
| Outbox (`notifications.py`, `actions.py`) | notification and action rows with lease, attempts; attempt table | enqueue, lease, send, complete, acknowledge | controls, erasure, senders | gapless attempt history, fenced completion, nothing reported delivered that was not sent, every due notification is settled |
| Approval (`decide_incident`) | incident status, approval row, action row, graph thread | approve, reject | keys, outbox, graph, controls | effects only after a recorded decision; one action; record and incident agree |
| Risk engine (`risk_engine.py`, `get_scoring_input`, `disposition_for`) | evidence, assessment | score, route | assessment | rounding is harmless, bands are right, blind spots go to a human |
| Monitoring, webhook, assessment | trips, evidence, assessments, incidents, two nested keys per job | scheduled run, webhook, assess, refresh, assign | keys, engine, graph | one assessment per job; no window starves |
| Privacy | holds, deletion requests, all rows of a traveler | hold, release, request, process, purge, delete memory | every writer | completed means erased; holds are respected |
| Recovery ranking and outcomes | candidate set, outcome rows, feedback | snapshot, record outcome | graph, managers | only eligible options; ordered lifecycle; one selection |
| Investigation graph (`agent/graph.py`) | checkpointed graph state | nodes, interrupt, resume | model provider, approval | bounded, terminates, pauses with a complete case |
| Traveler memory | profiles with a version, proposals, audit trail | update, propose, confirm, delete | keys, controls, holds, privacy, graph | a profile is the sum of its changes; a confirmed proposal was applied |
| Runtime controls | expiring overrides of tenant and platform | set, look up | providers, outbox, approval, monitor, memory | tenant before platform before default; what is off stays off |
| Evidence collection: providers, cache, breaker | per process: cache, failure count per adapter | collect, fetch, retry | controls, assessment | served evidence is current and the tenant's own; failing providers are left alone; collections end |
| CSV import, uploads | objects in the store, upload rows | validate | keys | a row has its original, and its status follows the content |
| Playbooks | one immutable row per name and version | publish | keys, graph | what was answered as published is what is stored |
| Rate limiter and authentication | per process: request log; Redis: counters | admit, refuse, fall back | every request | the budget holds across replicas; Retry-After can be relied on |
| Change records, onboarding, events, parsers, web console, evaluation, deployment | | | | not modelled, section 7 |

Hard behaviours: reads that are stale when the row is written back
(acknowledge, assign, decide, candidate outcomes, evidence); checks and effects
in different transactions (holds, approval status, transitions); handlers that
fail after the claim of a key; leases that lapse during a send; schedulers that
overlap; sends whose effect is unknown; settings read in two transactions;
process-local caches, breakers and limiters beside shared state; counters in
Redis whose calls fail half-way. `PROJECT.json` lists them under
`hazards`, each at its line.

## 2. Modules

| Module | Models | Grain |
|---|---|---|
| `Idempotency` | the key protocol with a clock | a claim or a completion is one step; the domain writes are the step `Act` |
| `Outbox` | both leased queues | claim transaction, per-item control check, start and end of the send, fenced completion |
| `OutboxLedger` | what the outbox promises, without workers and leases | abstract specification |
| `Approval` (extends `Idempotency`) | approve and reject | one step per transaction of `decide_incident` |
| `RiskScoring` | the engine on arbitrary evidence lists | one step per assessment, exact integer arithmetic |
| `Monitoring` | four kinds of process on trips and evidence | one step per repository call |
| `Privacy` | holds, deletion worker, retention, writers | one step per transaction; the retention job read by read |
| `RecoveryPolicy` | pure functions of `domain/policies.py`, `domain/recovery.py` | operators |
| `CandidateOutcomes` (extends `RecoveryPolicy`) | the life of a candidate set, and the profile it is made with | one step per transaction |
| `InvestigationGraph` (extends `RecoveryPolicy`) | the LangGraph workflow | one step per node |
| `Handlers` (extends `Idempotency`) | what a handler does around its chain of transactions | answers before the claim, claim, chain, completion |
| `TravelerMemory`, `Playbooks`, `TripImport` (extend `Handlers`) | the handlers of these components | one step per transaction |
| `TenantServices` (extends the three) | their composition on one tenant's keys, with crashes | |
| `RuntimeControls` | override rows, `control_enabled`, the administrators | one step per transaction |
| `EvidenceProviders` (extends `RuntimeControls`) | evidence collection in one API process | one step per stretch without a suspension |
| `Gateway` | admission of requests by replicas and Redis | one step per call to Redis |
| `IdempotencyProofs`, `OutboxProofs`, `MonitoringProofs`, `PrivacyProofs`, `GatewayProofs` | | proofs about the module of that name |
| `KeyedHandlersProofs` (extends `IdempotencyProofs`) | | proofs about `Approval` and `TenantServices`, and that both keep to the key protocol |
| `EvidenceProofs` | | proofs about `EvidenceProviders` with `RuntimeControls`, and about `RiskScoring` |
| `RecoveryProofs` | | proofs about `RecoveryPolicy`, `InvestigationGraph` and `CandidateOutcomes` |

`MC*` modules give the constants; each `.cfg` is one run. Operators that stand
immediately before another one and differ from it in one detail
(`FreeInProgress` before `Free`, ...) are faulty variants used to test that the
properties can fail; no specification uses them. Where one proof module covers
two specifications, one of them has its own names for `Init`, `Next`, `Spec`,
`vars` and `TypeOK` (`EngineSpec` of `RiskScoring`, `OutcomesSpec` of
`CandidateOutcomes`).

`Outbox`, `Monitoring` and `Privacy` have a constant `Casts`: a set of sets of
processes and records. A behaviour chooses one of them initially; whoever is
not in it never acts (a worker that is not invoked, a record that is already
gone, a hold that was released). One run so covers several small groups of
actors whose interleavings matter, instead of all actors at once. `Workloads`
of `Handlers` and `Plans` of `EvidenceProviders` do the same for requests.

The type invariant of a module is the first conjunct of one of its invariants
(`AttemptHistory`, `DecisionBeforeEffects`, `AnsweredMeansAssessed`,
`CompletedMeansErased`, `OutcomesMeetPolicy`, `Bounded`, `ServedIsCurrent`,
`WithinBudget`, `ProfileIsReplay`, `PublishedIsStored`, `UploadTruthful`). All
are proved; those of `Idempotency` and `RiskScoring` are theorems of their own.

### State and actions against the code

*Idempotency.* `ledger` is `idempotency_records`; `req` is what each HTTP
delivery has done. `Free` is the expiry test of `claim_idempotency`,
`ClaimExecute/ClaimRefuse/ClaimReplay` its dispositions, `Completable` the
key-and-fingerprint test of `complete_idempotency`. Field `owner` is history.
One clock serves all processes: `expires_at` is computed just before the claim
transaction and taken to be computed in it.

*Outbox.* Instants are kept as time left, so no clock has to be bounded.
`Scan` is the unordered `LIMIT`ed SELECT, `Claimable` the test in Python on its
rows, `Holds` the fence of `complete_notification_delivery` and
`complete_action_dispatch`. `hit`/`sent` are history: whether a send took
effect at the provider, which the code cannot know.

*Approval.* The fingerprint of a request determines incident, decision and
action payload. `stage` is the next transaction. `KeepsKeyProtocol` states that
the chain implements `Idempotency!Spec`. `rivals` is history: whether another
decision of the incident was between its status test and its save while this
one was (`Deciding`).

*RiskScoring.* Scores in hundredths, weights in percent; `Round` is
`round(x, 2)`. `EvidenceLists` is any set of lists.

*Monitoring.* A job is a window, a message or a caller's key; `outer` and
`inner` are the two idempotency rows of the job. Keys do not expire in this
module: windows are open for 20 minutes and the TTL is a day. The handlers'
role and signature checks have no state and are left out. A webhook of a type
that is none of the itinerary's (`IsOther`) claims its key and completes it,
and does nothing else. Evidence has one of three `Readings`: `"invalid"` is a
`risk_score` that `normalized_payload` accepts and `RiskFactors` does not.
`RaiseAssessment` is the exception this becomes, or one of a collector: nobody
catches it, both keys stay in progress, and a monitor run ends. `raised` is
history.

*Privacy.* A row `<<kind, owner>>` stands for all rows of that kind. The worker
judges holds by the time at which its run began (`lapsed`); retention and the
memory endpoint by the present. `purge` is what the one transaction of
`purge_expired` has read so far, at READ COMMITTED: the trips, then the holds,
then the other rows; its deletions are one step, since they go by the ids chosen
before and a later statement chooses no others. `standing` is history: the holds
that have been in force without interruption since a worker took up its request,
or since the retention job began.

*CandidateOutcomes.* `order` is the order of `(occurred_at, outcome_id)`,
`saved` the committed rows. `confirmed` is the minimum connection of the stored
profile and `context` the one an investigation has read (`ReadProfile`, subject
to `MEMORY_READS_ENABLED`); the profile may change until the set is saved.
`SaveGraphSet` is the set of `run_graph_investigation`, evaluated with
`context`, `SaveManagerSet` that of `create_candidate_set`, evaluated by the
corporate policy alone. `informed` is history: the context is still the
profile's.

*InvestigationGraph.* The model provider is external: it may choose any listed
tool, none, or fail, and return any recommendation that passes its schema.

*Handlers.* `want` is what a request asks for, `step` its next transaction. A
request that answers before its claim (`"done"` while still `new`) leaves the
key alone; an error after the claim is `GiveUp`, which keeps it. The chain of
transactions is the one action `Act` of the key protocol, so that
`ServicesKeepKeys` (`Idempotency!Spec`) is a refinement.

*TravelerMemory.* `by` holds, per field, the request that set it. `log`,
`stale` and `saved` are history: the changes saved since the profile was
created, whether one of them overwrote a change it had not read, and the
requests that saved; `resolved` and `again` too: the proposals a confirmation
has resolved since they were posted, and the confirmations that read one after
that. A posted proposal is saved with the status its client gave it
(`StatusToSave`). Restricted patch names are names outside `Fields`.

*TripImport.* Upload id and object are named by the request, as they are drawn
per execution. A content is one of the ways the handler can end: clean,
refused (422, 403), ragged or outsized (unhandled errors). The object store is
external: a failing `put` may or may not have stored the object.

*RuntimeControls.* An override is its value and the time left. `on`, `moved`
and `sound` are history on a read under way: they decide whether the value
returned was in force at some instant of the read.

*EvidenceProviders.* `fetch` runs from the cache lookup to the first HTTP
request in one step (no `await` lies between), and from the last answer to its
end. Age of evidence counts from the start of its fetch. `Restart` loses cache,
breakers and collections. Whether an HTTP attempt succeeds, fails or raises what
`fetch` does not catch (`RaiseFetch`) is nondeterministic, and time passes
during it without limit: the timeout of the client is per operation.

*Gateway.* Time is in half seconds, since the Redis limiter counts whole
seconds and the local one truncates. `Denied` is the authentication part of the
middleware with the token check reduced to its outcome. A request log is the
set of its entries `<<t, n>>`, the `n`-th request admitted at `t`; entries that
have left the window are dropped as time passes, where the code drops them at
the next check of the key, before it counts. A call to Redis takes any time:
its client is created without a timeout. `admitted` and `hint` are history. A
configuration is chosen initially, and per replica whether its start-up ping
succeeded.

## 3. Runs

Passing runs. All their safety properties are also proved for every value of
the constants (section 5).

| Run | Shows | Bounds and why they suffice |
|---|---|---|
| `idempotency` | `WindowsDisjoint`, `ReplayFaithful`, `OverwriteOnlyByOutlived`, `InProgressMeansUnfinished` | 3 requests, 1 key, 2 payloads, TTL 2, clock to 5: two successive windows, a handler outliving each, and a replay |
| `outbox` | `AttemptHistory`, `OneLiveSender`, `NoPhantomDelivery`, `ErasedNeverDue`; refinement of `OutboxLedger`; `NotificationsSettle` | casts: 2 workers on 1 record; 1 worker with a batch of 2. One acknowledgement, 3 attempts, lease of 2 ticks, so that it lapses before, during and after a send; two claim ids, so that a stale copy meets a later claim |
| `approval` | `DecisionBeforeEffects`, `LoneDecisionIsWhole`, refinement of the key protocol (with `WindowsDisjoint`: one action per key and window) | 2 requests, 2 keys, approve with and without action and reject with action, TTL 2, clock to 2: a key is claimed again after its window |
| `monitoring` | `AnsweredMeansAssessed` (with one assessment per job), `WindowAssessedUnlessLost` | casts: two monitor runs over two trips with a window each, or on one trip beside reported evidence; one run with a creating or updating webhook, a cancelling one, one of another type, an assess or refresh call, an assignment. Each process repeats its job, so that retries and redeliveries occur; calm, elevated and invalid evidence; assessments that raise, and one crash at any step |
| `privacy` | `CompletedMeansErased`, `RetentionKeepsHeld`, `ErasureHeedsHolds`, `DeletionSettles` | 1 traveler, 1 trip; casts: two deletion runs under a traveler hold; a memory-only and a full request beside a writing handler under a trip hold; retention under holds of all scopes that change between its reads. One failing transaction or crash |
| `recovery` | `ScoreTracksWeights`, `CriticalNeedsFlightStatus`, `SightedOrReviewed`, `WorseNeverCalms`; `Bounded`, `PausedWithCompleteCase`, `ComesToRest`; `OutcomesMeetPolicy` (with the order of the ranking), `Justified` | `RiskScoring`, `InvestigationGraph` and `CandidateOutcomes` share no variable and are explored one after another. 61 evidence lists around every band and bound; every input of the graph, the fixture alternatives, the code's limit of 3 iterations; 3 requests on sets with ties, boundary costs and connections, with and without a minimum in the profile |
| `providers` | `ServedIsCurrent`, `BreakerHolds`, `KillSwitchHolds`, `CollectEnds` | 2 weather adapters with a common cache entry, one off by default; plans: 2 overlapping collections for one tenant or for two with the same trip key; one collection beside 2 changes of the switches, each expiring or not. Breaker threshold 2, one retry, freshness of 2 ticks: entries expire between and during collections, a late failure and a late success meet an open breaker, and the torn read is reached |
| `gateway` | `WithinBudget`, `RetryAdmitted` | 2 replicas, 2 requests at a time, 2 identities, windows of 2 s, clock into the second window and past the end of the first one's counter; a deployment that requires tokens and Redis (limit 2) and one that requires neither (limit 1) |
| `handlers` | `ProfileIsReplay`, `ConfirmedMeansSaved`, `AppliedAgainOnlyByOverlap`, `PublishedIsStored`, `UploadTruthful`, `ServicesKeepKeys` | any 2 requests of the 13 kinds, and a confirmation with 2 more requests about the same memory; 1 key, used or not; the clock reaches the end of the TTL, so that a key is claimed again. Requests are interchangeable (symmetry) |

Three runs end in a violation, each of a sentence of the repository (see
`findings` in `PROJECT.json`):

| Run | Property | Trace |
|---|---|---|
| `monitoring_stuck` | `WindowClaimed` (`apps/api/main.py:599`: "claim and assess due windows once") | two active trips, no crash: the assessment of one raises, its key stays in progress, and each later run ends with 409 at that window before it reaches the other trip, whose due window is never claimed. The order of the trips is the database's (`list_trips` is an unordered SELECT) |
| `approval_actions` | `QueuedActionsApproved` (`domain/models.py:496`, `apps/api/main.py:2884`: approved actions) | `privacy_held_notes` | `RetentionKeepsHeldNotes` (`docs/runbooks.md:171`: a hold stops automated retention) | retention deletes the notifications of a traveler who was under a hold all the time |

`CHECK_DEADLOCK FALSE` is used where the model ends: all requests answered, the
clock at its bound, the graph at its end.

### Behaviours the code does not exclude

The following are behaviours of the modules as they are of the code. The
properties above are stated so that they hold beside them; what these
behaviours contradict is not claimed anywhere.

| Behaviour | Where |
|---|---|
| a handler that failed after its claim keeps the key; the retry is told the request is still in progress until the TTL ends | `apps/api/main.py:280` |
| an acknowledgement that read a notification writes it back after its erasure (it is final, so it is never sent) | `apps/api/main.py:3001` |
| a rejection that carries an action queues it (`domain/models.py:496` calls the record human-approved) | `apps/api/main.py:1973` |
| two decisions under different keys both pass the status test and both queue an action | `apps/api/main.py:1950` |
| of two decisions one wins the approval row and the other the incident | `apps/api/main.py:1965` |
| one source going stale contributes 0 and can turn an investigation into monitoring; two core sources, or flight status at High, call for review | `apps/api/main.py:549` |
| an assignment that read the trip before its cancellation makes it active again | `apps/api/main.py:1652` |
| evidence collected for the old itinerary is stored after the webhook dropped the trip's evidence | `apps/api/main.py:1750` |
| stored evidence is reused in a later window past its `expires_at` (`ProductPRD.md:950`: stale evidence is never cited as current) | `apps/api/main.py:1745` |
| a hold created, or a row renewed, after retention has read the holds and the rows does not stop the deletion | `apps/api/postgres_repository.py:1676` |
| a manager's candidate set is evaluated without the traveler's minimum connection, and an investigation uses the profile it read | `apps/api/main.py:1313`, `apps/api/main.py:780` |
| a webhook of an unknown type is answered as accepted and does nothing | `apps/api/main.py:1056` |
| a hold created between the worker's check and its erasure does not stop the erasure | `workers/privacy.py:34` |
| an assessment in flight stores evidence and an incident for an erased trip | `apps/api/postgres_repository.py:1566` |
| two outcome requests validated against one view record outcomes out of order, or the same one twice | `apps/api/main.py:1471` |
| two candidates of one set are both selected | `apps/api/main.py:1455` |
| a crash after the outcome row loses the manager feedback | `apps/api/main.py:1532` |
| a model recommendation that the appended ranking sentence makes too long is dropped without replacement | `apps/api/main.py:870` |
| two changes that read one profile both save it: one is lost and the version counts one | `apps/api/main.py:2232`, `apps/api/main.py:2382` |
| a change in flight during the deletion of a traveler's memory creates the profile anew, with the fields it had read | `apps/api/main.py:2236` |
| two confirmations under different keys both apply the patch | `apps/api/main.py:2355` |
| a posted proposal is saved with the status its client chose: it may read confirmed with nothing saved, and a resolved one that is posted again may be pending again | `apps/api/main.py:2298` |
| a breaker that opened is closed only by a request already under way or by a restart | `tools/providers.py:60` |
| an answer that took longer than its freshness is served to the assessment that waited for it; the cache key of a trip has no date, so that two days of one flight share evidence | `tools/providers.py:120`, `tools/live_providers.py:114` |
| a provider that was switched off still answers from the cache, and adapters of one source type answer with each other's envelope | `tools/providers.py:106` |
| a switch whose two override rows both move during one read is read as a value that was never in force | `apps/api/main.py:490` |
| with the local limiter, or after a failure of Redis that need not be there, every replica has a budget of its own | `apps/api/main.py:402` |
| a request whose call reaches Redis more than a second after its window has ended starts the count of the window again | `apps/api/security.py:123` |
| after waiting for a truncated Retry-After a client may be refused once more | `apps/api/security.py:96` |
| an import that fails after the store kept the object leaves an object without a row; one with a ragged row leaves a row quarantined for ever; the key stays claimed | `apps/api/main.py:983`, `apps/api/main.py:994` |

## 4. Fairness

* `Outbox!NotificationSpec`: the scheduler keeps invoking the notification job
  (`infra/terraform/main.tf:904`), started jobs go on, time passes. It is the
  fairness of the notification queue alone: nothing in the repository invokes
  the action job, so nothing is claimed to settle there. The assumption
  `<>[][OnTime]_vars` says that from some point jobs finish an item before its
  lease ends and do not crash; without it two workers can hand each other
  lapsed leases for ever. `ScanLimit` covers the table in this run: with a
  smaller one nothing forces the unordered SELECT to return a due row.
* `Monitoring!LiveSpec`: both schedulers fire for ever, started processes go
  on, automation stays on from some point. Every cast has a monitor. Windows
  are allowed to stay open, so the property speaks of windows that stay due. It
  holds as long as no process is lost and no assessment raises
  (`WindowAssessedUnlessLost`); `monitoring_stuck` shows what one exception does
  to another trip.
* `Privacy!LiveSpec`: the daily job. `InvestigationGraph!LiveSpec`: `ainvoke`
  runs node after node; the manager's answer is not assumed.
* `EvidenceProviders!Spec`: the event loop runs what is ready of a collection,
  and every HTTP attempt ends by an answer, an error or its timeout
  (`timeout_seconds`). Administrators, restarts and the clock are not fair.
* `Gateway` and `TenantServices` have no fairness: their properties are safety.

## 5. Proofs

Each theorem holds for every value of the constants: any number of requests,
workers, records, trips, travelers, collections; any bound of the clock, of
crashes and failures. The first theorem of a component is
`Spec => []Inv` with the inductive invariant `Inv` in the proof module; TLC
checked each `Inv` on the component's run before it was proved. The induction
has one step per action, or per conjunct where the lemmas say what a step can
do to the state that conjunct reads.

*`IdempotencyProofs`*. `WindowsDisjoint` is not inductive: a state in which a
live row has been forgotten satisfies it and can be claimed again. `IInv` adds
`WindowShape` (a window starts in the past and lasts a TTL), `LiveClaimHeld`
(while it is open the row is the claimant's own), `RowOwned` (a row has the
expiry and fingerprint of the request whose claim wrote it) and `RowAnswered` (a
completed row holds the response of a finished execution of its fingerprint).
From it: `OneExecutionPerWindow`, `ReplaysAreFaithful`, the action property
`OverwritesAreOutlived`, and with `RowUnfinished` (the owner of an in-progress
row has not completed) `RefusalsAreHonest`.

*`OutboxProofs`*. The properties speak of rows; what protects them is how the
workers' copies relate to the rows. `IInv` adds that a copy whose claim id is
still in the row *is* the row (`HeldCopyCurrent`), that no two workers remember
the same claim id of a record (`ClaimsDiffer`), that a live lease is the one in
the row (`LiveCopyHeld`) and that there is at most one (`OneLiveCopy`; it also
holds of erased records, where the row says nothing any more), that a sending
worker's effect is on record (`WorkerShape`) and what an acknowledgement may
rely on (`AckCurrent`). `OutboxImplementsLedger` then shows each step to be a
step of `OutboxLedger` or none: the completion of a fenced worker is an attempt,
that of one that lost its claim changes nothing.

*`KeyedHandlersProofs`*, decisions. `ApprovalKeepsKeyProtocol` is the refinement of
`Idempotency` by the chain of transactions, so the theorems above hold of
approvals; with `AInv` they give `KeysQueueOneAction`. `AInv` says what the
earlier transactions of a chain have left behind and others cannot undo
(`WritesLast`, `ActionsQueued`, `ThreadsResumed`), that decisions of one incident
which overlapped know of each other (`RivalsKnown`), and what a decision without
a rival finds of its own writes (`LoneWrites`).

*`KeyedHandlersProofs`*, services. `ServicesKeepKeyProtocol` is the same refinement for
the memory, playbook and import handlers on shared keys; its corollary carries
the theorems of the protocol over. Then one invariant per service, by the
transaction a request has reached: `GuidanceKept` (what a lookup found or an
insert kept is never overwritten), `UploadShape`, `MemoryShape`, `FreshReads` (a
request that read since the last write has the current profile).
`ProfilesAreReplays` needs that appending a change to the log changes the replay
in the fields of the change only: the last setter of a field is found by a
well-founded choice over positions, since induction over sequences is out of
reach.

*`EvidenceProofs`*. For the risk engine `Engine` says the stored assessment is
the result for an admissible list; lemmas bound the error of `Round`, its
monotonicity, each contribution and the sum. For the providers `PInv` adds to
the types that a read of a switch is sound at every instant (`SoundReads`: unless
the control was on since the read began, the tenant's row it has passed is still
not in force and the platform's still says off, except for rows that moved), that a cache entry belongs to the tenant, type and trip it
is filed under (`CacheKeyed`), and what a fetch under way has passed
(`FetchShape`). `BreakersHold` counts with the theorems on finite sets: a
request sent while the breaker is closed adds one to the requests in flight, and
a failure moves one from there to the count.

*`RecoveryProofs`*. Lemmas about the ranking: `Better` is a strict total order
on candidates, so positions are a bijection onto `1..n` and the ranking lists
every eligible candidate once. `GraphInv` ties the iteration counter to the
tools looked up (`LoopShape`), the completions to the node (`CallShape`), the
advice to its author (`AdviceShape`) and the case to the gate (`CaseShape`).
`OutcomesInv` says that the snapshot is the ranking of its answer under the
minimum its origin applies (`SnapshotIsRanking`, `ContextShape`), that an accepted request names an eligible candidate, and that what justified it was
saved before and has the smaller stamp (`Grounded`): rows are only added, so a
justification found in a stale view stays one.

*`MonitoringProofs`*. `MonitoringInv` says that between claim and completion of
the inner key one process executes the job (`HolderShape`) and what the job has
to show at each of its steps (`WorkShape`). A crash leaves the key in progress,
so nobody comes after it: what makes a job safe is what makes it starve in
`monitoring_stuck`.

*`PrivacyProofs`*. `WorkerShape`: a run about to report completion has committed
the erasure of the request it holds. For the holds the invariant says what each
job has still to respect: a hold that stood since a worker took up its request
is not among those it takes for expired, and from its check on none covers its
traveler; a hold that stood since retention began is among those it has read,
and covers none of the trips, cases, profiles and proposals it has chosen. From
it `RetentionSparesHeld` and `ErasuresHeedHolds`.

*`GatewayProofs`*. `GatewayInv` says of the request logs that they hold no more
than the limit, nothing from the future and, where Redis must decide, nothing
(`LogShape`); of a counter that it lives until a second after its window and
that at most one request is about to set its expiry (`CounterShape`); of a
request that counts as a lone client's retry that nobody counts for its key but
itself (`LoneShape`). For `RetryAdmitted` it needs `HintShape`, what the world
looks like when the announced wait is over: the window that was full is past,
or fewer than the limit of the entries of the full log outlast the wait by one
half second after the first refusal, by nothing after the second. That half
second is what the truncation of Retry-After costs, and why a local limiter may
refuse twice. `RetriesAreAdmitted` holds however slow Redis is.

For `WithinBudget`, `Budgeted` bounds what was admitted in a window, as long as
its counter is certain to exist, by the shared limit plus one token for each
entry of that window in the replicas' logs, and by the count of the counter plus
the tokens. The first bound alone is not inductive: it does not say that a count
below the limit leaves room for one more request. Once the window is past the
tokens are replaced by the full local budget, since entries leave the logs. The
property ends with the second that `CounterTtl` adds to the window. That limit
is in the property and cannot be dropped: the code sets no timeout on its calls
to Redis, and without it TLC finds a request of a full window whose `INCR` comes
after the counter has gone and is admitted.

Assumptions are the named `ASSUME`s of the modules, evaluated by TLC in every
run. They give the constants their types, say that the values used for "none"
are different from real ones (`NoneIsFresh`, `NoneIsNoKind`, `NoneIsNoValue`,
`ThreadStatesAreNoRequests`, `AbsentDistinct`, ...), that travelers and trips, or schedulers and
handlers, do not share names (`NamesDistinct`, `JobsTyped`), and that the
collections of a process, the candidates of an answer and the replicas are
finitely many (`CollectorsTyped`, `RawTyped`, `GraphTyped`, `ReplicasNamed`).

Only model-checked are the liveness properties (`NotificationsSettle`,
`WindowAssessedUnlessLost`, `DeletionSettles`, `ComesToRest`, `CollectEnds`): the
prover handles neither fairness nor `ENABLED`.

## 6. Plan

Order of work, most important first: key protocol, outbox, approval, risk
engine, monitoring, privacy, candidates, graph; then runtime controls with the
providers that read them, the gateway, and the remaining keyed handlers
(memory, playbooks, import); then the proofs of section 5, the gateway's last.
The plan is carried out. What it leaves open is in the code: were the calls to
Redis given a timeout of a second, `WithinBudget` would hold without its limit in
time, and the two findings that are one missing test (`approval_actions`,
`privacy_held_notes`) would become properties of the passing runs.

## 7. Not modelled

Token cryptography, role guards and webhook signatures (they keep no state);
parsers of provider payloads and of CSV text, fixtures (data without control
flow, replaced by any value they may yield); change records, onboarding, events
(records nothing else reads); configuration, migration, web console, mock
provider, evaluation, deployment (start-up wiring, I/O, offline metrics).
`RedisProviderCache`, `IdempotencyStore` and `WebhookReplayStore` are not wired
to anything. Multiple tenants are modelled only where they share something (a
worker, a cache, a limiter): all other rows are keyed by tenant.

## 8. Running

    tlc -workers 2 -config MCOutbox.cfg MCOutbox
    tlapm IdempotencyProofs.tla
