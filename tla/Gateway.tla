------------------------------ MODULE Gateway ------------------------------
(***************************************************************************)
(* Admission of HTTP requests: the middleware enforce_rate_limit of        *)
(* apps/api/main.py, the start of a process (lifespan), and the two        *)
(* limiters of apps/api/security.py.                                       *)
(*                                                                         *)
(* Every process (replica) keeps a log of the requests it admitted in the  *)
(* last window.  When a Redis limiter is configured, its counters per      *)
(* clock-aligned window, shared by all replicas, decide instead; INCR and  *)
(* EXPIRE are separate calls, and each may fail, also after Redis has      *)
(* applied it.  A failure is answered by 503 or by the local limiter.      *)
(*                                                                         *)
(* The rate key is tenant, actor (or client address) and path; the module  *)
(* is about the requests for one path, so a key is an identity here.       *)
(* Health checks are counted under their own path but never refused, and   *)
(* are left out.                                                           *)
(*                                                                         *)
(* Time is counted in half seconds, because the Redis limiter works on     *)
(* whole seconds and the local one announces a truncated number of         *)
(* seconds.  Redis is external, and modelled as these calls use it.        *)
(***************************************************************************)
EXTENDS Integers, FiniteSetsExt

CONSTANTS
  Replicas,    \* API processes
  Slots,       \* requests that may be under way at once
  Calls,       \* the calls clients make: token and claimed identity
  TenantOf,    \* identity -> tenant
  Configs,     \* deployments: token required for the path, Redis configured,
               \* Redis required, api_rate_limit
  Window,      \* api_rate_limit_window_seconds
  Absent,
  MaxTime      \* bound of the clock

ASSUME WindowPositive == Window \in Nat \ {0}
ASSUME Bounds == MaxTime \in Nat
ASSUME CallsTyped ==
  /\ Calls \subseteq [token : (DOMAIN TenantOf) \cup {Absent, "invalid"},
                      claim : (DOMAIN TenantOf) \cup {Absent}]
  /\ Configs \subseteq [oidc : BOOLEAN, configured : BOOLEAN, required : BOOLEAN,
                        limit : Nat \ {0}]
ASSUME ReplicasNamed == IsFiniteSet(Replicas) /\ "redis" \notin Replicas
ASSUME AbsentDistinct ==
  /\ Absent \notin Nat
  /\ Absent \notin [until : Nat, tries : Nat, by : Replicas \cup {"redis"}]

VARIABLES
  config,    \* the deployment
  now,       \* half seconds
  limiter,   \* the limiter each replica has started with
  log,       \* FixedWindowRateLimiter.requests of each replica: <<t, n>> is the
             \* n-th request of its key that was admitted at t
  counter,   \* the Redis counters: [count, expires]
  slot,      \* the requests under way
  admitted,  \* history: requests admitted per rate key and aligned window
  hint       \* history: the last Retry-After a lone client was given

gatewayVars == <<config, now, limiter, log, counter, slot, admitted, hint>>

Identities == DOMAIN TenantOf

\* The identity the limiter and the handlers see: the token's, else the
\* claimed one.
Identity(call) == IF call.token # Absent THEN call.token ELSE call.claim

RateKeys == {Identity(call) : call \in {x \in Calls : x.token # "invalid"}}

Windows == 0 .. MaxTime \div (2 * Window)

WindowAt(t) == t \div (2 * Window)

\* The first half second of a window.
Start(w) == (2 * Window) * w

NoCounter == [count |-> 0, expires |-> Absent]

Idle == [phase |-> "idle", replica |-> Absent, key |-> Absent, at |-> 0, tries |-> Absent]

GatewayTypeOK ==
  /\ config \in Configs
  /\ now \in 0 .. MaxTime
  /\ limiter \in [Replicas -> {"local", "redis"}]
  /\ log \in [Replicas \X RateKeys -> SUBSET ((0 .. MaxTime) \X Nat)]
  /\ counter \in [RateKeys \X Windows -> [count : 0 .. config.limit + 1, expires : Nat \cup {Absent}]]
  /\ slot \in [Slots -> [phase : {"idle", "incr", "expire"},
                         replica : Replicas \cup {Absent}, key : RateKeys \cup {Absent},
                         at : Nat, tries : Nat \cup {Absent}]]
  /\ admitted \in [RateKeys \X Windows -> Nat]
  /\ hint \in [RateKeys -> [until : Nat, tries : Nat,
                            by : Replicas \cup {"redis"}] \cup {Absent}]

(***************************************************************************)
(* lifespan.  A process starts with the Redis limiter when its ping        *)
(* succeeds; when the ping fails it does not start, or starts without it.  *)
(***************************************************************************)
Startable(l) ==
  \/ l = "redis" /\ config.configured
  \/ l = "local" /\ ~(config.configured /\ config.required)

GatewayInit ==
  /\ config \in Configs
  /\ now = 0
  /\ limiter \in [Replicas -> {l \in {"local", "redis"} : Startable(l)}]
  /\ log = [x \in Replicas \X RateKeys |-> {}]
  /\ counter = [x \in RateKeys \X Windows |-> NoCounter]
  /\ slot = [s \in Slots |-> Idle]
  /\ admitted = [x \in RateKeys \X Windows |-> 0]
  /\ hint = [k \in RateKeys |-> Absent]

UnderWay(s) == slot[s].phase \in {"incr", "expire"}

-----------------------------------------------------------------------------
(***************************************************************************)
(* Authentication, before anything is counted: a denied call changes       *)
(* nothing.                                                                *)
(***************************************************************************)

\* 401: validate_bearer_token fails, or require_oidc is set, the path is not
\* exempt (booking webhook, internal jobs) and there is no token.
\* 403: the tenant header contradicts the token.
Denied(call) ==
  \/ call.token = "invalid"
  \/ call.token = Absent /\ config.oidc
  \/ /\ call.token \in Identities /\ call.claim # Absent
     /\ TenantOf[call.claim] # TenantOf[call.token]

-----------------------------------------------------------------------------
(***************************************************************************)
(* The outcome of a check: d is the request's slot, by the limiter that    *)
(* decided, retry the Retry-After in seconds.                              *)
(*                                                                         *)
(* tries is history: how many refusals in a row the lone client of a rate  *)
(* key has had from one limiter although it waited as told each time;      *)
(* Absent when another request of the key was under way meanwhile.         *)
(***************************************************************************)
Pass(s, d) ==
  /\ slot' = [slot EXCEPT ![s] = Idle]
  /\ admitted' = [admitted EXCEPT ![<<d.key, WindowAt(d.at)>>] = @ + 1]
  /\ hint' = [hint EXCEPT ![d.key] = Absent]

Refuse(s, d, by, retry) ==
  /\ slot' = [slot EXCEPT ![s] = Idle]
  /\ hint' = [hint EXCEPT ![d.key] =
                IF d.tries = Absent THEN Absent
                ELSE [until |-> now + 2 * retry, by |-> by,
                      tries |-> 1 + IF @ = Absent THEN 0
                                    ELSE IF @.by = by THEN d.tries ELSE 0]]
  /\ UNCHANGED admitted

(***************************************************************************)
(* FixedWindowRateLimiter.check, under its lock: the entries younger than  *)
(* the window are kept; a full log refuses.                                *)
(***************************************************************************)
Recent(entries, t) == {e \in entries : t - e[1] < 2 * Window}

Active(r, k) == Recent(log[<<r, k>>], now)

\* Half seconds until the oldest active entry is out of the window.
Rest(r, k) == 2 * Window - (now - Min({e[1] : e \in Active(r, k)}))

RetryAfterUnguarded(r, k) == Rest(r, k) \div 2

RetryAfter(r, k) == IF Rest(r, k) \div 2 < 1 THEN 1 ELSE Rest(r, k) \div 2

\* active.append(now)
Appended(active) == active \cup {<<now, 1 + Cardinality({e \in active : e[1] = now})>>}

CheckLocally(s, d) ==
  LET active == Active(d.replica, d.key)
  IN IF Cardinality(active) >= config.limit
     THEN /\ log' = [log EXCEPT ![<<d.replica, d.key>>] = active]
          /\ Refuse(s, d, d.replica, RetryAfter(d.replica, d.key))
     ELSE /\ log' = [log EXCEPT ![<<d.replica, d.key>>] = Appended(active)]
          /\ Pass(s, [d EXCEPT !.at = now])

-----------------------------------------------------------------------------
\* A request passes authentication and reaches the limiter of its replica.
Incoming(s, r, call) ==
  LET k == Identity(call)
      others == {x \in Slots : UnderWay(x) /\ slot[x].key = k}
  IN [phase |-> "incr", replica |-> r, key |-> k, at |-> now,
      tries |-> IF others # {} THEN Absent
                ELSE IF hint[k] = Absent THEN 0
                ELSE IF now >= hint[k].until THEN hint[k].tries ELSE 0]

\* The requests already under way for the key are no longer alone.
Crowded(k) ==
  [x \in Slots |-> IF UnderWay(x) /\ slot[x].key = k
                   THEN [slot[x] EXCEPT !.tries = Absent] ELSE slot[x]]

ArriveLocal(s, r, call) ==
  /\ ~UnderWay(s)
  /\ limiter[r] = "local"
  /\ ~Denied(call)
  /\ CheckLocally(s, Incoming(s, r, call))
  /\ UNCHANGED <<config, now, limiter, counter>>

ArriveShared(s, r, call) ==
  /\ ~UnderWay(s)
  /\ limiter[r] = "redis"
  /\ ~Denied(call)
  /\ slot' = [Crowded(Identity(call)) EXCEPT ![s] = Incoming(s, r, call)]
  /\ UNCHANGED <<config, now, limiter, log, counter, admitted, hint>>

-----------------------------------------------------------------------------
(***************************************************************************)
(* RedisFixedWindowRateLimiter.check.  The counter is that of the window   *)
(* in which the request arrived; Redis drops it when it expires.           *)
(***************************************************************************)
Counter(d) == counter[<<d.key, WindowAt(d.at)>>]

\* Counts above the limit are not told apart.
Incremented(c) == [c EXCEPT !.count = IF @ > config.limit THEN @ ELSE @ + 1]

SharedRetryAfter(d) == Window - ((d.at \div 2) % Window)

Counted(d, c) == counter' = [counter EXCEPT ![<<d.key, WindowAt(d.at)>>] = c]

\* The first request of a window goes on to set the expiry, the others are
\* decided by the count.
Incr(s) ==
  LET d == slot[s]
      c == Incremented(Counter(d))
  IN /\ d.phase = "incr"
     /\ Counted(d, c)
     /\ IF c.count = 1 THEN /\ slot' = [slot EXCEPT ![s].phase = "expire"]
                            /\ UNCHANGED <<admitted, hint>>
        ELSE IF c.count <= config.limit THEN Pass(s, d)
        ELSE Refuse(s, d, "redis", SharedRetryAfter(d))
     /\ UNCHANGED <<config, now, limiter, log>>

CounterTtlWindow == 2 * Window

CounterTtl == 2 * (Window + 1)

Expire(s) ==
  LET d == slot[s]
      c == Counter(d)
  IN /\ d.phase = "expire"
     /\ Counted(d, [c EXCEPT !.expires = now + CounterTtl])
     /\ Pass(s, d)
     /\ UNCHANGED <<config, now, limiter, log>>

FallbackAllowed == ~config.required

\* INCR or EXPIRE raises, whether Redis applied it or not.
RedisFails(s) ==
  LET d == slot[s]
      c == Counter(d)
  IN /\ UnderWay(s)
     /\ \/ UNCHANGED counter
        \/ d.phase = "incr" /\ Counted(d, Incremented(c))
        \/ d.phase = "expire" /\ Counted(d, [c EXCEPT !.expires = now + CounterTtl])
     /\ IF FallbackAllowed THEN CheckLocally(s, d)
        ELSE /\ slot' = [slot EXCEPT ![s] = Idle]
             /\ hint' = [hint EXCEPT ![d.key] = Absent]
             /\ UNCHANGED <<log, admitted>>
     /\ UNCHANGED <<config, now, limiter>>

-----------------------------------------------------------------------------
\* Time passes; Redis drops the counters that expire.  Entries of a log that
\* are out of the window no longer count, and are dropped here rather than at
\* the next check of their key; the history that no longer matters goes too.
PassTime ==
  /\ now < MaxTime
  /\ now' = now + 1
  /\ counter' = [x \in DOMAIN counter |->
                   IF counter[x].expires = now + 1 THEN NoCounter ELSE counter[x]]
  /\ log' = [x \in DOMAIN log |-> Recent(log[x], now')]
  /\ admitted' = [x \in DOMAIN admitted |->
                    IF x[2] < WindowAt(now') /\ \A s \in Slots : ~UnderWay(s)
                    THEN 0 ELSE admitted[x]]
  /\ hint' = [k \in RateKeys |-> IF hint[k] = Absent THEN Absent
                                  ELSE IF hint[k].until <= now' THEN [hint[k] EXCEPT !.until = 0]
                                  ELSE hint[k]]
  /\ UNCHANGED <<config, limiter, slot>>

GatewayNext ==
  \/ \E s \in Slots, r \in Replicas, call \in Calls :
       ArriveLocal(s, r, call) \/ ArriveShared(s, r, call)
  \/ \E s \in Slots : Incr(s) \/ Expire(s) \/ RedisFails(s)
  \/ PassTime

GatewaySpec == GatewayInit /\ [][GatewayNext]_gatewayVars

-----------------------------------------------------------------------------
(***************************************************************************)
(* Properties.                                                             *)
(***************************************************************************)

\* However requests, replicas and Redis failures interleave, until a second
\* after an aligned window has ended the requests of one rate key that arrived
\* in it are admitted up to the limit once for all replicas when Redis is
\* configured and required, and otherwise at most once more per replica.  The
\* premise is the life of the counter, which is the window and one second: a
\* request whose INCR takes longer, as a client of Redis without a timeout lets
\* it, starts the count of its window again.
WithinBudget ==
  /\ GatewayTypeOK
  /\ \A k \in RateKeys, w \in Windows :
       now < Start(w) + 2 * (Window + 1) =>
         admitted[<<k, w>>] <= config.limit * ((IF config.configured THEN 1 ELSE 0)
                                    + IF config.configured /\ config.required
                                      THEN 0 ELSE Cardinality(Replicas))

\* A client that is alone on its rate key and waits as Retry-After says is
\* admitted by the limiter that refused it: by the shared one at its first
\* retry, by the local one, which truncates the wait, at its second.
RetryAdmitted ==
  \A k \in RateKeys :
    hint[k] # Absent => hint[k].tries <= IF hint[k].by = "redis" THEN 1 ELSE 2
=============================================================================
