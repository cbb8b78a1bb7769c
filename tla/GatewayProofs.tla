---------------------------- MODULE GatewayProofs ----------------------------
(***************************************************************************)
(* Proofs about Gateway for any deployment, any number of replicas, slots, *)
(* keys and calls, any limit, window and clock bound.                      *)
(*                                                                         *)
(* First the inductive invariant: what the logs and counters hold, and     *)
(* what a client that waited as Retry-After says will find.  Then the      *)
(* budget: what was admitted in a window is covered by the count of its    *)
(* counter and by tokens, one for each entry of the window in the          *)
(* replicas' logs.                                                         *)
(***************************************************************************)
EXTENDS Gateway, FiniteSetTheorems, WellFoundedInduction, TLAPS

-----------------------------------------------------------------------------
Later(s, t) == IF s < t THEN t ELSE s

\* The requests between the INCR that made them the first of a window and
\* their EXPIRE.
Firsts(k, w) ==
  {s \in Slots : slot[s].phase = "expire" /\ slot[s].key = k /\ WindowAt(slot[s].at) = w}

EntriesOf(r, k, w) == {e \in log[<<r, k>>] : WindowAt(e[1]) = w}

\* A log holds no more than the limit, nothing from the future, and nothing at
\* all where Redis must decide; the entries of one moment are numbered.
LogShape ==
  \A r \in Replicas, k \in RateKeys :
    /\ IsFiniteSet(log[<<r, k>>]) /\ Cardinality(log[<<r, k>>]) <= config.limit
    /\ config.configured /\ config.required => log[<<r, k>>] = {}
    /\ \A e \in log[<<r, k>>] :
         /\ e[1] <= now
         /\ e[1] = now => e[2] <= Cardinality({x \in log[<<r, k>>] : x[1] = now})

LimiterShape == \A r \in Replicas : Startable(limiter[r])

SlotShape ==
  \A s \in Slots : UnderWay(s) =>
    /\ config.configured /\ slot[s].replica \in Replicas /\ slot[s].key \in RateKeys
    /\ slot[s].at <= now

\* A counter outlives its window by a second, and has no expiry while the first
\* request of its window has still to set it.
CounterShape ==
  \A k \in RateKeys, w \in Windows :
    /\ counter[<<k, w>>].expires # Absent =>
         counter[<<k, w>>].expires >= Start(w) + 2 * Window + 2
    /\ counter[<<k, w>>].count # 0 => w <= WindowAt(now)
    /\ counter[<<k, w>>].count = 0 => counter[<<k, w>>].expires = Absent
    /\ \A s \in Firsts(k, w) : /\ counter[<<k, w>>].count >= 1
                               /\ counter[<<k, w>>].expires = Absent
                               /\ Firsts(k, w) = {s}

\* What is known of a request under way that counts as the retry of a lone
\* client: no later window has been counted for its key, and if the shared
\* limiter told it to wait neither has its own.
LoneShape ==
  \A s \in Slots : UnderWay(s) /\ slot[s].tries # Absent =>
    /\ \A x \in Slots : UnderWay(x) /\ slot[x].key = slot[s].key => x = s
    /\ \A w \in Windows : w > WindowAt(slot[s].at) => counter[<<slot[s].key, w>>].count = 0
    /\ slot[s].tries >= 1 /\ hint[slot[s].key] # Absent =>
         /\ hint[slot[s].key].tries = slot[s].tries
         /\ hint[slot[s].key].until <= slot[s].at
         /\ hint[slot[s].key].by = "redis" /\ slot[s].phase = "incr"
              => counter[<<slot[s].key, WindowAt(slot[s].at)>>].count = 0

\* The entries that are still active one half second (first refusal) or no time
\* (second refusal) after the wait announced to the client of k.
Outlasting(k) ==
  {e \in log[<<hint[k].by, k>>] :
     e[1] + 2 * Window > Later(hint[k].until, now) + 2 - hint[k].tries}

\* When the wait is over the window that was full is past, or an entry has left
\* the log that was full.
HintHolds(k) ==
  hint[k] # Absent =>
    /\ hint[k].by = "redis" =>
         /\ hint[k].tries = 1
         /\ \A w \in Windows : w >= WindowAt(now) /\ w >= WindowAt(hint[k].until) =>
              counter[<<k, w>>].count = 0 \/ Firsts(k, w) # {}
    /\ hint[k].by # "redis" =>
         hint[k].tries \in 1 .. 2 /\ Cardinality(Outlasting(k)) < config.limit

HintShape == \A k \in RateKeys : HintHolds(k)

GatewayInv ==
  /\ GatewayTypeOK /\ LogShape /\ LimiterShape /\ SlotShape
  /\ CounterShape /\ LoneShape /\ HintShape

-----------------------------------------------------------------------------
(***************************************************************************)
(* Windows and waits.                                                      *)
(***************************************************************************)
LEMMA WindowFacts ==
  ASSUME NEW t \in Nat
  PROVE  /\ WindowAt(t) \in Nat /\ Start(WindowAt(t)) \in Nat
         /\ Start(WindowAt(t)) <= t /\ t < Start(WindowAt(t)) + 2 * Window
<1> DEFINE n == 2 * Window
<1>1. n \in Nat \ {0}
  BY WindowPositive
<1>2. t \div n \in Nat /\ n * (t \div n) <= t /\ t < n * (t \div n) + n
  <2> HIDE DEF n
  <2> QED
    BY <1>1
<1>3. n * (t \div n) \in Nat
  <2> HIDE DEF n
  <2> QED
    BY <1>1, <1>2
<1> QED
  BY <1>2, <1>3 DEF WindowAt, Start

LEMMA StartMono ==
  ASSUME NEW v \in Nat, NEW w \in Nat, v < w
  PROVE  Start(v) \in Nat /\ Start(w) \in Nat /\ Start(v) + 2 * Window <= Start(w)
<1> DEFINE n == 2 * Window
<1>1. n \in Nat \ {0}
  BY WindowPositive
<1>2. n * v \in Nat /\ n * w \in Nat /\ n * v + n <= n * w
  <2> HIDE DEF n
  <2> QED
    BY <1>1
<1> QED
  BY <1>2 DEF Start

LEMMA StartNat ==
  ASSUME NEW w \in Nat
  PROVE  Start(w) \in Nat
<1> DEFINE n == 2 * Window
<1>1. n \in Nat
  BY WindowPositive
<1>2. n * w \in Nat
  <2> HIDE DEF n
  <2> QED
    BY <1>1
<1> QED
  BY <1>2 DEF Start

LEMMA WindowMono ==
  ASSUME NEW s \in Nat, NEW t \in Nat, s <= t
  PROVE  WindowAt(s) <= WindowAt(t)
<1> SUFFICES ASSUME WindowAt(t) < WindowAt(s) PROVE FALSE
  BY WindowFacts
<1> QED
  BY WindowFacts, StartMono, WindowPositive

LEMMA WindowInRange ==
  ASSUME NEW t \in 0 .. MaxTime
  PROVE  WindowAt(t) \in Windows
<1>1. WindowAt(t) \in Nat /\ WindowAt(MaxTime) \in Nat /\ WindowAt(t) <= WindowAt(MaxTime)
  BY WindowFacts, WindowMono, Bounds
<1> QED
  BY <1>1 DEF Windows, WindowAt

LEMMA WindowsNat == Windows \subseteq Nat
<1>1. WindowAt(MaxTime) \in Nat
  BY WindowFacts, Bounds
<1> QED
  BY <1>1 DEF Windows, WindowAt

\* The moments of one window are less than a window apart.
LEMMA SameWindow ==
  ASSUME NEW s \in Nat, NEW t \in Nat, s <= t, WindowAt(s) >= WindowAt(t)
  PROVE  t - s < 2 * Window /\ WindowAt(s) = WindowAt(t)
<1>1. WindowAt(s) = WindowAt(t)
  BY WindowMono, WindowFacts
<1> QED
  BY <1>1, WindowFacts, WindowPositive

\* The wait of the shared limiter ends in a later window.
LEMMA SharedWait ==
  ASSUME NEW t \in Nat, NEW d, d.at = t
  PROVE  /\ SharedRetryAfter(d) \in Nat
         /\ \A u \in Nat : u >= t + 2 * SharedRetryAfter(d) => WindowAt(u) > WindowAt(t)
<1> DEFINE q == t \div 2
           v == q \div Window
           m == q % Window
           p == Window * v
<1>1. q \in Nat /\ 2 * q <= t /\ t < 2 * q + 2
  OBVIOUS
<1>2. v \in Nat /\ q = p + m /\ m \in 0 .. Window - 1 /\ p \in Nat
  <2>1. v \in Nat /\ q = Window * v + m /\ m \in 0 .. Window - 1
    <3> HIDE DEF q
    <3> QED
      BY <1>1, WindowPositive
  <2> QED
    <3> HIDE DEF v
    <3> QED
      BY <2>1, WindowPositive
<1>3. SharedRetryAfter(d) = Window - m
  BY DEF SharedRetryAfter
<1>4. Start(v) \in Nat /\ Start(v) = 2 * p
  <2> HIDE DEF v
  <2> QED
    BY <1>2, WindowPositive DEF Start
<1>5. Start(v) <= t /\ t < Start(v) + 2 * Window
  <2> HIDE DEF v, m, q, p
  <2> QED
    BY <1>1, <1>2, <1>4, WindowPositive
<1>6. WindowAt(t) <= v
  <2> HIDE DEF v, m, q, p
  <2> SUFFICES ASSUME v < WindowAt(t) PROVE FALSE
    BY <1>2, WindowFacts
  <2>1. Start(v) + 2 * Window <= Start(WindowAt(t)) /\ Start(WindowAt(t)) \in Nat
    BY <1>2, WindowFacts, StartMono
  <2>2. Start(WindowAt(t)) <= t
    BY WindowFacts
  <2> QED
    BY <1>4, <1>5, <2>1, <2>2, WindowPositive
<1>7. ASSUME NEW u \in Nat, u >= t + 2 * (Window - m)
      PROVE  WindowAt(u) > v
  <2>1. u >= Start(v) + 2 * Window
    <3> HIDE DEF v, m, q, p
    <3> QED
      BY <1>1, <1>2, <1>4, <1>7, WindowPositive
  <2> HIDE DEF v, m, q, p
  <2> SUFFICES ASSUME WindowAt(u) <= v PROVE FALSE
    BY <1>2, WindowFacts
  <2>2. u < Start(WindowAt(u)) + 2 * Window /\ Start(WindowAt(u)) \in Nat
    BY WindowFacts
  <2>3. Start(WindowAt(u)) <= Start(v)
    <3>1. CASE WindowAt(u) = v
      BY <3>1, <1>4
    <3>2. CASE WindowAt(u) < v
      BY <3>2, <1>2, WindowFacts, StartMono, WindowPositive
    <3> QED
      BY <3>1, <3>2, <1>2, WindowFacts
  <2> QED
    BY <1>4, <2>1, <2>2, <2>3, WindowPositive
<1> QED
  <2> HIDE DEF v, m, q, p
  <2> QED
    BY <1>2, <1>3, <1>6, <1>7, WindowFacts, WindowPositive

-----------------------------------------------------------------------------
(***************************************************************************)
(* Logs.                                                                   *)
(***************************************************************************)
LEMMA LimitPositive ==
  ASSUME GatewayTypeOK
  PROVE  config.limit \in Nat /\ config.limit >= 1 /\ config.configured \in BOOLEAN
         /\ config.required \in BOOLEAN
BY CallsTyped DEF GatewayTypeOK

LEMMA LogTyped ==
  ASSUME GatewayTypeOK, NEW r \in Replicas, NEW k \in RateKeys
  PROVE  /\ log[<<r, k>>] \subseteq (0 .. MaxTime) \X Nat
         /\ \A e \in log[<<r, k>>] : e = <<e[1], e[2]>> /\ e[1] \in Nat /\ e[2] \in Nat
                                     /\ e[1] \in 0 .. MaxTime
         /\ now \in Nat /\ now \in 0 .. MaxTime
<1>1. log[<<r, k>>] \subseteq (0 .. MaxTime) \X Nat
  BY DEF GatewayTypeOK
<1> QED
  BY <1>1, Bounds DEF GatewayTypeOK

LEMMA ActiveFacts ==
  ASSUME GatewayTypeOK, LogShape, NEW r \in Replicas, NEW k \in RateKeys
  PROVE  /\ Active(r, k) \subseteq log[<<r, k>>]
         /\ Active(r, k) = {e \in log[<<r, k>>] : e[1] + 2 * Window > now}
         /\ IsFiniteSet(Active(r, k)) /\ Cardinality(Active(r, k)) \in Nat
         /\ Cardinality(Active(r, k)) <= config.limit
         /\ {e \in Active(r, k) : e[1] = now} = {e \in log[<<r, k>>] : e[1] = now}
<1>1. Active(r, k) \subseteq log[<<r, k>>]
  BY DEF Active, Recent
<1>2. IsFiniteSet(log[<<r, k>>]) /\ Cardinality(log[<<r, k>>]) <= config.limit
  BY DEF LogShape
<1>3. /\ IsFiniteSet(Active(r, k)) /\ Cardinality(Active(r, k)) \in Nat
      /\ Cardinality(Active(r, k)) <= Cardinality(log[<<r, k>>])
      /\ Cardinality(log[<<r, k>>]) \in Nat
  BY <1>1, <1>2, FS_Subset, FS_CardinalityType
<1>4. Active(r, k) = {e \in log[<<r, k>>] : e[1] + 2 * Window > now}
  BY LogTyped, WindowPositive DEF Active, Recent
<1>5. {e \in Active(r, k) : e[1] = now} = {e \in log[<<r, k>>] : e[1] = now}
  BY <1>4, LogTyped, WindowPositive
<1> QED
  BY <1>1, <1>2, <1>3, <1>4, <1>5, LimitPositive

\* A log to which the check of r appends holds one entry more, at now.
LEMMA AppendedFacts ==
  ASSUME GatewayTypeOK, LogShape, NEW r \in Replicas, NEW k \in RateKeys
  PROVE  /\ Appended(Active(r, k)) \subseteq (0 .. MaxTime) \X Nat
         /\ IsFiniteSet(Appended(Active(r, k)))
         /\ Cardinality(Appended(Active(r, k))) = Cardinality(Active(r, k)) + 1
         /\ \E e : /\ e \notin Active(r, k) /\ Appended(Active(r, k)) = Active(r, k) \cup {e}
                   /\ e[1] = now
         /\ \A e \in Appended(Active(r, k)) :
              /\ e[1] <= now
              /\ e[1] = now => e[2] <= Cardinality({x \in Appended(Active(r, k)) : x[1] = now})
<1> DEFINE A == Active(r, k)
           N == {e \in A : e[1] = now}
           e0 == <<now, 1 + Cardinality(N)>>
<1>0. A \subseteq log[<<r, k>>] /\ IsFiniteSet(A) /\ N = {e \in log[<<r, k>>] : e[1] = now}
  BY ActiveFacts
<1>1. N \subseteq A /\ IsFiniteSet(N) /\ Cardinality(N) \in Nat
  BY <1>0, FS_Subset, FS_CardinalityType
<1>2. Appended(A) = A \cup {e0} /\ e0[1] = now /\ e0[2] = 1 + Cardinality(N)
  BY DEF Appended
<1>3. \A e \in A : e[1] <= now /\ (e[1] = now => e[2] <= Cardinality(N))
  BY <1>0 DEF LogShape
<1>4. e0 \notin A
  <2> SUFFICES ASSUME e0 \in A PROVE FALSE
    OBVIOUS
  <2>1. e0[2] <= Cardinality(N)
    BY <1>2, <1>3
  <2> QED
    BY <1>1, <1>2, <2>1
<1>5. now \in Nat /\ now \in 0 .. MaxTime /\ A \subseteq (0 .. MaxTime) \X Nat
  BY <1>0, LogTyped
<1>6. IsFiniteSet(A \cup {e0}) /\ Cardinality(A \cup {e0}) = Cardinality(A) + 1
  <2> HIDE DEF A, e0
  <2> QED
    BY <1>0, <1>4, FS_AddElement
<1>7. /\ {x \in A \cup {e0} : x[1] = now} = N \cup {e0}
      /\ Cardinality(N \cup {e0}) = Cardinality(N) + 1
  <2>1. {x \in A \cup {e0} : x[1] = now} = N \cup {e0}
    BY <1>2
  <2>2. e0 \notin N
    BY <1>4
  <2> HIDE DEF N, A, e0
  <2> QED
    BY <1>1, <2>1, <2>2, FS_AddElement
<1>8. \A e \in A \cup {e0} : e[1] <= now /\ (e[1] = now => e[2] <= Cardinality(N) + 1)
  <2> SUFFICES ASSUME NEW e \in A \cup {e0}
               PROVE  e[1] <= now /\ (e[1] = now => e[2] <= Cardinality(N) + 1)
    OBVIOUS
  <2>1. CASE e = e0
    BY <2>1, <1>1, <1>2, <1>5
  <2>2. CASE e \in A
    <3>1. e[1] <= now /\ (e[1] = now => e[2] <= Cardinality(N)) /\ e[2] \in Nat
      BY <2>2, <1>0, <1>3, LogTyped
    <3> QED
      BY <3>1, <1>1
  <2> QED
    BY <2>1, <2>2
<1>9. A \cup {e0} \subseteq (0 .. MaxTime) \X Nat
  <2>1. 1 + Cardinality(N) \in Nat
    BY <1>1
  <2> HIDE DEF N, A
  <2> QED
    BY <1>5, <2>1
<1> QED
  <2> HIDE DEF A, N, e0
  <2>1. Appended(A) = A \cup {e0}
    BY <1>2
  <2>2. \E e : /\ e \notin A /\ Appended(A) = A \cup {e} /\ e[1] = now
    BY <1>2, <1>4
  <2>3. \A e \in Appended(A) :
              /\ e[1] <= now
              /\ e[1] = now => e[2] <= Cardinality({x \in Appended(A) : x[1] = now})
    BY <1>7, <1>8, <2>1
  <2>4. Appended(A) \subseteq (0 .. MaxTime) \X Nat /\ IsFiniteSet(Appended(A))
        /\ Cardinality(Appended(A)) = Cardinality(A) + 1
    BY <1>6, <1>9, <2>1
  <2> QED
    BY <2>2, <2>3, <2>4 DEF A

LEMMA LeastNat ==
  ASSUME NEW S \in SUBSET Nat, S # {}
  PROVE  Min(S) \in S /\ \A y \in S : Min(S) <= y
<1>1. PICK z \in S : \A y \in S : ~ (<<y, z>> \in OpToRel(<, Nat))
  BY WFMin, NatLessThanWellFounded
<1>2. \A y \in S : z <= y
  <2> SUFFICES ASSUME NEW y \in S, y < z PROVE FALSE
    OBVIOUS
  <2>1. <<y, z>> \in OpToRel(<, Nat)
    BY DEF OpToRel
  <2> QED
    BY <1>1, <2>1
<1> QED
  BY <1>2 DEF Min

\* The oldest entry of a full log leaves the window Rest half seconds from now,
\* at most a half second after the wait the client is told.
LEMMA LocalWait ==
  ASSUME GatewayTypeOK, LogShape, NEW r \in Replicas, NEW k \in RateKeys, Active(r, k) # {}
  PROVE  /\ Rest(r, k) \in Nat /\ Rest(r, k) >= 1 /\ RetryAfter(r, k) \in Nat
         /\ Rest(r, k) <= 2 * RetryAfter(r, k) + 1
         /\ Rest(r, k) = 1 => RetryAfter(r, k) = 1
         /\ \E e \in Active(r, k) : e[1] + 2 * Window = now + Rest(r, k)
         /\ \A e \in Active(r, k) : now + Rest(r, k) <= e[1] + 2 * Window
<1> DEFINE S == {e[1] : e \in Active(r, k)}
<1>1. S \subseteq Nat /\ S # {}
  <2>1. \A e \in Active(r, k) : e[1] \in Nat
    BY ActiveFacts, LogTyped
  <2> QED
    BY <2>1
<1>2. Min(S) \in S /\ \A y \in S : Min(S) <= y
  <2> HIDE DEF S
  <2> QED
    BY <1>1, LeastNat
<1>3. PICK e \in Active(r, k) : e[1] = Min(S)
  BY <1>2
<1>4. e[1] \in Nat /\ e[1] + 2 * Window > now /\ now \in Nat
  BY ActiveFacts, LogTyped
<1>5. Rest(r, k) = 2 * Window - (now - e[1])
  BY <1>3 DEF Rest
<1>6. /\ Rest(r, k) \in Nat /\ Rest(r, k) >= 1
      /\ e[1] + 2 * Window = now + Rest(r, k)
  BY <1>4, <1>5, WindowPositive
<1>7. ASSUME NEW x \in Active(r, k) PROVE now + Rest(r, k) <= x[1] + 2 * Window
  <2>1. e[1] <= x[1] /\ x[1] \in Nat
    BY <1>1, <1>2, <1>3
  <2> QED
    BY <2>1, <1>4, <1>5, WindowPositive
<1>8. /\ RetryAfter(r, k) \in Nat /\ Rest(r, k) <= 2 * RetryAfter(r, k) + 1
      /\ Rest(r, k) = 1 => RetryAfter(r, k) = 1
  BY <1>6 DEF RetryAfter
<1> QED
  BY <1>6, <1>7, <1>8

-----------------------------------------------------------------------------
(***************************************************************************)
(* The request a limiter decides about.                                    *)
(***************************************************************************)
Deciding(s, d) ==
  /\ d \in [phase : {"idle", "incr", "expire"}, replica : Replicas, key : RateKeys,
            at : Nat, tries : Nat \cup {Absent}]
  /\ d.at <= now
  /\ UnderWay(s) => slot[s] = d
  /\ d.tries # Absent =>
       /\ \A x \in Slots : UnderWay(x) /\ slot[x].key = d.key => x = s
       /\ d.tries >= 1 /\ hint[d.key] # Absent =>
            hint[d.key].tries = d.tries /\ hint[d.key].until <= now

LEMMA KeysIncoming ==
  ASSUME NEW call \in Calls, ~Denied(call)
  PROVE  Identity(call) \in RateKeys
BY DEF Denied, RateKeys

LEMMA HintTyped ==
  ASSUME GatewayTypeOK, NEW k \in RateKeys, hint[k] # Absent
  PROVE  /\ hint[k].until \in Nat /\ hint[k].tries \in Nat
         /\ hint[k].by \in Replicas \cup {"redis"}
<1>1. hint[k] \in [until : Nat, tries : Nat, by : Replicas \cup {"redis"}] \cup {Absent}
  BY DEF GatewayTypeOK
<1> QED
  BY <1>1

LEMMA IncomingDecided ==
  ASSUME GatewayTypeOK, NEW s \in Slots, NEW r \in Replicas, NEW call \in Calls,
         ~UnderWay(s), ~Denied(call)
  PROVE  /\ Deciding(s, Incoming(s, r, call))
         /\ Incoming(s, r, call).key = Identity(call) /\ Incoming(s, r, call).at = now
         /\ Incoming(s, r, call).replica = r /\ Incoming(s, r, call).phase = "incr"
<1> DEFINE k == Identity(call)
           others == {x \in Slots : UnderWay(x) /\ slot[x].key = k}
           tries == IF others # {} THEN Absent
                    ELSE IF hint[k] = Absent THEN 0
                    ELSE IF now >= hint[k].until THEN hint[k].tries ELSE 0
           d == [phase |-> "incr", replica |-> r, key |-> k, at |-> now, tries |-> tries]
<1>1. k \in RateKeys
  BY KeysIncoming
<1>2. Incoming(s, r, call) = d
  BY DEF Incoming
<1>3. now \in Nat
  BY Bounds DEF GatewayTypeOK
<1>4. tries \in Nat \cup {Absent}
  <2> HIDE DEF k
  <2> QED
    BY <1>1, HintTyped
<1>5. ASSUME tries # Absent
      PROVE  /\ \A x \in Slots : UnderWay(x) /\ slot[x].key = k => x = s
             /\ tries >= 1 /\ hint[k] # Absent =>
                  hint[k].tries = tries /\ hint[k].until <= now
  <2>1. others = {}
    BY <1>5
  <2> HIDE DEF k
  <2>2. tries >= 1 /\ hint[k] # Absent => hint[k].tries = tries /\ hint[k].until <= now
    BY <1>1, <1>3, <2>1, HintTyped
  <2> QED
    BY <2>1, <2>2
<1> HIDE DEF k, tries
<1>6. d.tries = tries /\ d.key = k /\ d.at = now /\ d.replica = r /\ d.phase = "incr"
  OBVIOUS
<1>7. d \in [phase : {"idle", "incr", "expire"}, replica : Replicas, key : RateKeys,
             at : Nat, tries : Nat \cup {Absent}]
  BY <1>1, <1>3, <1>4
<1>8. d.at <= now
  BY <1>3, <1>6
<1> HIDE DEF d
<1> QED
  BY <1>2, <1>5, <1>6, <1>7, <1>8 DEF Deciding, k

LEMMA SlotDecided ==
  ASSUME GatewayTypeOK, SlotShape, LoneShape, NEW s \in Slots, UnderWay(s)
  PROVE  /\ Deciding(s, slot[s])
         /\ slot[s].phase \in {"incr", "expire"} /\ WindowAt(slot[s].at) \in Windows
<1> DEFINE d == slot[s]
<1>1. d \in [phase : {"idle", "incr", "expire"}, replica : Replicas \cup {Absent},
             key : RateKeys \cup {Absent}, at : Nat, tries : Nat \cup {Absent}]
  BY DEF GatewayTypeOK
<1>2. d.replica \in Replicas /\ d.key \in RateKeys /\ d.at <= now
  BY DEF SlotShape
<1>3. now \in 0 .. MaxTime /\ now \in Nat
  BY Bounds DEF GatewayTypeOK
<1>4. d.at \in 0 .. MaxTime /\ d.at \in Nat
  BY <1>1, <1>2, <1>3, Bounds
<1>5. d.tries # Absent =>
       /\ \A x \in Slots : UnderWay(x) /\ slot[x].key = d.key => x = s
       /\ d.tries >= 1 /\ hint[d.key] # Absent =>
            hint[d.key].tries = d.tries /\ hint[d.key].until <= d.at
  BY DEF LoneShape
<1>6. hint[d.key] # Absent => hint[d.key].until \in Nat
  BY <1>2, HintTyped
<1>7. d.tries # Absent /\ d.tries >= 1 /\ hint[d.key] # Absent => hint[d.key].until <= now
  <2> HIDE DEF d
  <2> QED
    BY <1>2, <1>3, <1>4, <1>5, <1>6
<1>8. d \in [phase : {"idle", "incr", "expire"}, replica : Replicas, key : RateKeys,
             at : Nat, tries : Nat \cup {Absent}]
  BY <1>1, <1>2
<1> QED
  BY <1>2, <1>4, <1>5, <1>7, <1>8, WindowInRange DEF Deciding, UnderWay

-----------------------------------------------------------------------------
(***************************************************************************)
(* A decision frees the slot, touches at most the counter of the request   *)
(* and sets the hint of its key.                                           *)
(***************************************************************************)
CounterStep(s, d) ==
  \/ UNCHANGED counter
  \/ UnderWay(s) /\ d.phase = "incr" /\ Counted(d, Incremented(Counter(d)))
  \/ UnderWay(s) /\ d.phase = "expire"
       /\ Counted(d, [Counter(d) EXCEPT !.expires = now + CounterTtl])

Decision(s, d, h) ==
  /\ slot' = [slot EXCEPT ![s] = Idle]
  /\ CounterStep(s, d)
  /\ hint' = [hint EXCEPT ![d.key] = h]
  /\ UNCHANGED <<config, now, limiter>>

SlotRecords ==
  [phase : {"idle", "incr", "expire"}, replica : Replicas \cup {Absent},
   key : RateKeys \cup {Absent}, at : Nat, tries : Nat \cup {Absent}]

CounterRecords(limit) == [count : 0 .. limit + 1, expires : Nat \cup {Absent}]

HintRecords == [until : Nat, tries : Nat, by : Replicas \cup {"redis"}] \cup {Absent}

LEMMA DecidingTyped ==
  ASSUME GatewayTypeOK, NEW s, NEW d, Deciding(s, d)
  PROVE  /\ d.replica \in Replicas /\ d.key \in RateKeys /\ d.at \in Nat /\ d.at <= now
         /\ d.tries \in Nat \cup {Absent}
         /\ now \in Nat /\ now \in 0 .. MaxTime
         /\ WindowAt(d.at) \in Windows /\ WindowAt(d.at) \in Nat
         /\ WindowAt(now) \in Nat /\ WindowAt(now) \in Windows
         /\ WindowAt(d.at) <= WindowAt(now)
<1>1. /\ d.replica \in Replicas /\ d.key \in RateKeys /\ d.at \in Nat /\ d.at <= now
      /\ d.tries \in Nat \cup {Absent}
  BY DEF Deciding
<1>2. now \in Nat /\ now \in 0 .. MaxTime
  BY Bounds DEF GatewayTypeOK
<1>3. d.at \in 0 .. MaxTime
  BY <1>1, <1>2, Bounds
<1> QED
  BY <1>1, <1>2, <1>3, WindowInRange, WindowFacts, WindowMono

LEMMA FreedFacts ==
  ASSUME GatewayTypeOK, NEW s \in Slots, slot' = [slot EXCEPT ![s] = Idle]
  PROVE  /\ slot' \in [Slots -> SlotRecords]
         /\ \A x \in Slots : x # s => slot'[x] = slot[x] /\ (UnderWay(x)' <=> UnderWay(x))
         /\ ~UnderWay(s)'
         /\ \A k, w : Firsts(k, w)' = Firsts(k, w) \ {s}
<1>1. slot \in [Slots -> SlotRecords]
  BY DEF GatewayTypeOK, SlotRecords
<1>2. Idle \in SlotRecords /\ Idle.phase = "idle"
  BY DEF Idle, SlotRecords
<1>3. slot' \in [Slots -> SlotRecords] /\ slot'[s] = Idle /\ \A x \in Slots : x # s => slot'[x] = slot[x]
  BY <1>1, <1>2
<1>4. \A x \in Slots : x # s => (UnderWay(x)' <=> UnderWay(x))
  BY <1>3 DEF UnderWay
<1>5. ~UnderWay(s)'
  BY <1>2, <1>3 DEF UnderWay
<1>6. ASSUME NEW k, NEW w PROVE Firsts(k, w)' = Firsts(k, w) \ {s}
  <2>1. ASSUME NEW x \in Slots PROVE x \in Firsts(k, w)' <=> x \in Firsts(k, w) \ {s}
    <3>1. CASE x = s
      BY <3>1, <1>2, <1>3 DEF Firsts
    <3>2. CASE x # s
      BY <3>2, <1>3 DEF Firsts, WindowAt
    <3> QED
      BY <3>1, <3>2
  <2> QED
    BY <2>1 DEF Firsts
<1> QED
  BY <1>3, <1>4, <1>5, <1>6

LEMMA CounterTyped ==
  ASSUME GatewayTypeOK, NEW k \in RateKeys, NEW w \in Windows
  PROVE  /\ counter[<<k, w>>] \in CounterRecords(config.limit)
         /\ counter[<<k, w>>].count \in Nat /\ counter[<<k, w>>].count <= config.limit + 1
         /\ counter[<<k, w>>].expires \in Nat \cup {Absent}
<1>1. counter[<<k, w>>] \in CounterRecords(config.limit)
  BY DEF GatewayTypeOK, CounterRecords
<1> QED
  BY <1>1, LimitPositive DEF CounterRecords

LEMMA IncrementedFacts ==
  ASSUME GatewayTypeOK, NEW k \in RateKeys, NEW w \in Windows, NEW c, c = Incremented(counter[<<k, w>>])
  PROVE  /\ c \in CounterRecords(config.limit)
         /\ c.expires = counter[<<k, w>>].expires
         /\ c.count = IF counter[<<k, w>>].count > config.limit THEN counter[<<k, w>>].count
                      ELSE counter[<<k, w>>].count + 1
         /\ c.count >= 1 /\ c.count >= counter[<<k, w>>].count
         /\ c.count = 1 => counter[<<k, w>>].count = 0
<1> DEFINE b == counter[<<k, w>>]
<1>1. b \in CounterRecords(config.limit) /\ b.count \in Nat /\ b.count <= config.limit + 1
      /\ config.limit \in Nat /\ config.limit >= 1
  BY CounterTyped, LimitPositive
<1> HIDE DEF b
<1>2. c = [b EXCEPT !.count = IF b.count > config.limit THEN b.count ELSE b.count + 1]
  BY DEF Incremented, b
<1>3. c.count = (IF b.count > config.limit THEN b.count ELSE b.count + 1) /\ c.expires = b.expires
      /\ c \in CounterRecords(config.limit)
  BY <1>1, <1>2 DEF CounterRecords
<1> QED
  BY <1>1, <1>3 DEF b

LEMMA CounterStepFacts ==
  ASSUME GatewayTypeOK, NEW s \in Slots, NEW d, Deciding(s, d), CounterStep(s, d)
  PROVE  /\ counter' \in [RateKeys \X Windows -> CounterRecords(config.limit)]
         /\ \A k \in RateKeys, w \in Windows :
              /\ counter'[<<k, w>>].count >= counter[<<k, w>>].count
              /\ k # d.key \/ w # WindowAt(d.at) \/ ~UnderWay(s)
                   => counter'[<<k, w>>] = counter[<<k, w>>]
         /\ UnderWay(s) /\ d.phase = "incr" =>
              counter'[<<d.key, WindowAt(d.at)>>].expires = counter[<<d.key, WindowAt(d.at)>>].expires
         /\ UnderWay(s) /\ d.phase = "expire" =>
              /\ counter'[<<d.key, WindowAt(d.at)>>].count = counter[<<d.key, WindowAt(d.at)>>].count
              /\ \/ counter'[<<d.key, WindowAt(d.at)>>].expires = counter[<<d.key, WindowAt(d.at)>>].expires
                 \/ counter'[<<d.key, WindowAt(d.at)>>].expires = now + CounterTtl
<1> DEFINE i == <<d.key, WindowAt(d.at)>>
<1>0. i \in RateKeys \X Windows /\ d.key \in RateKeys /\ WindowAt(d.at) \in Windows /\ now \in Nat
  BY DecidingTyped
<1>1. counter \in [RateKeys \X Windows -> CounterRecords(config.limit)]
  BY DEF GatewayTypeOK, CounterRecords
<1>2. \A k \in RateKeys, w \in Windows : counter[<<k, w>>].count \in Nat
  BY CounterTyped
<1>3. CASE UNCHANGED counter
  BY <1>1, <1>2, <1>3, <1>0
<1>4. ASSUME NEW c \in CounterRecords(config.limit), c.count >= counter[i].count,
             counter' = [counter EXCEPT ![i] = c], UnderWay(s)
      PROVE  /\ counter' \in [RateKeys \X Windows -> CounterRecords(config.limit)]
             /\ \A k \in RateKeys, w \in Windows :
                  /\ counter'[<<k, w>>].count >= counter[<<k, w>>].count
                  /\ k # d.key \/ w # WindowAt(d.at) \/ ~UnderWay(s)
                       => counter'[<<k, w>>] = counter[<<k, w>>]
             /\ counter'[i] = c
  <2>1. /\ counter' \in [RateKeys \X Windows -> CounterRecords(config.limit)]
        /\ counter'[i] = c
        /\ \A x \in RateKeys \X Windows : x # i => counter'[x] = counter[x]
    <3> HIDE DEF i
    <3> QED
      BY <1>0, <1>1, <1>4
  <2>2. ASSUME NEW k \in RateKeys, NEW w \in Windows
        PROVE  /\ counter'[<<k, w>>].count >= counter[<<k, w>>].count
               /\ k # d.key \/ w # WindowAt(d.at) \/ ~UnderWay(s)
                    => counter'[<<k, w>>] = counter[<<k, w>>]
    <3>1. CASE <<k, w>> = i
      BY <3>1, <2>1, <1>4
    <3>2. CASE <<k, w>> # i
      <4>1. counter'[<<k, w>>] = counter[<<k, w>>]
        BY <3>2, <2>1
      <4> QED
        BY <4>1, <1>2
    <3> QED
      BY <3>1, <3>2
  <2> QED
    BY <2>1, <2>2
<1>5. CASE UnderWay(s) /\ d.phase = "incr" /\ Counted(d, Incremented(Counter(d)))
  <2> DEFINE c == Incremented(Counter(d))
  <2>1. c = Incremented(counter[<<d.key, WindowAt(d.at)>>]) /\ counter' = [counter EXCEPT ![i] = c]
    BY <1>5 DEF Counter, Counted
  <2> HIDE DEF c
  <2>2. c \in CounterRecords(config.limit) /\ c.expires = counter[i].expires /\ c.count >= counter[i].count
    BY <1>0, <2>1, IncrementedFacts
  <2> QED
    BY <1>4, <1>5, <2>1, <2>2
<1>6. CASE UnderWay(s) /\ d.phase = "expire"
             /\ Counted(d, [Counter(d) EXCEPT !.expires = now + CounterTtl])
  <2> DEFINE c == [counter[i] EXCEPT !.expires = now + CounterTtl]
  <2>1. counter' = [counter EXCEPT ![i] = c]
    BY <1>6 DEF Counter, Counted
  <2>2. counter[i] \in CounterRecords(config.limit) /\ counter[i].count \in Nat
    BY <1>0, CounterTyped
  <2>3. now + CounterTtl \in Nat
    BY <1>0, WindowPositive DEF CounterTtl
  <2>4. c \in CounterRecords(config.limit) /\ c.count = counter[i].count /\ c.expires = now + CounterTtl
    BY <2>2, <2>3 DEF CounterRecords
  <2> HIDE DEF c
  <2>5. c.count >= counter[i].count
    BY <2>2, <2>4
  <2>6. /\ counter' \in [RateKeys \X Windows -> CounterRecords(config.limit)]
        /\ \A k \in RateKeys, w \in Windows :
             /\ counter'[<<k, w>>].count >= counter[<<k, w>>].count
             /\ k # d.key \/ w # WindowAt(d.at) \/ ~UnderWay(s)
                  => counter'[<<k, w>>] = counter[<<k, w>>]
        /\ counter'[i] = c
    BY <1>4, <1>6, <2>1, <2>4, <2>5
  <2> QED
    BY <1>6, <2>4, <2>6
<1> QED
  BY <1>3, <1>5, <1>6 DEF CounterStep

LEMMA CounterStepAt ==
  ASSUME GatewayTypeOK, NEW s \in Slots, NEW d, Deciding(s, d), CounterStep(s, d),
         NEW k \in RateKeys, NEW w \in Windows
  PROVE  /\ counter'[<<k, w>>] \in CounterRecords(config.limit)
         /\ counter'[<<k, w>>].count \in Nat /\ counter[<<k, w>>].count \in Nat
         /\ counter'[<<k, w>>].count >= counter[<<k, w>>].count
         /\ k # d.key \/ w # WindowAt(d.at) \/ ~UnderWay(s)
              => counter'[<<k, w>>] = counter[<<k, w>>]
<1>1. /\ counter' \in [RateKeys \X Windows -> CounterRecords(config.limit)]
      /\ \A l \in RateKeys, v \in Windows :
           /\ counter'[<<l, v>>].count >= counter[<<l, v>>].count
           /\ l # d.key \/ v # WindowAt(d.at) \/ ~UnderWay(s)
                => counter'[<<l, v>>] = counter[<<l, v>>]
  BY CounterStepFacts
<1>2. /\ counter'[<<k, w>>] \in CounterRecords(config.limit)
      /\ counter'[<<k, w>>].count >= counter[<<k, w>>].count
      /\ k # d.key \/ w # WindowAt(d.at) \/ ~UnderWay(s)
           => counter'[<<k, w>>] = counter[<<k, w>>]
  BY <1>1
<1>3. counter'[<<k, w>>].count \in Nat
  BY <1>2, LimitPositive DEF CounterRecords
<1> QED
  BY <1>2, <1>3, CounterTyped

LEMMA DecisionCounters ==
  ASSUME GatewayTypeOK, CounterShape, NEW s \in Slots, NEW d, NEW h,
         Deciding(s, d), Decision(s, d, h)
  PROVE  CounterShape'
<1>0. now' = now /\ slot' = [slot EXCEPT ![s] = Idle] /\ CounterStep(s, d)
  BY DEF Decision
<1> SUFFICES ASSUME NEW k \in RateKeys, NEW w \in Windows
             PROVE  /\ counter'[<<k, w>>].expires # Absent =>
                         counter'[<<k, w>>].expires >= Start(w) + 2 * Window + 2
                    /\ counter'[<<k, w>>].count # 0 => w <= WindowAt(now)
                    /\ counter'[<<k, w>>].count = 0 => counter'[<<k, w>>].expires = Absent
                    /\ \A x \in Firsts(k, w)' : /\ counter'[<<k, w>>].count >= 1
                                                /\ counter'[<<k, w>>].expires = Absent
                                                /\ Firsts(k, w)' = {x}
  BY <1>0 DEF CounterShape, Start, WindowAt
<1>1. Firsts(k, w)' = Firsts(k, w) \ {s}
  BY <1>0, FreedFacts
<1>2. /\ counter[<<k, w>>].expires # Absent =>
           counter[<<k, w>>].expires >= Start(w) + 2 * Window + 2
      /\ counter[<<k, w>>].count # 0 => w <= WindowAt(now)
      /\ counter[<<k, w>>].count = 0 => counter[<<k, w>>].expires = Absent
      /\ \A x \in Firsts(k, w) : /\ counter[<<k, w>>].count >= 1
                                 /\ counter[<<k, w>>].expires = Absent
                                 /\ Firsts(k, w) = {x}
  BY DEF CounterShape
<1>3. \A x \in Firsts(k, w)' : /\ counter[<<k, w>>].count >= 1
                               /\ counter[<<k, w>>].expires = Absent
                               /\ Firsts(k, w)' = {x}
  BY <1>1, <1>2
<1>4. /\ counter'[<<k, w>>].count >= counter[<<k, w>>].count
      /\ counter'[<<k, w>>].count \in Nat /\ counter[<<k, w>>].count \in Nat
  BY <1>0, CounterStepAt
<1>5. CASE counter'[<<k, w>>] = counter[<<k, w>>]
  BY <1>2, <1>3, <1>5
<1>6. CASE k = d.key /\ w = WindowAt(d.at) /\ UnderWay(s)
  <2>1. w <= WindowAt(now) /\ slot[s] = d
    BY <1>6, DecidingTyped DEF Deciding
  <2>2. d.phase \in {"incr", "expire"}
    BY <1>6, <2>1 DEF UnderWay
  <2>3. CASE d.phase = "incr"
    <3>1. counter'[<<k, w>>].expires = counter[<<k, w>>].expires
      BY <1>0, <1>6, <2>3, CounterStepFacts
    <3>2. counter'[<<k, w>>].count = 0 => counter[<<k, w>>].count = 0
      BY <1>4
    <3>3. counter[<<k, w>>].count >= 1 => counter'[<<k, w>>].count >= 1
      BY <1>4
    <3> QED
      BY <1>2, <1>3, <2>1, <3>1, <3>2, <3>3
  <2>4. CASE d.phase = "expire"
    <3>1. s \in Firsts(k, w)
      BY <1>6, <2>1, <2>4 DEF Firsts
    <3>2. Firsts(k, w)' = {} /\ counter[<<k, w>>].count >= 1
      BY <1>1, <1>2, <3>1
    <3>3. counter'[<<k, w>>].count # 0
      BY <1>4, <3>2
    <3>4. \/ counter'[<<k, w>>].expires = counter[<<k, w>>].expires
          \/ counter'[<<k, w>>].expires = now + CounterTtl
      BY <1>0, <1>6, <2>4, CounterStepFacts
    <3>5. now + CounterTtl >= Start(w) + 2 * Window + 2
      <4>1. d.at \in Nat /\ d.at <= now /\ now \in Nat
        BY DecidingTyped
      <4>2. Start(w) <= d.at /\ Start(w) \in Nat
        BY <1>6, <4>1, WindowFacts
      <4> QED
        BY <4>1, <4>2, WindowPositive DEF CounterTtl
    <3> QED
      BY <1>2, <2>1, <3>2, <3>3, <3>4, <3>5
  <2> QED
    BY <2>2, <2>3, <2>4
<1>7. k # d.key \/ w # WindowAt(d.at) \/ ~UnderWay(s) => counter'[<<k, w>>] = counter[<<k, w>>]
  BY <1>0, CounterStepAt
<1> QED
  BY <1>5, <1>6, <1>7

LEMMA DecisionSlots ==
  ASSUME GatewayTypeOK, SlotShape, NEW s \in Slots, NEW d, NEW h, Decision(s, d, h)
  PROVE  SlotShape'
<1>1. now' = now /\ config' = config /\ slot' = [slot EXCEPT ![s] = Idle]
  BY DEF Decision
<1>2. \A x \in Slots : UnderWay(x)' => slot'[x] = slot[x] /\ UnderWay(x)
  BY <1>1, FreedFacts
<1> QED
  BY <1>1, <1>2 DEF SlotShape

LEMMA DecisionLone ==
  ASSUME GatewayTypeOK, SlotShape, LoneShape, NEW s \in Slots, NEW d, NEW h,
         Deciding(s, d), Decision(s, d, h), d.tries = Absent => h = Absent
  PROVE  LoneShape'
<1>0. slot' = [slot EXCEPT ![s] = Idle] /\ CounterStep(s, d) /\ hint' = [hint EXCEPT ![d.key] = h]
  BY DEF Decision
<1>1. \A x \in Slots : UnderWay(x)' => x # s /\ slot'[x] = slot[x] /\ UnderWay(x)
  BY <1>0, FreedFacts
<1> SUFFICES ASSUME NEW t \in Slots, UnderWay(t)', slot'[t].tries # Absent
             PROVE  /\ \A x \in Slots : UnderWay(x)' /\ slot'[x].key = slot'[t].key => x = t
                    /\ \A w \in Windows : w > WindowAt(slot'[t].at) => counter'[<<slot'[t].key, w>>].count = 0
                    /\ slot'[t].tries >= 1 /\ hint'[slot'[t].key] # Absent =>
                         /\ hint'[slot'[t].key].tries = slot'[t].tries
                         /\ hint'[slot'[t].key].until <= slot'[t].at
                         /\ hint'[slot'[t].key].by = "redis" /\ slot'[t].phase = "incr"
                              => counter'[<<slot'[t].key, WindowAt(slot'[t].at)>>].count = 0
  BY DEF LoneShape, WindowAt
<1> DEFINE k == slot[t].key
<1>2. t # s /\ slot'[t] = slot[t] /\ UnderWay(t) /\ slot[t].tries # Absent
  BY <1>1
<1>3. k \in RateKeys /\ WindowAt(slot[t].at) \in Windows
  BY <1>2, SlotDecided DEF SlotShape
<1>4. /\ \A x \in Slots : UnderWay(x) /\ slot[x].key = k => x = t
      /\ \A w \in Windows : w > WindowAt(slot[t].at) => counter[<<k, w>>].count = 0
      /\ slot[t].tries >= 1 /\ hint[k] # Absent =>
           /\ hint[k].tries = slot[t].tries
           /\ hint[k].until <= slot[t].at
           /\ hint[k].by = "redis" /\ slot[t].phase = "incr"
                => counter[<<k, WindowAt(slot[t].at)>>].count = 0
  BY <1>2 DEF LoneShape
<1>5. \A x \in Slots : UnderWay(x)' /\ slot'[x].key = k => x = t
  BY <1>1, <1>4
<1>6. \A w \in Windows : counter'[<<k, w>>] = counter[<<k, w>>]
  <2>1. k # d.key \/ ~UnderWay(s)
    BY <1>2, <1>4 DEF Deciding
  <2>2. ASSUME NEW w \in Windows PROVE counter'[<<k, w>>] = counter[<<k, w>>]
    <3> HIDE DEF k
    <3> QED
      BY <1>0, <1>3, <2>1, CounterStepAt
  <2> QED
    BY <2>2
<1>7. hint'[k] = hint[k] \/ hint'[k] = Absent
  <2>0. hint \in [RateKeys -> HintRecords]
    BY DEF GatewayTypeOK, HintRecords
  <2>1. CASE k # d.key
    BY <2>0, <2>1, <1>0, <1>3
  <2>2. CASE k = d.key
    <3>1. d.tries = Absent
      BY <1>2, <2>2 DEF Deciding
    <3> QED
      BY <2>0, <2>2, <3>1, <1>0, <1>3
  <2> QED
    BY <2>1, <2>2
<1> HIDE DEF k
<1>8. slot'[t].key = k
  BY <1>2 DEF k
<1> QED
  BY <1>2, <1>3, <1>4, <1>5, <1>6, <1>7, <1>8

LEMMA DecisionOtherHints ==
  ASSUME GatewayTypeOK, LogShape, SlotShape, HintShape, NEW s \in Slots, NEW d, NEW h,
         Deciding(s, d), Decision(s, d, h), NEW k \in RateKeys, k # d.key,
         \A r \in Replicas : log'[<<r, k>>] = log[<<r, k>>]
  PROVE  HintHolds(k)'
<1>0. /\ slot' = [slot EXCEPT ![s] = Idle] /\ CounterStep(s, d)
      /\ hint' = [hint EXCEPT ![d.key] = h] /\ now' = now /\ config' = config
  BY DEF Decision
<1>1. hint'[k] = hint[k]
  <2>1. hint \in [RateKeys -> HintRecords]
    BY DEF GatewayTypeOK, HintRecords
  <2> QED
    BY <2>1, <1>0
<1>2. \A w \in Windows : counter'[<<k, w>>] = counter[<<k, w>>]
  BY <1>0, CounterStepAt
<1>3. \A w : Firsts(k, w)' = Firsts(k, w)
  <2>1. \A w : s \notin Firsts(k, w)
    BY DEF Firsts, Deciding, UnderWay
  <2>2. \A w : Firsts(k, w)' = Firsts(k, w) \ {s}
    BY <1>0, FreedFacts
  <2> QED
    BY <2>1, <2>2
<1> SUFFICES ASSUME hint[k] # Absent
             PROVE HintHolds(k)'
  BY <1>1 DEF HintHolds
<1>4. hint[k].by # "redis" => Outlasting(k)' = Outlasting(k)
  BY <1>0, <1>1, HintTyped DEF Outlasting, Later
<1>5. HintHolds(k)
  BY DEF HintShape
<1> QED
  BY <1>0, <1>1, <1>2, <1>3, <1>4, <1>5 DEF HintHolds, WindowAt

\* A decision preserves the invariant when the check kept the log well formed
\* and what it told the client holds.
LEMMA DecisionKeeps ==
  ASSUME GatewayInv, NEW s \in Slots, NEW d, NEW h \in HintRecords,
         Deciding(s, d), Decision(s, d, h), d.tries = Absent => h = Absent,
         log' \in [Replicas \X RateKeys -> SUBSET ((0 .. MaxTime) \X Nat)], LogShape',
         \A r \in Replicas, k \in RateKeys : k # d.key => log'[<<r, k>>] = log[<<r, k>>],
         admitted' \in [RateKeys \X Windows -> Nat],
         h # Absent => HintHolds(d.key)'
  PROVE  GatewayInv'
<1>0. GatewayTypeOK /\ LogShape /\ LimiterShape /\ SlotShape /\ CounterShape /\ LoneShape /\ HintShape
  BY DEF GatewayInv
<1>1. /\ slot' = [slot EXCEPT ![s] = Idle] /\ CounterStep(s, d)
      /\ hint' = [hint EXCEPT ![d.key] = h] /\ UNCHANGED <<config, now, limiter>>
  BY DEF Decision
<1>2. hint' \in [RateKeys -> HintRecords] /\ hint'[d.key] = h
  <2>1. hint \in [RateKeys -> HintRecords] /\ d.key \in RateKeys
    BY <1>0, DecidingTyped DEF GatewayTypeOK, HintRecords
  <2> QED
    BY <2>1, <1>1
<1>3. GatewayTypeOK'
  <2>1. /\ slot' \in [Slots -> SlotRecords]
        /\ counter' \in [RateKeys \X Windows -> CounterRecords(config'.limit)]
    BY <1>0, <1>1, FreedFacts, CounterStepFacts
  <2>2. config' \in Configs /\ now' \in 0 .. MaxTime /\ limiter' \in [Replicas -> {"local", "redis"}]
    BY <1>0, <1>1 DEF GatewayTypeOK
  <2> QED
    BY <1>2, <2>1, <2>2 DEF GatewayTypeOK, SlotRecords, CounterRecords, HintRecords, RateKeys,
                            Windows, Identity
<1>4. LimiterShape'
  BY <1>0, <1>1 DEF LimiterShape, Startable
<1>5. SlotShape' /\ CounterShape' /\ LoneShape'
  BY <1>0, DecisionSlots, DecisionCounters, DecisionLone
<1>6. HintShape'
  <2> SUFFICES ASSUME NEW k \in RateKeys PROVE HintHolds(k)'
    BY DEF HintShape, RateKeys, Identity
  <2>1. CASE k = d.key
    BY <2>1, <1>2 DEF HintHolds
  <2>2. CASE k # d.key
    BY <2>2, <1>0, DecisionOtherHints
  <2> QED
    BY <2>1, <2>2
<1> QED
  BY <1>3, <1>4, <1>5, <1>6 DEF GatewayInv

-----------------------------------------------------------------------------
(***************************************************************************)
(* The local limiter.                                                      *)
(***************************************************************************)
LEMMA LogReplaced ==
  ASSUME GatewayTypeOK, LogShape, NEW r \in Replicas, NEW k \in RateKeys,
         NEW E \in SUBSET ((0 .. MaxTime) \X Nat), IsFiniteSet(E), Cardinality(E) <= config.limit,
         config.configured /\ config.required => E = {},
         \A e \in E : /\ e[1] <= now
                      /\ e[1] = now => e[2] <= Cardinality({x \in E : x[1] = now}),
         log' = [log EXCEPT ![<<r, k>>] = E], UNCHANGED <<config, now>>
  PROVE  /\ log' \in [Replicas \X RateKeys -> SUBSET ((0 .. MaxTime) \X Nat)]
         /\ LogShape' /\ log'[<<r, k>>] = E
         /\ \A q \in Replicas, l \in RateKeys : q # r \/ l # k => log'[<<q, l>>] = log[<<q, l>>]
<1>1. log \in [Replicas \X RateKeys -> SUBSET ((0 .. MaxTime) \X Nat)]
  BY DEF GatewayTypeOK
<1>2. /\ log' \in [Replicas \X RateKeys -> SUBSET ((0 .. MaxTime) \X Nat)]
      /\ log'[<<r, k>>] = E
  BY <1>1
<1>3. ASSUME NEW q \in Replicas, NEW l \in RateKeys, q # r \/ l # k
      PROVE  log'[<<q, l>>] = log[<<q, l>>]
  BY <1>1, <1>3
<1>4. LogShape'
  <2> SUFFICES ASSUME NEW q \in Replicas, NEW l \in RateKeys
               PROVE  /\ IsFiniteSet(log'[<<q, l>>]) /\ Cardinality(log'[<<q, l>>]) <= config.limit
                      /\ config.configured /\ config.required => log'[<<q, l>>] = {}
                      /\ \A e \in log'[<<q, l>>] :
                           /\ e[1] <= now
                           /\ e[1] = now => e[2] <= Cardinality({x \in log'[<<q, l>>] : x[1] = now})
    BY DEF LogShape, RateKeys, Identity
  <2>1. CASE q = r /\ l = k
    BY <2>1, <1>2
  <2>2. CASE q # r \/ l # k
    <3>1. log'[<<q, l>>] = log[<<q, l>>]
      BY <2>2, <1>3
    <3> QED
      BY <3>1 DEF LogShape
  <2> QED
    BY <2>1, <2>2
<1> QED
  BY <1>2, <1>3, <1>4

\* The announcement of a refusal.
Announced(d, by, retry) ==
  [until |-> now + 2 * retry, by |-> by,
   tries |-> 1 + IF hint[d.key] = Absent THEN 0
                 ELSE IF hint[d.key].by = by THEN d.tries ELSE 0]

LEMMA AnnouncedTyped ==
  ASSUME GatewayTypeOK, NEW s, NEW d, Deciding(s, d), d.tries # Absent,
         NEW by \in Replicas \cup {"redis"}, NEW retry \in Nat
  PROVE  /\ Announced(d, by, retry) \in HintRecords /\ Announced(d, by, retry) # Absent
         /\ Announced(d, by, retry).until = now + 2 * retry
         /\ Announced(d, by, retry).by = by
         /\ Announced(d, by, retry).tries = 1 + IF hint[d.key] = Absent THEN 0
                                                ELSE IF hint[d.key].by = by THEN d.tries ELSE 0
<1> DEFINE a == Announced(d, by, retry)
           n == 1 + IF hint[d.key] = Absent THEN 0
                    ELSE IF hint[d.key].by = by THEN d.tries ELSE 0
<1>1. d.tries \in Nat /\ now \in Nat
  BY DecidingTyped
<1>2. n \in Nat /\ now + 2 * retry \in Nat
  BY <1>1
<1>3. a = [until |-> now + 2 * retry, by |-> by, tries |-> n]
  BY DEF Announced
<1> HIDE DEF n, a
<1>4. a \in [until : Nat, tries : Nat, by : Replicas \cup {"redis"}]
  BY <1>2, <1>3
<1>5. a.until = now + 2 * retry /\ a.by = by /\ a.tries = n
  BY <1>3
<1> QED
  BY <1>4, <1>5, AbsentDistinct DEF HintRecords, a, n

LEMMA RefusedHint ==
  ASSUME GatewayTypeOK, NEW s, NEW d, NEW by, NEW retry,
         Refuse(s, d, by, retry), d.key \in RateKeys
  PROVE  hint' = [hint EXCEPT ![d.key] = IF d.tries = Absent THEN Absent
                                         ELSE Announced(d, by, retry)]
<1> DEFINE n(e) == IF e = Absent THEN 0 ELSE IF e.by = by THEN d.tries ELSE 0
           h == IF d.tries = Absent THEN Absent ELSE Announced(d, by, retry)
<1>1. hint' = [hint EXCEPT ![d.key] =
                 IF d.tries = Absent THEN Absent
                 ELSE [until |-> now + 2 * retry, by |-> by, tries |-> 1 + n(hint[d.key])]]
  BY DEF Refuse
<1> QED
  BY <1>1 DEF Announced

\* When a full log refuses, an entry leaves it within a half second of the wait
\* the client is told, and at the latest when a second such wait ends.
LEMMA LocalHint ==
  ASSUME GatewayInv, NEW s \in Slots, NEW d, Deciding(s, d), d.tries # Absent,
         Cardinality(Active(d.replica, d.key)) >= config.limit,
         log'[<<d.replica, d.key>>] = Active(d.replica, d.key),
         hint'[d.key] = Announced(d, d.replica, RetryAfter(d.replica, d.key)),
         UNCHANGED <<config, now>>
  PROVE  /\ Announced(d, d.replica, RetryAfter(d.replica, d.key)) \in HintRecords
         /\ HintHolds(d.key)'
<1> DEFINE r == d.replica
           k == d.key
           A == Active(r, k)
           a == Announced(d, r, RetryAfter(r, k))
<1>0. GatewayTypeOK /\ LogShape /\ HintShape
  BY DEF GatewayInv
<1>1. /\ r \in Replicas /\ k \in RateKeys /\ d.tries \in Nat /\ now \in Nat
      /\ config.limit \in Nat /\ config.limit >= 1
  BY <1>0, DecidingTyped, LimitPositive
<1>2. /\ A = {e \in log[<<r, k>>] : e[1] + 2 * Window > now}
      /\ IsFiniteSet(A) /\ Cardinality(A) \in Nat /\ Cardinality(A) <= config.limit
      /\ \A e \in A : e[1] \in Nat
  <2> HIDE DEF r, k
  <2> QED
    BY <1>0, <1>1, ActiveFacts, LogTyped
<1>3. A # {}
  BY <1>1, <1>2, FS_EmptySet
<1>4. /\ Rest(r, k) \in Nat /\ Rest(r, k) >= 1 /\ RetryAfter(r, k) \in Nat
      /\ Rest(r, k) <= 2 * RetryAfter(r, k) + 1
      /\ Rest(r, k) = 1 => RetryAfter(r, k) = 1
      /\ \E e \in A : e[1] + 2 * Window = now + Rest(r, k)
      /\ \A e \in A : now + Rest(r, k) <= e[1] + 2 * Window
  <2> HIDE DEF r, k
  <2> QED
    BY <1>0, <1>1, <1>3, LocalWait
<1>5. /\ a \in HintRecords /\ a # Absent /\ a.until = now + 2 * RetryAfter(r, k) /\ a.by = r
      /\ a.tries = 1 + IF hint[k] = Absent THEN 0 ELSE IF hint[k].by = r THEN d.tries ELSE 0
  BY <1>0, <1>1, <1>4, AnnouncedTyped
<1> HIDE DEF a
<1>6. Later(a.until, now) = a.until /\ a.until \in Nat
  BY <1>1, <1>4, <1>5 DEF Later
<1>7. \* some entry is not outlasting and the client had at most one wait before
      /\ a.tries \in 1 .. 2
      /\ \E e \in A : ~(e[1] + 2 * Window > a.until + 2 - a.tries)
  <2>1. CASE a.tries = 1
    <3>1. PICK e \in A : e[1] + 2 * Window = now + Rest(r, k)
      BY <1>4
    <3>2. ~(e[1] + 2 * Window > a.until + 2 - a.tries)
      BY <2>1, <3>1, <1>1, <1>4, <1>5
    <3> QED
      BY <2>1, <3>2
  <2>2. CASE a.tries # 1
    <3>1. hint[k] # Absent /\ hint[k].by = r /\ a.tries = 1 + d.tries /\ d.tries >= 1
      BY <2>2, <1>1, <1>5
    <3>2. hint[k].tries = d.tries /\ hint[k].until <= now /\ hint[k].until \in Nat
      <4> HIDE DEF k
      <4> QED
        BY <3>1, <1>0, <1>1, HintTyped DEF Deciding, k
    <3>3. Later(hint[k].until, now) = now
      BY <3>2, <1>1 DEF Later
    <3>4. hint[k].tries \in 1 .. 2 /\ Cardinality(Outlasting(k)) < config.limit
      <4>1. HintHolds(k) /\ r # "redis"
        BY <1>0, <1>1, ReplicasNamed DEF HintShape
      <4> QED
        BY <4>1, <3>1 DEF HintHolds
    <3>5. Outlasting(k) = {e \in log[<<r, k>>] : e[1] + 2 * Window > now + 2 - d.tries}
      BY <3>1, <3>2, <3>3 DEF Outlasting
    <3>6. d.tries # 2
      <4> SUFFICES ASSUME d.tries = 2 PROVE FALSE
        OBVIOUS
      <4>1. Outlasting(k) = A
        BY <3>5, <1>1, <1>2
      <4> QED
        BY <4>1, <3>4, <1>1, <1>2
    <3>7. d.tries = 1
      BY <3>2, <3>4, <3>6
    <3>8. PICK e \in A : ~(e[1] + 2 * Window > now + 1)
      <4> SUFFICES ASSUME \A e \in A : e[1] + 2 * Window > now + 1 PROVE FALSE
        OBVIOUS
      <4>1. Outlasting(k) = A
        <5>1. \A e \in log[<<r, k>>] : e[1] \in Nat
          BY <1>0, <1>1, LogTyped
        <5>2. now + 2 - d.tries = now + 1
          BY <3>7, <1>1
        <5> QED
          BY <3>5, <5>1, <5>2, <1>1, <1>2, WindowPositive
      <4> QED
        BY <4>1, <3>4, <1>1, <1>2
    <3>9. Rest(r, k) = 1
      <4>1. e[1] \in Nat /\ now + Rest(r, k) <= e[1] + 2 * Window
        BY <1>2, <1>4
      <4> QED
        BY <4>1, <3>8, <1>1, <1>4, WindowPositive
    <3>10. ~(e[1] + 2 * Window > a.until + 2 - a.tries)
      <4>1. a.until = now + 2 /\ a.tries = 2
        BY <3>1, <3>7, <3>9, <1>4, <1>5
      <4> QED
        BY <4>1, <3>8, <1>1, <1>2, WindowPositive
    <3> QED
      BY <3>1, <3>7, <3>10
  <2> QED
    BY <2>1, <2>2
<1>8. Cardinality({e \in A : e[1] + 2 * Window > a.until + 2 - a.tries}) < config.limit
  <2> DEFINE B == {e \in A : e[1] + 2 * Window > a.until + 2 - a.tries}
  <2>1. B \subseteq A /\ B # A
    BY <1>7
  <2> HIDE DEF B
  <2>2. Cardinality(B) < Cardinality(A) /\ Cardinality(B) \in Nat
    BY <2>1, <1>2, FS_Subset, FS_CardinalityType
  <2> QED
    BY <2>2, <1>1, <1>2 DEF B
<1>9. Outlasting(k)' = {e \in A : e[1] + 2 * Window > a.until + 2 - a.tries}
  <2>1. hint'[k] = a /\ log'[<<r, k>>] = A
    BY DEF a
  <2> QED
    BY <2>1, <1>5, <1>6 DEF Outlasting, Later
<1>10. HintHolds(k)'
  <2>1. hint'[k] = a /\ r # "redis"
    BY <1>1, ReplicasNamed DEF a
  <2> QED
    BY <2>1, <1>5, <1>7, <1>8, <1>9 DEF HintHolds
<1> QED
  BY <1>5, <1>10 DEF a

LEMMA AdmittedTyped ==
  ASSUME GatewayTypeOK, NEW k \in RateKeys, NEW w \in Windows,
         admitted' = [admitted EXCEPT ![<<k, w>>] = @ + 1]
  PROVE  /\ admitted' \in [RateKeys \X Windows -> Nat]
         /\ admitted'[<<k, w>>] = admitted[<<k, w>>] + 1
         /\ \A l \in RateKeys, v \in Windows : l # k \/ v # w => admitted'[<<l, v>>] = admitted[<<l, v>>]
<1> DEFINE i == <<k, w>>
<1>1. admitted \in [RateKeys \X Windows -> Nat] /\ i \in RateKeys \X Windows
  BY DEF GatewayTypeOK
<1>2. \A l \in RateKeys, v \in Windows : l # k \/ v # w => <<l, v>> # i /\ <<l, v>> \in RateKeys \X Windows
  OBVIOUS
<1> HIDE DEF i
<1>3. admitted[i] + 1 \in Nat
  BY <1>1
<1>4. admitted' = [admitted EXCEPT ![i] = admitted[i] + 1]
  BY DEF i
<1> QED
  BY <1>1, <1>2, <1>3, <1>4 DEF i

\* What a check of the local limiter does: it refuses and announces a wait, or
\* it admits the request in the window of now.
LocalRefusal(s, d) ==
  /\ Cardinality(Active(d.replica, d.key)) >= config.limit
  /\ log' = [log EXCEPT ![<<d.replica, d.key>>] = Active(d.replica, d.key)]
  /\ UNCHANGED admitted
  /\ Decision(s, d, IF d.tries = Absent THEN Absent
                    ELSE Announced(d, d.replica, RetryAfter(d.replica, d.key)))

LocalPass(s, d) ==
  /\ Cardinality(Active(d.replica, d.key)) < config.limit
  /\ ~(config.configured /\ config.required)
  /\ log' = [log EXCEPT ![<<d.replica, d.key>>] = Appended(Active(d.replica, d.key))]
  /\ admitted' = [admitted EXCEPT ![<<d.key, WindowAt(now)>>] = @ + 1]
  /\ Decision(s, d, Absent)

LEMMA LocalOutcomes ==
  ASSUME GatewayTypeOK, LogShape, NEW s \in Slots, NEW d, Deciding(s, d), CheckLocally(s, d),
         CounterStep(s, d), UNCHANGED <<config, now, limiter>>,
         ~(config.configured /\ config.required)
  PROVE  LocalRefusal(s, d) \/ LocalPass(s, d)
<1> DEFINE A == Active(d.replica, d.key)
<1>1. /\ d.replica \in Replicas /\ d.key \in RateKeys /\ now \in Nat
      /\ d \in [phase : {"idle", "incr", "expire"}, replica : Replicas, key : RateKeys,
                at : Nat, tries : Nat \cup {Absent}]
  BY DecidingTyped DEF Deciding
<1>2. Cardinality(A) \in Nat /\ config.limit \in Nat
  BY <1>1, ActiveFacts, LimitPositive
<1>3. CASE Cardinality(A) >= config.limit
  <2>1. /\ log' = [log EXCEPT ![<<d.replica, d.key>>] = A]
        /\ Refuse(s, d, d.replica, RetryAfter(d.replica, d.key))
    BY <1>3 DEF CheckLocally
  <2>2. hint' = [hint EXCEPT ![d.key] = IF d.tries = Absent THEN Absent
                                        ELSE Announced(d, d.replica, RetryAfter(d.replica, d.key))]
    BY <1>1, <2>1, RefusedHint
  <2>3. slot' = [slot EXCEPT ![s] = Idle] /\ UNCHANGED admitted
    BY <2>1 DEF Refuse
  <2> QED
    BY <1>3, <2>1, <2>2, <2>3 DEF LocalRefusal, Decision
<1>4. CASE ~(Cardinality(A) >= config.limit)
  <2> DEFINE b == [d EXCEPT !.at = now]
  <2>1. b.key = d.key /\ b.at = now
    BY <1>1
  <2>2. log' = [log EXCEPT ![<<d.replica, d.key>>] = Appended(A)] /\ Pass(s, b)
    BY <1>4 DEF CheckLocally
  <2> HIDE DEF b
  <2>3. /\ slot' = [slot EXCEPT ![s] = Idle] /\ hint' = [hint EXCEPT ![d.key] = Absent]
        /\ admitted' = [admitted EXCEPT ![<<d.key, WindowAt(now)>>] = @ + 1]
    BY <2>1, <2>2 DEF Pass
  <2>4. Cardinality(A) < config.limit
    BY <1>2, <1>4
  <2> QED
    BY <2>2, <2>3, <2>4 DEF LocalPass, Decision
<1> QED
  BY <1>3, <1>4

LEMMA RefusalLog ==
  ASSUME GatewayTypeOK, LogShape, NEW s \in Slots, NEW d, Deciding(s, d), LocalRefusal(s, d)
  PROVE  /\ log' \in [Replicas \X RateKeys -> SUBSET ((0 .. MaxTime) \X Nat)]
         /\ LogShape' /\ log'[<<d.replica, d.key>>] = Active(d.replica, d.key)
         /\ \A q \in Replicas, l \in RateKeys :
              q # d.replica \/ l # d.key => log'[<<q, l>>] = log[<<q, l>>]
<1> DEFINE r == d.replica
           k == d.key
           A == Active(r, k)
<1>0. r \in Replicas /\ k \in RateKeys /\ UNCHANGED <<config, now>>
  BY DecidingTyped DEF LocalRefusal, Decision
<1>1. log' = [log EXCEPT ![<<r, k>>] = A]
  BY DEF LocalRefusal
<1> HIDE DEF r, k
<1>2. /\ A \subseteq log[<<r, k>>] /\ IsFiniteSet(A) /\ Cardinality(A) <= config.limit
      /\ {e \in A : e[1] = now} = {e \in log[<<r, k>>] : e[1] = now}
  BY <1>0, ActiveFacts
<1>3. A \in SUBSET ((0 .. MaxTime) \X Nat)
  BY <1>0, <1>2, LogTyped
<1>4. config.configured /\ config.required => A = {}
  BY <1>0, <1>2 DEF LogShape
<1>5. \A e \in A : /\ e[1] <= now
                   /\ e[1] = now => e[2] <= Cardinality({x \in A : x[1] = now})
  BY <1>0, <1>2 DEF LogShape
<1> HIDE DEF A
<1>6. /\ log' \in [Replicas \X RateKeys -> SUBSET ((0 .. MaxTime) \X Nat)]
      /\ LogShape' /\ log'[<<r, k>>] = A
      /\ \A q \in Replicas, l \in RateKeys : q # r \/ l # k => log'[<<q, l>>] = log[<<q, l>>]
  BY <1>0, <1>1, <1>2, <1>3, <1>4, <1>5, LogReplaced
<1> QED
  BY <1>6 DEF A, r, k

LEMMA PassLog ==
  ASSUME GatewayTypeOK, LogShape, NEW s \in Slots, NEW d, Deciding(s, d), LocalPass(s, d)
  PROVE  /\ log' \in [Replicas \X RateKeys -> SUBSET ((0 .. MaxTime) \X Nat)]
         /\ LogShape' /\ log'[<<d.replica, d.key>>] = Appended(Active(d.replica, d.key))
         /\ \A q \in Replicas, l \in RateKeys :
              q # d.replica \/ l # d.key => log'[<<q, l>>] = log[<<q, l>>]
<1> DEFINE r == d.replica
           k == d.key
           A == Active(r, k)
           E == Appended(A)
<1>0. r \in Replicas /\ k \in RateKeys /\ UNCHANGED <<config, now>>
  BY DecidingTyped DEF LocalPass, Decision
<1>1. log' = [log EXCEPT ![<<r, k>>] = E] /\ Cardinality(A) < config.limit
      /\ ~(config.configured /\ config.required)
  BY DEF LocalPass
<1> HIDE DEF r, k
<1>2. Cardinality(A) \in Nat /\ config.limit \in Nat
  BY <1>0, ActiveFacts, LimitPositive
<1>3. /\ E \in SUBSET ((0 .. MaxTime) \X Nat) /\ IsFiniteSet(E)
      /\ Cardinality(E) = Cardinality(A) + 1
      /\ \A e \in E : /\ e[1] <= now
                      /\ e[1] = now => e[2] <= Cardinality({x \in E : x[1] = now})
  BY <1>0, AppendedFacts
<1>4. Cardinality(E) <= config.limit
  BY <1>1, <1>2, <1>3
<1> HIDE DEF A, E
<1>5. /\ log' \in [Replicas \X RateKeys -> SUBSET ((0 .. MaxTime) \X Nat)]
      /\ LogShape' /\ log'[<<r, k>>] = E
      /\ \A q \in Replicas, l \in RateKeys : q # r \/ l # k => log'[<<q, l>>] = log[<<q, l>>]
  BY <1>0, <1>1, <1>3, <1>4, LogReplaced
<1> QED
  BY <1>5 DEF A, E, r, k

LEMMA LocalKeeps ==
  ASSUME GatewayInv, NEW s \in Slots, NEW d, Deciding(s, d),
         LocalRefusal(s, d) \/ LocalPass(s, d)
  PROVE  GatewayInv'
<1>0. GatewayTypeOK /\ LogShape
  BY DEF GatewayInv
<1>1. d.replica \in Replicas /\ d.key \in RateKeys /\ WindowAt(now) \in Windows
  BY <1>0, DecidingTyped
<1>2. hint \in [RateKeys -> HintRecords] /\ Absent \in HintRecords
      /\ admitted \in [RateKeys \X Windows -> Nat]
  BY <1>0 DEF GatewayTypeOK, HintRecords
<1>3. CASE LocalRefusal(s, d)
  <2> DEFINE a == Announced(d, d.replica, RetryAfter(d.replica, d.key))
             h == IF d.tries = Absent THEN Absent ELSE a
  <2>1. /\ Decision(s, d, h) /\ UNCHANGED admitted
        /\ Cardinality(Active(d.replica, d.key)) >= config.limit
    BY <1>3 DEF LocalRefusal
  <2>2. hint' = [hint EXCEPT ![d.key] = h] /\ UNCHANGED <<config, now>>
    BY <2>1 DEF Decision
  <2>3. hint'[d.key] = h
    BY <1>1, <1>2, <2>2
  <2>4. /\ log' \in [Replicas \X RateKeys -> SUBSET ((0 .. MaxTime) \X Nat)]
        /\ LogShape' /\ log'[<<d.replica, d.key>>] = Active(d.replica, d.key)
        /\ \A q \in Replicas, l \in RateKeys :
             q # d.replica \/ l # d.key => log'[<<q, l>>] = log[<<q, l>>]
    BY <1>0, <1>3, RefusalLog
  <2>5. d.tries # Absent => a \in HintRecords /\ HintHolds(d.key)'
    <3> SUFFICES ASSUME d.tries # Absent PROVE a \in HintRecords /\ HintHolds(d.key)'
      OBVIOUS
    <3>1. hint'[d.key] = a
      BY <2>3
    <3> QED
      BY <3>1, <2>1, <2>2, <2>4, LocalHint
  <2>6. h \in HintRecords /\ (d.tries = Absent => h = Absent) /\ (h # Absent => HintHolds(d.key)')
    BY <1>2, <2>5
  <2>7. admitted' \in [RateKeys \X Windows -> Nat]
    BY <1>2, <2>1
  <2> HIDE DEF h, a
  <2> QED
    BY <2>1, <2>4, <2>6, <2>7, DecisionKeeps
<1>4. CASE LocalPass(s, d)
  <2>1. /\ Decision(s, d, Absent)
        /\ admitted' = [admitted EXCEPT ![<<d.key, WindowAt(now)>>] = @ + 1]
    BY <1>4 DEF LocalPass
  <2>2. /\ log' \in [Replicas \X RateKeys -> SUBSET ((0 .. MaxTime) \X Nat)] /\ LogShape'
        /\ \A q \in Replicas, l \in RateKeys :
             q # d.replica \/ l # d.key => log'[<<q, l>>] = log[<<q, l>>]
    BY <1>0, <1>4, PassLog
  <2>3. admitted' \in [RateKeys \X Windows -> Nat]
    BY <1>0, <1>1, <2>1, AdmittedTyped
  <2> QED
    BY <1>2, <2>1, <2>2, <2>3, DecisionKeeps
<1> QED
  BY <1>3, <1>4

-----------------------------------------------------------------------------
(***************************************************************************)
(* The actions.                                                            *)
(***************************************************************************)
LEMMA ArriveLocalOutcomes ==
  ASSUME GatewayInv, NEW s \in Slots, NEW r \in Replicas, NEW call \in Calls, ArriveLocal(s, r, call)
  PROVE  \E d : Deciding(s, d) /\ (LocalRefusal(s, d) \/ LocalPass(s, d)) /\ UNCHANGED counter
                /\ ~UnderWay(s)
<1> DEFINE d == Incoming(s, r, call)
<1>1. /\ ~UnderWay(s) /\ limiter[r] = "local" /\ ~Denied(call) /\ CheckLocally(s, d)
      /\ UNCHANGED <<config, now, limiter, counter>>
  BY DEF ArriveLocal
<1>2. GatewayTypeOK /\ LogShape /\ LimiterShape
  BY DEF GatewayInv
<1>3. ~(config.configured /\ config.required)
  BY <1>1, <1>2 DEF LimiterShape, Startable
<1>4. Deciding(s, d)
  BY <1>1, <1>2, IncomingDecided
<1>5. CounterStep(s, d)
  BY <1>1 DEF CounterStep
<1> HIDE DEF d
<1> QED
  BY <1>1, <1>2, <1>3, <1>4, <1>5, LocalOutcomes

LEMMA ArriveLocalKeeps ==
  ASSUME GatewayInv, NEW s \in Slots, NEW r \in Replicas, NEW call \in Calls, ArriveLocal(s, r, call)
  PROVE  GatewayInv'
BY ArriveLocalOutcomes, LocalKeeps

LEMMA LogSame ==
  ASSUME GatewayTypeOK, LogShape, UNCHANGED <<config, now, log>>
  PROVE  /\ log' \in [Replicas \X RateKeys -> SUBSET ((0 .. MaxTime) \X Nat)] /\ LogShape'
         /\ \A r \in Replicas, k \in RateKeys : log'[<<r, k>>] = log[<<r, k>>]
BY DEF GatewayTypeOK, LogShape, RateKeys, Identity

\* A failed call to Redis is answered by the local limiter, or by 503.
Unavailable(s, d) == Decision(s, d, Absent) /\ UNCHANGED <<log, admitted>>

LEMMA RedisFailsOutcomes ==
  ASSUME GatewayInv, NEW s \in Slots, RedisFails(s)
  PROVE  /\ Deciding(s, slot[s]) /\ UnderWay(s)
         /\ LocalRefusal(s, slot[s]) \/ LocalPass(s, slot[s]) \/ Unavailable(s, slot[s])
<1> DEFINE d == slot[s]
<1>1. /\ UnderWay(s) /\ UNCHANGED <<config, now, limiter>>
      /\ \/ UNCHANGED counter
         \/ d.phase = "incr" /\ Counted(d, Incremented(Counter(d)))
         \/ d.phase = "expire" /\ Counted(d, [Counter(d) EXCEPT !.expires = now + CounterTtl])
      /\ IF FallbackAllowed THEN CheckLocally(s, d)
         ELSE /\ slot' = [slot EXCEPT ![s] = Idle]
              /\ hint' = [hint EXCEPT ![d.key] = Absent]
              /\ UNCHANGED <<log, admitted>>
  BY DEF RedisFails
<1>2. GatewayTypeOK /\ LogShape /\ SlotShape /\ LoneShape
  BY DEF GatewayInv
<1>3. Deciding(s, d)
  BY <1>1, <1>2, SlotDecided
<1>4. CounterStep(s, d)
  BY <1>1 DEF CounterStep
<1> HIDE DEF d
<1>5. CASE FallbackAllowed
  <2>1. ~(config.configured /\ config.required)
    BY <1>5 DEF FallbackAllowed
  <2>2. LocalRefusal(s, d) \/ LocalPass(s, d)
    BY <1>1, <1>2, <1>3, <1>4, <1>5, <2>1, LocalOutcomes
  <2> QED
    BY <1>1, <1>3, <2>2 DEF d
<1>6. CASE ~FallbackAllowed
  <2>1. Unavailable(s, d)
    BY <1>1, <1>4, <1>6 DEF Unavailable, Decision
  <2> QED
    BY <1>1, <1>3, <2>1 DEF d
<1> QED
  BY <1>5, <1>6

LEMMA RedisFailsKeeps ==
  ASSUME GatewayInv, NEW s \in Slots, RedisFails(s)
  PROVE  GatewayInv'
<1> DEFINE d == slot[s]
<1>1. Deciding(s, d)
  BY RedisFailsOutcomes
<1>2. CASE LocalRefusal(s, d) \/ LocalPass(s, d)
  <2> HIDE DEF d
  <2> QED
    BY <1>1, <1>2, LocalKeeps
<1>3. CASE Unavailable(s, d)
  <2>1. Decision(s, d, Absent) /\ UNCHANGED <<log, admitted, config, now>>
    BY <1>3 DEF Unavailable, Decision
  <2>2. GatewayTypeOK /\ LogShape
    BY DEF GatewayInv
  <2>3. admitted' \in [RateKeys \X Windows -> Nat] /\ Absent \in HintRecords
    BY <2>1, <2>2 DEF GatewayTypeOK, HintRecords
  <2> HIDE DEF d
  <2> QED
    BY <1>1, <2>1, <2>2, <2>3, LogSame, DecisionKeeps
<1> QED
  BY <1>2, <1>3, RedisFailsOutcomes

\* The shared limiter admits a request in the window in which it arrived.
SharedPass(s, d) ==
  /\ Decision(s, d, Absent)
  /\ admitted' = [admitted EXCEPT ![<<d.key, WindowAt(d.at)>>] = @ + 1]
  /\ UNCHANGED log

SharedRefusal(s, d) ==
  /\ d.phase = "incr"
  /\ counter' = [counter EXCEPT ![<<d.key, WindowAt(d.at)>>] = Incremented(Counter(d))]
  /\ Incremented(Counter(d)).count > config.limit
  /\ Decision(s, d, IF d.tries = Absent THEN Absent ELSE Announced(d, "redis", SharedRetryAfter(d)))
  /\ UNCHANGED <<log, admitted>>

FirstOfWindow(s, d) ==
  /\ d.phase = "incr"
  /\ counter' = [counter EXCEPT ![<<d.key, WindowAt(d.at)>>] = Incremented(Counter(d))]
  /\ Incremented(Counter(d)).count = 1
  /\ slot' = [slot EXCEPT ![s].phase = "expire"]
  /\ UNCHANGED <<config, now, limiter, log, admitted, hint>>

LEMMA IncrOutcomes ==
  ASSUME GatewayInv, NEW s \in Slots, Incr(s)
  PROVE  /\ Deciding(s, slot[s]) /\ UnderWay(s) /\ slot[s].phase = "incr"
         /\ \/ FirstOfWindow(s, slot[s])
            \/ /\ SharedPass(s, slot[s]) /\ Incremented(Counter(slot[s])).count <= config.limit
               /\ Counted(slot[s], Incremented(Counter(slot[s])))
            \/ SharedRefusal(s, slot[s])
<1> DEFINE d == slot[s]
           c == Incremented(Counter(d))
<1>1. /\ d.phase = "incr" /\ Counted(d, c) /\ UNCHANGED <<config, now, limiter, log>>
      /\ IF c.count = 1 THEN /\ slot' = [slot EXCEPT ![s].phase = "expire"]
                             /\ UNCHANGED <<admitted, hint>>
         ELSE IF c.count <= config.limit THEN Pass(s, d)
         ELSE Refuse(s, d, "redis", SharedRetryAfter(d))
  BY DEF Incr
<1>2. UnderWay(s)
  BY <1>1 DEF UnderWay
<1>3. GatewayTypeOK /\ LogShape /\ SlotShape /\ LoneShape
  BY DEF GatewayInv
<1>4. Deciding(s, d) /\ d.key \in RateKeys /\ WindowAt(d.at) \in Windows
  BY <1>2, <1>3, SlotDecided, DecidingTyped
<1>5. CounterStep(s, d) /\ counter' = [counter EXCEPT ![<<d.key, WindowAt(d.at)>>] = c]
  BY <1>1, <1>2 DEF CounterStep, Counted
<1>6. c.count \in Nat /\ config.limit \in Nat
  <2> HIDE DEF d
  <2>1. c = Incremented(counter[<<d.key, WindowAt(d.at)>>])
    BY DEF Counter
  <2>2. c \in CounterRecords(config.limit)
    BY <1>3, <1>4, <2>1, IncrementedFacts
  <2> QED
    BY <2>2, <1>3, LimitPositive DEF CounterRecords
<1>7. CASE c.count = 1
  BY <1>1, <1>2, <1>4, <1>5, <1>7 DEF FirstOfWindow
<1>8. CASE c.count # 1 /\ c.count <= config.limit
  <2>1. Pass(s, d)
    BY <1>1, <1>8
  <2>2. SharedPass(s, d)
    BY <1>1, <1>5, <2>1 DEF SharedPass, Decision, Pass
  <2> QED
    BY <1>1, <1>2, <1>4, <1>8, <2>2
<1>9. CASE c.count # 1 /\ ~(c.count <= config.limit)
  <2>1. Refuse(s, d, "redis", SharedRetryAfter(d))
    BY <1>1, <1>9
  <2>2. hint' = [hint EXCEPT ![d.key] = IF d.tries = Absent THEN Absent
                                        ELSE Announced(d, "redis", SharedRetryAfter(d))]
    BY <1>3, <1>4, <2>1, RefusedHint
  <2>3. c.count > config.limit
    BY <1>6, <1>9
  <2>4. slot' = [slot EXCEPT ![s] = Idle] /\ UNCHANGED admitted
    BY <2>1 DEF Refuse
  <2>5. SharedRefusal(s, d)
    BY <1>1, <1>5, <2>2, <2>3, <2>4 DEF SharedRefusal, Decision
  <2> QED
    BY <1>1, <1>2, <1>4, <2>5
<1> QED
  BY <1>7, <1>8, <1>9

LEMMA SharedPassKeeps ==
  ASSUME GatewayInv, NEW s \in Slots, NEW d, Deciding(s, d), SharedPass(s, d)
  PROVE  GatewayInv'
<1>1. /\ Decision(s, d, Absent) /\ UNCHANGED <<log, config, now>>
      /\ admitted' = [admitted EXCEPT ![<<d.key, WindowAt(d.at)>>] = @ + 1]
  BY DEF SharedPass, Decision
<1>2. GatewayTypeOK /\ LogShape
  BY DEF GatewayInv
<1>3. admitted' \in [RateKeys \X Windows -> Nat] /\ Absent \in HintRecords
  BY <1>1, <1>2, DecidingTyped, AdmittedTyped DEF HintRecords
<1> QED
  BY <1>1, <1>2, <1>3, LogSame, DecisionKeeps

\* The wait a lone client is told by the shared limiter ends in a window that
\* nobody has been counted in.
LEMMA SharedRefusalKeeps ==
  ASSUME GatewayInv, NEW s \in Slots, NEW d, Deciding(s, d), UnderWay(s), SharedRefusal(s, d)
  PROVE  GatewayInv'
<1> DEFINE k == d.key
           a == Announced(d, "redis", SharedRetryAfter(d))
           h == IF d.tries = Absent THEN Absent ELSE a
           i == <<k, WindowAt(d.at)>>
<1>0. GatewayTypeOK /\ LogShape /\ LoneShape
  BY DEF GatewayInv
<1>1. /\ Decision(s, d, h) /\ UNCHANGED <<log, config, now, admitted>>
      /\ hint' = [hint EXCEPT ![k] = h] /\ CounterStep(s, d)
      /\ Incremented(Counter(d)).count > config.limit /\ d.phase = "incr"
  BY DEF SharedRefusal, Decision
<1>2. /\ k \in RateKeys /\ WindowAt(d.at) \in Windows /\ now \in Nat /\ d.at \in Nat /\ d.at <= now
      /\ d.tries \in Nat \cup {Absent} /\ slot[s] = d
      /\ WindowAt(d.at) \in Nat
  BY <1>0, DecidingTyped DEF Deciding
<1>3. /\ SharedRetryAfter(d) \in Nat
      /\ \A u \in Nat : u >= d.at + 2 * SharedRetryAfter(d) => WindowAt(u) > WindowAt(d.at)
  BY <1>2, SharedWait
<1>4. hint'[k] = h
  BY <1>0, <1>1, <1>2 DEF GatewayTypeOK
<1>5. ASSUME d.tries # Absent
      PROVE  a \in HintRecords /\ HintHolds(k)'
  <2>1. /\ a \in HintRecords /\ a # Absent /\ a.until = now + 2 * SharedRetryAfter(d) /\ a.by = "redis"
        /\ a.tries = 1 + IF hint[k] = Absent THEN 0 ELSE IF hint[k].by = "redis" THEN d.tries ELSE 0
    <3> DEFINE q == SharedRetryAfter(d)
               g == Announced(d, "redis", q)
    <3>1. q \in Nat /\ "redis" \in Replicas \cup {"redis"} /\ Deciding(s, d)
      BY <1>3
    <3> HIDE DEF q
    <3>2. /\ g \in HintRecords /\ g # Absent /\ g.until = now + 2 * q /\ g.by = "redis"
          /\ g.tries = 1 + IF hint[d.key] = Absent THEN 0
                           ELSE IF hint[d.key].by = "redis" THEN d.tries ELSE 0
      BY <1>0, <1>5, <3>1, AnnouncedTyped
    <3> HIDE DEF g
    <3>3. a = g /\ k = d.key /\ q = SharedRetryAfter(d)
      BY DEF g, q
    <3> HIDE DEF a, k
    <3> QED
      BY <3>2, <3>3
  <2>2. /\ \A w \in Windows : w > WindowAt(d.at) => counter[<<k, w>>].count = 0
        /\ d.tries >= 1 /\ hint[k] # Absent /\ hint[k].by = "redis" => counter[i].count = 0
    BY <1>0, <1>1, <1>2, <1>5 DEF LoneShape
  <2>3. a.tries = 1
    <3>1. counter[i].count # 0
      <4> SUFFICES ASSUME counter[i].count = 0 PROVE FALSE
        OBVIOUS
      <4>1. Incremented(Counter(d)).count = 1
        <5>1. Incremented(Counter(d)) = Incremented(counter[<<d.key, WindowAt(d.at)>>])
          BY DEF Counter
        <5>2. Incremented(Counter(d)).count =
                 IF counter[i].count > config.limit THEN counter[i].count ELSE counter[i].count + 1
          BY <1>0, <1>2, <5>1, IncrementedFacts
        <5> QED
          BY <5>2, <1>0, LimitPositive
      <4> QED
        BY <4>1, <1>0, <1>1, LimitPositive
    <3>2. d.tries >= 1 /\ hint[k] # Absent => hint[k].by # "redis"
      BY <2>2, <3>1
    <3> QED
      BY <2>1, <3>2, <1>2, <1>5
  <2>4. ASSUME NEW w \in Windows, w >= WindowAt(a.until)
        PROVE  counter'[<<k, w>>].count = 0
    <3>1. a.until \in Nat /\ a.until >= d.at + 2 * SharedRetryAfter(d)
      BY <2>1, <1>2, <1>3
    <3>2. WindowAt(a.until) > WindowAt(d.at) /\ WindowAt(a.until) \in Nat /\ w \in Nat
      BY <3>1, <1>3, WindowFacts, WindowsNat
    <3>3. w > WindowAt(d.at)
      BY <3>2, <2>4, <1>2
    <3>4. counter'[<<k, w>>] = counter[<<k, w>>]
      BY <3>3, <1>0, <1>1, <1>2, CounterStepAt
    <3> QED
      BY <2>2, <3>3, <3>4
  <2>5. hint'[k] = a
    BY <1>4, <1>5
  <2> HIDE DEF a
  <2>6. HintHolds(k)'
    BY <2>1, <2>3, <2>4, <2>5 DEF HintHolds, WindowAt
  <2> QED
    BY <2>1, <2>6
<1>6. h \in HintRecords /\ (d.tries = Absent => h = Absent) /\ (h # Absent => HintHolds(k)')
  BY <1>5 DEF HintRecords
<1>7. admitted' \in [RateKeys \X Windows -> Nat]
  BY <1>0, <1>1 DEF GatewayTypeOK
<1> HIDE DEF h, a
<1> QED
  BY <1>0, <1>1, <1>6, <1>7, LogSame, DecisionKeeps

LEMMA FirstSlots ==
  ASSUME GatewayTypeOK, NEW s \in Slots, slot[s].phase = "incr",
         slot' = [slot EXCEPT ![s].phase = "expire"]
  PROVE  /\ slot' \in [Slots -> SlotRecords]
         /\ \A x \in Slots : /\ x # s => slot'[x] = slot[x]
                             /\ UnderWay(x)' <=> UnderWay(x)
                             /\ slot'[x].key = slot[x].key /\ slot'[x].at = slot[x].at
                             /\ slot'[x].tries = slot[x].tries /\ slot'[x].replica = slot[x].replica
         /\ slot'[s].phase = "expire"
         /\ \A k, w : Firsts(k, w)' = IF k = slot[s].key /\ w = WindowAt(slot[s].at)
                                      THEN Firsts(k, w) \cup {s} ELSE Firsts(k, w)
<1>1. slot \in [Slots -> SlotRecords]
  BY DEF GatewayTypeOK, SlotRecords
<1>2. /\ slot' \in [Slots -> SlotRecords]
      /\ \A x \in Slots : x # s => slot'[x] = slot[x]
      /\ slot'[s] = [slot[s] EXCEPT !.phase = "expire"]
  BY <1>1 DEF SlotRecords
<1>3. slot[s] \in SlotRecords
  BY <1>1
<1>4. /\ slot'[s].phase = "expire" /\ slot'[s].key = slot[s].key /\ slot'[s].at = slot[s].at
      /\ slot'[s].tries = slot[s].tries /\ slot'[s].replica = slot[s].replica
  BY <1>2, <1>3 DEF SlotRecords
<1>5. ASSUME NEW x \in Slots
      PROVE  /\ UnderWay(x)' <=> UnderWay(x)
             /\ slot'[x].key = slot[x].key /\ slot'[x].at = slot[x].at
             /\ slot'[x].tries = slot[x].tries /\ slot'[x].replica = slot[x].replica
  <2>1. CASE x = s
    BY <2>1, <1>4 DEF UnderWay
  <2>2. CASE x # s
    BY <2>2, <1>2 DEF UnderWay
  <2> QED
    BY <2>1, <2>2
<1>6. ASSUME NEW k, NEW w
      PROVE  Firsts(k, w)' = IF k = slot[s].key /\ w = WindowAt(slot[s].at)
                             THEN Firsts(k, w) \cup {s} ELSE Firsts(k, w)
  <2>1. ASSUME NEW x \in Slots
        PROVE  x \in Firsts(k, w)' <=>
                 x \in Firsts(k, w) \/ (x = s /\ k = slot[s].key /\ w = WindowAt(slot[s].at))
    <3>1. CASE x = s
      BY <3>1, <1>4 DEF Firsts, WindowAt
    <3>2. CASE x # s
      BY <3>2, <1>2 DEF Firsts, WindowAt
    <3> QED
      BY <3>1, <3>2
  <2> QED
    BY <2>1 DEF Firsts
<1> QED
  BY <1>2, <1>4, <1>5, <1>6

LEMMA FirstKeeps ==
  ASSUME GatewayInv, NEW s \in Slots, NEW d, Deciding(s, d), UnderWay(s), FirstOfWindow(s, d)
  PROVE  GatewayInv'
<1> DEFINE i == <<d.key, WindowAt(d.at)>>
           c == Incremented(Counter(d))
<1>0. GatewayTypeOK /\ LogShape /\ LimiterShape /\ SlotShape /\ CounterShape /\ LoneShape /\ HintShape
  BY DEF GatewayInv
<1>1. /\ d.phase = "incr" /\ counter' = [counter EXCEPT ![i] = c] /\ c.count = 1
      /\ slot' = [slot EXCEPT ![s].phase = "expire"]
      /\ UNCHANGED <<config, now, limiter, log, admitted, hint>>
  BY DEF FirstOfWindow
<1>2. /\ slot[s] = d /\ d.key \in RateKeys /\ WindowAt(d.at) \in Windows
      /\ WindowAt(d.at) <= WindowAt(now)
  BY <1>0, DecidingTyped DEF Deciding
<1>3. CounterStep(s, d)
  BY <1>1 DEF CounterStep, Counted
<1>4. c = Incremented(counter[<<d.key, WindowAt(d.at)>>])
  BY DEF Counter
<1> HIDE DEF c
<1>5. counter[i].count = 0 /\ c.expires = counter[i].expires
  BY <1>0, <1>1, <1>2, <1>4, IncrementedFacts
<1>6. counter[i].expires = Absent /\ Firsts(d.key, WindowAt(d.at)) = {}
  BY <1>0, <1>2, <1>5 DEF CounterShape
<1>7. /\ counter' \in [RateKeys \X Windows -> CounterRecords(config.limit)]
      /\ counter'[i] = c
      /\ \A k \in RateKeys, w \in Windows : k # d.key \/ w # WindowAt(d.at)
           => counter'[<<k, w>>] = counter[<<k, w>>]
  <2>1. i \in RateKeys \X Windows /\ counter \in [RateKeys \X Windows -> CounterRecords(config.limit)]
    BY <1>0, <1>2 DEF GatewayTypeOK, CounterRecords
  <2>2. counter'[i] = c
    <3> HIDE DEF i
    <3> QED
      BY <2>1, <1>1
  <2>3. counter' \in [RateKeys \X Windows -> CounterRecords(config.limit)]
    BY <1>0, <1>3, CounterStepFacts
  <2>4. ASSUME NEW k \in RateKeys, NEW w \in Windows, k # d.key \/ w # WindowAt(d.at)
        PROVE  counter'[<<k, w>>] = counter[<<k, w>>]
    BY <2>4, <1>0, <1>3, CounterStepAt
  <2> QED
    BY <2>2, <2>3, <2>4
<1>8. /\ slot' \in [Slots -> SlotRecords]
      /\ \A x \in Slots : /\ x # s => slot'[x] = slot[x]
                          /\ UnderWay(x)' <=> UnderWay(x)
                          /\ slot'[x].key = slot[x].key /\ slot'[x].at = slot[x].at
                          /\ slot'[x].tries = slot[x].tries /\ slot'[x].replica = slot[x].replica
      /\ slot'[s].phase = "expire"
      /\ \A k, w : Firsts(k, w)' = IF k = d.key /\ w = WindowAt(d.at)
                                   THEN Firsts(k, w) \cup {s} ELSE Firsts(k, w)
  <2>1. slot[s].phase = "incr"
    BY <1>1, <1>2
  <2>2. \A k, w : Firsts(k, w)' = IF k = slot[s].key /\ w = WindowAt(slot[s].at)
                                  THEN Firsts(k, w) \cup {s} ELSE Firsts(k, w)
    BY <2>1, <1>0, <1>1, FirstSlots
  <2>3. /\ slot' \in [Slots -> SlotRecords]
        /\ \A x \in Slots : /\ x # s => slot'[x] = slot[x]
                            /\ UnderWay(x)' <=> UnderWay(x)
                            /\ slot'[x].key = slot[x].key /\ slot'[x].at = slot[x].at
                            /\ slot'[x].tries = slot[x].tries /\ slot'[x].replica = slot[x].replica
        /\ slot'[s].phase = "expire"
    BY <2>1, <1>0, <1>1, FirstSlots
  <2> QED
    BY <2>2, <2>3, <1>2
<1>9. GatewayTypeOK'
  <2>1. /\ config' \in Configs /\ now' \in 0 .. MaxTime /\ limiter' \in [Replicas -> {"local", "redis"}]
        /\ log' \in [Replicas \X RateKeys -> SUBSET ((0 .. MaxTime) \X Nat)]
        /\ admitted' \in [RateKeys \X Windows -> Nat] /\ hint' \in [RateKeys -> HintRecords]
    BY <1>0, <1>1 DEF GatewayTypeOK, HintRecords
  <2>2. counter' \in [RateKeys \X Windows -> CounterRecords(config'.limit)]
    BY <1>1, <1>7
  <2> QED
    BY <1>8, <2>1, <2>2 DEF GatewayTypeOK, SlotRecords, CounterRecords, HintRecords, RateKeys,
                            Windows, Identity
<1>10. LogShape' /\ LimiterShape'
  <2>1. LogShape'
    BY <1>0, <1>1, LogSame
  <2>2. LimiterShape'
    BY <1>0, <1>1 DEF LimiterShape, Startable
  <2> QED
    BY <2>1, <2>2
<1>11. SlotShape'
  BY <1>0, <1>1, <1>8 DEF SlotShape, RateKeys, Identity
<1>12. CounterShape'
  <2> SUFFICES ASSUME NEW k \in RateKeys, NEW w \in Windows
               PROVE  /\ counter'[<<k, w>>].expires # Absent =>
                           counter'[<<k, w>>].expires >= Start(w) + 2 * Window + 2
                      /\ counter'[<<k, w>>].count # 0 => w <= WindowAt(now)
                      /\ counter'[<<k, w>>].count = 0 => counter'[<<k, w>>].expires = Absent
                      /\ \A x \in Firsts(k, w)' : /\ counter'[<<k, w>>].count >= 1
                                                  /\ counter'[<<k, w>>].expires = Absent
                                                  /\ Firsts(k, w)' = {x}
    BY <1>1 DEF CounterShape, Start, WindowAt, RateKeys, Identity, Windows
  <2>1. CASE k = d.key /\ w = WindowAt(d.at)
    <3>1. Firsts(k, w)' = {s} /\ counter'[<<k, w>>] = c
      BY <2>1, <1>6, <1>7, <1>8
    <3>2. c.count >= 1 /\ c.count # 0
      BY <1>1
    <3> QED
      BY <2>1, <3>1, <3>2, <1>2, <1>5, <1>6
  <2>2. CASE k # d.key \/ w # WindowAt(d.at)
    <3>1. Firsts(k, w)' = Firsts(k, w) /\ counter'[<<k, w>>] = counter[<<k, w>>]
      BY <2>2, <1>7, <1>8
    <3> QED
      BY <3>1, <1>0 DEF CounterShape
  <2> QED
    BY <2>1, <2>2
<1>13. LoneShape'
  <2> SUFFICES ASSUME NEW t \in Slots, UnderWay(t)', slot'[t].tries # Absent
               PROVE  /\ \A x \in Slots : UnderWay(x)' /\ slot'[x].key = slot'[t].key => x = t
                      /\ \A w \in Windows : w > WindowAt(slot'[t].at) => counter'[<<slot'[t].key, w>>].count = 0
                      /\ slot'[t].tries >= 1 /\ hint'[slot'[t].key] # Absent =>
                           /\ hint'[slot'[t].key].tries = slot'[t].tries
                           /\ hint'[slot'[t].key].until <= slot'[t].at
                           /\ hint'[slot'[t].key].by = "redis" /\ slot'[t].phase = "incr"
                                => counter'[<<slot'[t].key, WindowAt(slot'[t].at)>>].count = 0
    BY DEF LoneShape, WindowAt, Windows
  <2> DEFINE k == slot[t].key
             v == WindowAt(slot[t].at)
  <2>1. /\ UnderWay(t) /\ slot[t].tries # Absent /\ slot'[t].key = k /\ slot'[t].at = slot[t].at
        /\ slot'[t].tries = slot[t].tries
    BY <1>8
  <2>2. k \in RateKeys /\ v \in Windows /\ Windows \subseteq Nat
    BY <2>1, <1>0, SlotDecided, WindowsNat DEF SlotShape
  <2>3. /\ \A x \in Slots : UnderWay(x) /\ slot[x].key = k => x = t
        /\ \A w \in Windows : w > v => counter[<<k, w>>].count = 0
        /\ slot[t].tries >= 1 /\ hint[k] # Absent =>
             /\ hint[k].tries = slot[t].tries
             /\ hint[k].until <= slot[t].at
             /\ hint[k].by = "redis" /\ slot[t].phase = "incr" => counter[<<k, v>>].count = 0
    BY <2>1, <1>0 DEF LoneShape
  <2>4. \A x \in Slots : UnderWay(x)' /\ slot'[x].key = k => x = t
    BY <2>3, <1>8
  <2>5. CASE t = s
    <3>1. k = d.key /\ v = WindowAt(d.at) /\ slot'[t].phase = "expire"
      BY <2>5, <1>2, <1>8
    <3>2. \A w \in Windows : w > v => counter'[<<k, w>>] = counter[<<k, w>>]
      BY <3>1, <2>2, <1>7
    <3> HIDE DEF k, v
    <3> QED
      BY <3>1, <3>2, <2>1, <2>3, <2>4, <1>1 DEF v
  <2>6. CASE t # s
    <3>1. k # d.key
      BY <2>3, <2>6, <1>2
    <3>2. \A w \in Windows : counter'[<<k, w>>] = counter[<<k, w>>]
      BY <3>1, <2>2, <1>7
    <3>3. slot'[t] = slot[t]
      BY <2>6, <1>8
    <3> HIDE DEF k
    <3> QED
      BY <3>2, <3>3, <2>1, <2>2, <2>3, <2>4, <1>1 DEF v
  <2> QED
    BY <2>5, <2>6
<1>14. HintShape'
  <2> SUFFICES ASSUME NEW k \in RateKeys PROVE HintHolds(k)'
    BY DEF HintShape, RateKeys, Identity
  <2>1. HintHolds(k)
    BY <1>0 DEF HintShape
  <2>2. \A w \in Windows : counter[<<k, w>>].count = 0 \/ Firsts(k, w) # {}
          => counter'[<<k, w>>].count = 0 \/ Firsts(k, w)' # {}
    <3> SUFFICES ASSUME NEW w \in Windows, counter[<<k, w>>].count = 0 \/ Firsts(k, w) # {}
                 PROVE  counter'[<<k, w>>].count = 0 \/ Firsts(k, w)' # {}
      OBVIOUS
    <3>1. CASE k = d.key /\ w = WindowAt(d.at)
      BY <3>1, <1>8
    <3>2. CASE k # d.key \/ w # WindowAt(d.at)
      BY <3>2, <1>7, <1>8
    <3> QED
      BY <3>1, <3>2
  <2>3. Outlasting(k)' = Outlasting(k)
    BY <1>1 DEF Outlasting, Later
  <2> QED
    BY <1>1, <2>1, <2>2, <2>3 DEF HintHolds, WindowAt
<1> QED
  BY <1>9, <1>10, <1>11, <1>12, <1>13, <1>14 DEF GatewayInv

LEMMA IncrKeeps ==
  ASSUME GatewayInv, NEW s \in Slots, Incr(s)
  PROVE  GatewayInv'
<1> DEFINE d == slot[s]
<1>1. /\ Deciding(s, d) /\ UnderWay(s)
      /\ FirstOfWindow(s, d) \/ SharedPass(s, d) \/ SharedRefusal(s, d)
  BY IncrOutcomes
<1> HIDE DEF d
<1> QED
  BY <1>1, FirstKeeps, SharedPassKeeps, SharedRefusalKeeps

LEMMA ExpireOutcome ==
  ASSUME GatewayInv, NEW s \in Slots, Expire(s)
  PROVE  /\ Deciding(s, slot[s]) /\ UnderWay(s) /\ slot[s].phase = "expire" /\ SharedPass(s, slot[s])
<1>1. UnderWay(s)
  BY DEF Expire, UnderWay
<1>2. Deciding(s, slot[s])
  BY <1>1, SlotDecided DEF GatewayInv
<1>3. CounterStep(s, slot[s])
  BY <1>1 DEF Expire, CounterStep
<1> QED
  BY <1>1, <1>2, <1>3 DEF Expire, Pass, SharedPass, Decision

LEMMA ExpireKeeps ==
  ASSUME GatewayInv, NEW s \in Slots, Expire(s)
  PROVE  GatewayInv'
<1> DEFINE d == slot[s]
<1>1. Deciding(s, d) /\ SharedPass(s, d)
  BY ExpireOutcome
<1> HIDE DEF d
<1> QED
  BY <1>1, SharedPassKeeps

LEMMA CrowdedFacts ==
  ASSUME GatewayTypeOK, NEW s \in Slots, NEW k, NEW d \in SlotRecords, d.phase = "incr",
         ~UnderWay(s), slot' = [Crowded(k) EXCEPT ![s] = d]
  PROVE  /\ slot' \in [Slots -> SlotRecords] /\ slot'[s] = d /\ UnderWay(s)'
         /\ \A x \in Slots : x # s =>
              /\ UnderWay(x)' <=> UnderWay(x)
              /\ slot'[x].phase = slot[x].phase
              /\ slot'[x].key = slot[x].key /\ slot'[x].at = slot[x].at
              /\ slot'[x].replica = slot[x].replica
              /\ UnderWay(x) /\ slot[x].key = k => slot'[x].tries = Absent
              /\ ~(UnderWay(x) /\ slot[x].key = k) => slot'[x] = slot[x]
         /\ \A l, w : Firsts(l, w)' = Firsts(l, w)
<1>1. slot \in [Slots -> SlotRecords]
  BY DEF GatewayTypeOK, SlotRecords
<1>2. ASSUME NEW x \in Slots
      PROVE  /\ Crowded(k)[x] \in SlotRecords
             /\ Crowded(k)[x].phase = slot[x].phase
             /\ Crowded(k)[x].key = slot[x].key /\ Crowded(k)[x].at = slot[x].at
             /\ Crowded(k)[x].replica = slot[x].replica
             /\ UnderWay(x) /\ slot[x].key = k => Crowded(k)[x].tries = Absent
             /\ ~(UnderWay(x) /\ slot[x].key = k) => Crowded(k)[x] = slot[x]
  <2>1. slot[x] \in SlotRecords
    BY <1>1
  <2>2. CASE UnderWay(x) /\ slot[x].key = k
    <3>1. Crowded(k)[x] = [slot[x] EXCEPT !.tries = Absent]
      BY <2>2 DEF Crowded
    <3> QED
      BY <2>1, <2>2, <3>1 DEF SlotRecords
  <2>3. CASE ~(UnderWay(x) /\ slot[x].key = k)
    <3>1. Crowded(k)[x] = slot[x]
      BY <2>3 DEF Crowded
    <3> QED
      BY <2>1, <2>3, <3>1
  <2> QED
    BY <2>2, <2>3
<1>3. Crowded(k) \in [Slots -> SlotRecords]
  <2>1. Crowded(k) = [x \in Slots |-> Crowded(k)[x]]
    BY DEF Crowded
  <2> QED
    BY <1>2, <2>1
<1>4. /\ slot' \in [Slots -> SlotRecords] /\ slot'[s] = d
      /\ \A x \in Slots : x # s => slot'[x] = Crowded(k)[x]
  BY <1>3
<1>5. UnderWay(s)'
  BY <1>4 DEF UnderWay
<1>6. ASSUME NEW x \in Slots, x # s
      PROVE  /\ UnderWay(x)' <=> UnderWay(x)
             /\ slot'[x].phase = slot[x].phase
             /\ slot'[x].key = slot[x].key /\ slot'[x].at = slot[x].at
             /\ slot'[x].replica = slot[x].replica
             /\ UnderWay(x) /\ slot[x].key = k => slot'[x].tries = Absent
             /\ ~(UnderWay(x) /\ slot[x].key = k) => slot'[x] = slot[x]
  <2>1. slot'[x] = Crowded(k)[x]
    BY <1>4, <1>6
  <2>2. slot'[x].phase = slot[x].phase
    BY <2>1, <1>2
  <2> QED
    BY <2>1, <2>2, <1>2 DEF UnderWay
<1>7. ASSUME NEW l, NEW w PROVE Firsts(l, w)' = Firsts(l, w)
  <2>1. ASSUME NEW x \in Slots PROVE x \in Firsts(l, w)' <=> x \in Firsts(l, w)
    <3>1. CASE x = s
      BY <3>1, <1>4 DEF Firsts, UnderWay
    <3>2. CASE x # s
      <4>1. slot'[x].phase = slot[x].phase /\ slot'[x].key = slot[x].key /\ slot'[x].at = slot[x].at
        BY <3>2, <1>6
      <4> QED
        BY <4>1 DEF Firsts, WindowAt
    <3> QED
      BY <3>1, <3>2
  <2> QED
    BY <2>1 DEF Firsts
<1> QED
  BY <1>4, <1>5, <1>6, <1>7

LEMMA ArriveSharedKeeps ==
  ASSUME GatewayInv, NEW s \in Slots, NEW r \in Replicas, NEW call \in Calls, ArriveShared(s, r, call)
  PROVE  GatewayInv'
<1> DEFINE d == Incoming(s, r, call)
           k == Identity(call)
<1>0. GatewayTypeOK /\ LogShape /\ LimiterShape /\ SlotShape /\ CounterShape /\ LoneShape /\ HintShape
  BY DEF GatewayInv
<1>1. /\ ~UnderWay(s) /\ limiter[r] = "redis" /\ ~Denied(call)
      /\ slot' = [Crowded(k) EXCEPT ![s] = d]
      /\ UNCHANGED <<config, now, limiter, log, counter, admitted, hint>>
  BY DEF ArriveShared
<1>2. Deciding(s, d) /\ d.key = k /\ d.at = now /\ d.replica = r /\ d.phase = "incr"
  BY <1>0, <1>1, IncomingDecided
<1> HIDE DEF d, k
<1>3. /\ k \in RateKeys /\ now \in Nat /\ d \in SlotRecords /\ WindowAt(now) \in Windows
      /\ WindowAt(now) \in Nat
  BY <1>0, <1>2, DecidingTyped DEF Deciding, SlotRecords
<1>4. /\ slot' \in [Slots -> SlotRecords] /\ slot'[s] = d /\ UnderWay(s)'
      /\ \A x \in Slots : x # s =>
           /\ UnderWay(x)' <=> UnderWay(x)
           /\ slot'[x].phase = slot[x].phase
           /\ slot'[x].key = slot[x].key /\ slot'[x].at = slot[x].at
           /\ slot'[x].replica = slot[x].replica
           /\ UnderWay(x) /\ slot[x].key = k => slot'[x].tries = Absent
           /\ ~(UnderWay(x) /\ slot[x].key = k) => slot'[x] = slot[x]
      /\ \A l, w : Firsts(l, w)' = Firsts(l, w)
  <2>1. GatewayTypeOK /\ d \in SlotRecords /\ d.phase = "incr" /\ ~UnderWay(s)
        /\ slot' = [Crowded(k) EXCEPT ![s] = d]
    BY <1>0, <1>1, <1>2, <1>3
  <2> QED
    BY ONLY s \in Slots, <2>1, CrowdedFacts
<1>5. GatewayTypeOK'
  <2>1. /\ config' \in Configs /\ now' \in 0 .. MaxTime /\ limiter' \in [Replicas -> {"local", "redis"}]
        /\ log' \in [Replicas \X RateKeys -> SUBSET ((0 .. MaxTime) \X Nat)]
        /\ admitted' \in [RateKeys \X Windows -> Nat] /\ hint' \in [RateKeys -> HintRecords]
        /\ counter' \in [RateKeys \X Windows -> CounterRecords(config'.limit)]
    BY <1>0, <1>1 DEF GatewayTypeOK, HintRecords, CounterRecords
  <2> QED
    BY <1>4, <2>1 DEF GatewayTypeOK, SlotRecords, CounterRecords, HintRecords, RateKeys,
                      Windows, Identity
<1>6. LogShape'
  BY <1>0, <1>1, LogSame
<1>7. LimiterShape'
  BY <1>0, <1>1 DEF LimiterShape, Startable
<1>8. SlotShape'
  <2> SUFFICES ASSUME NEW x \in Slots, UnderWay(x)'
               PROVE  /\ config.configured /\ slot'[x].replica \in Replicas /\ slot'[x].key \in RateKeys
                      /\ slot'[x].at <= now
    BY <1>1 DEF SlotShape, RateKeys, Identity
  <2>1. CASE x = s
    <3>1. config.configured
      BY <1>0, <1>1 DEF LimiterShape, Startable
    <3>2. now <= now
      BY <1>3
    <3> QED
      BY <2>1, <3>1, <3>2, <1>2, <1>3, <1>4
  <2>2. CASE x # s
    BY <2>2, <1>0, <1>4 DEF SlotShape
  <2> QED
    BY <2>1, <2>2
<1>9. CounterShape'
  BY <1>0, <1>1, <1>4 DEF CounterShape, Start, WindowAt
<1>10. LoneShape'
  <2> SUFFICES ASSUME NEW t \in Slots, UnderWay(t)', slot'[t].tries # Absent
               PROVE  /\ \A x \in Slots : UnderWay(x)' /\ slot'[x].key = slot'[t].key => x = t
                      /\ \A w \in Windows : w > WindowAt(slot'[t].at) => counter'[<<slot'[t].key, w>>].count = 0
                      /\ slot'[t].tries >= 1 /\ hint'[slot'[t].key] # Absent =>
                           /\ hint'[slot'[t].key].tries = slot'[t].tries
                           /\ hint'[slot'[t].key].until <= slot'[t].at
                           /\ hint'[slot'[t].key].by = "redis" /\ slot'[t].phase = "incr"
                                => counter'[<<slot'[t].key, WindowAt(slot'[t].at)>>].count = 0
    BY DEF LoneShape, WindowAt, Windows
  <2>1. CASE t = s
    <3>1. slot'[t] = d /\ d.tries # Absent
      BY <2>1, <1>4
    <3>2. \A x \in Slots : UnderWay(x) /\ slot[x].key = k => x = s
      BY <3>1, <1>2 DEF Deciding
    <3>3. \A x \in Slots : UnderWay(x)' /\ slot'[x].key = k => x = t
      BY <2>1, <3>2, <1>4
    <3>4. \A w \in Windows : w > WindowAt(now) => counter[<<k, w>>].count = 0
      <4> SUFFICES ASSUME NEW w \in Windows, w > WindowAt(now) PROVE counter[<<k, w>>].count = 0
        OBVIOUS
      <4>1. counter[<<k, w>>].count # 0 => w <= WindowAt(now)
        BY <1>0, <1>3 DEF CounterShape
      <4> QED
        BY <4>1, <1>3, WindowsNat
    <3>5. ASSUME d.tries >= 1, hint[k] # Absent
          PROVE  /\ hint[k].tries = d.tries /\ hint[k].until <= now
                 /\ hint[k].by = "redis" => counter[<<k, WindowAt(now)>>].count = 0
      <4>1. hint[k].tries = d.tries /\ hint[k].until <= now
        BY <3>1, <3>5, <1>2 DEF Deciding
      <4>2. ASSUME hint[k].by = "redis" PROVE counter[<<k, WindowAt(now)>>].count = 0
        <5>1. HintHolds(k) /\ hint[k].until \in Nat
          BY <3>5, <1>0, <1>3, HintTyped DEF HintShape
        <5>2. WindowAt(now) >= WindowAt(hint[k].until) /\ WindowAt(now) >= WindowAt(now)
          BY <4>1, <5>1, <1>3, WindowMono, WindowFacts
        <5>3. counter[<<k, WindowAt(now)>>].count = 0 \/ Firsts(k, WindowAt(now)) # {}
          BY <3>5, <4>2, <5>1, <5>2, <1>3 DEF HintHolds
        <5>4. Firsts(k, WindowAt(now)) = {}
          BY <3>2, <1>1 DEF Firsts, UnderWay
        <5> QED
          BY <5>3, <5>4
      <4> QED
        BY <4>1, <4>2
    <3> QED
      BY <3>1, <3>3, <3>4, <3>5, <1>1, <1>2
  <2>2. CASE t # s
    <3>1. UnderWay(t) /\ slot'[t] = slot[t] /\ slot[t].key # k /\ slot[t].tries # Absent
      BY <2>2, <1>4
    <3>2. \A x \in Slots : UnderWay(x)' /\ slot'[x].key = slot[t].key => x = t
      <4> SUFFICES ASSUME NEW x \in Slots, UnderWay(x)', slot'[x].key = slot[t].key PROVE x = t
        OBVIOUS
      <4>1. x # s
        BY <3>1, <1>2, <1>4
      <4>2. UnderWay(x) /\ slot[x].key = slot[t].key
        BY <4>1, <1>4
      <4> QED
        BY <4>2, <3>1, <1>0 DEF LoneShape
    <3> QED
      BY <3>1, <3>2, <1>0, <1>1 DEF LoneShape
  <2> QED
    BY <2>1, <2>2
<1>11. HintShape'
  <2> SUFFICES ASSUME NEW l \in RateKeys PROVE HintHolds(l)'
    BY DEF HintShape, RateKeys, Identity
  <2>1. HintHolds(l) /\ Outlasting(l)' = Outlasting(l)
    BY <1>0, <1>1 DEF HintShape, Outlasting, Later
  <2> QED
    BY <2>1, <1>1, <1>4 DEF HintHolds, WindowAt
<1> QED
  BY <1>5, <1>6, <1>7, <1>8, <1>9, <1>10, <1>11 DEF GatewayInv

\* What the passing of time does to the logs, counters, budgets and hints.
LEMMA TimePasses ==
  ASSUME GatewayTypeOK, LogShape, PassTime
  PROVE  /\ now' = now + 1 /\ now \in Nat /\ now' \in 0 .. MaxTime
         /\ log' \in [Replicas \X RateKeys -> SUBSET ((0 .. MaxTime) \X Nat)]
         /\ \A r \in Replicas, k \in RateKeys :
              log'[<<r, k>>] = {e \in log[<<r, k>>] : e[1] + 2 * Window > now + 1}
         /\ counter' \in [RateKeys \X Windows -> CounterRecords(config.limit)]
         /\ \A k \in RateKeys, w \in Windows :
              counter'[<<k, w>>] = IF counter[<<k, w>>].expires = now + 1 THEN NoCounter
                                   ELSE counter[<<k, w>>]
         /\ admitted' \in [RateKeys \X Windows -> Nat]
         /\ \A k \in RateKeys, w \in Windows : admitted'[<<k, w>>] <= admitted[<<k, w>>]
         /\ hint' \in [RateKeys -> HintRecords]
         /\ \A k \in RateKeys :
              /\ hint[k] = Absent <=> hint'[k] = Absent
              /\ hint[k] # Absent =>
                   /\ hint'[k].by = hint[k].by /\ hint'[k].tries = hint[k].tries
                   /\ hint'[k].until = IF hint[k].until <= now + 1 THEN 0 ELSE hint[k].until
         /\ UNCHANGED <<config, limiter, slot>>
<1>1. now \in Nat /\ now' = now + 1 /\ now' \in 0 .. MaxTime /\ UNCHANGED <<config, limiter, slot>>
  BY Bounds DEF PassTime, GatewayTypeOK
<1>2. log \in [Replicas \X RateKeys -> SUBSET ((0 .. MaxTime) \X Nat)]
  BY DEF GatewayTypeOK
<1>3. log' = [x \in Replicas \X RateKeys |-> Recent(log[x], now + 1)]
  BY <1>1, <1>2 DEF PassTime
<1>4. ASSUME NEW r \in Replicas, NEW k \in RateKeys
      PROVE  log'[<<r, k>>] = {e \in log[<<r, k>>] : e[1] + 2 * Window > now + 1}
  <2>1. log'[<<r, k>>] = Recent(log[<<r, k>>], now + 1)
    BY <1>3
  <2>2. \A e \in log[<<r, k>>] : e[1] \in Nat
    BY LogTyped
  <2> QED
    BY <2>1, <2>2, <1>1, WindowPositive DEF Recent
<1>5. log' \in [Replicas \X RateKeys -> SUBSET ((0 .. MaxTime) \X Nat)]
  BY <1>2, <1>3 DEF Recent
<1>6. counter \in [RateKeys \X Windows -> CounterRecords(config.limit)]
  BY DEF GatewayTypeOK, CounterRecords
<1>7. counter' = [x \in RateKeys \X Windows |->
                    IF counter[x].expires = now + 1 THEN NoCounter ELSE counter[x]]
  BY <1>6 DEF PassTime
<1>8. NoCounter \in CounterRecords(config.limit)
  BY LimitPositive DEF NoCounter, CounterRecords
<1>9. /\ counter' \in [RateKeys \X Windows -> CounterRecords(config.limit)]
      /\ \A k \in RateKeys, w \in Windows :
           counter'[<<k, w>>] = IF counter[<<k, w>>].expires = now + 1 THEN NoCounter
                                ELSE counter[<<k, w>>]
  BY <1>6, <1>7, <1>8
<1>10. admitted \in [RateKeys \X Windows -> Nat]
  BY DEF GatewayTypeOK
<1>11. \A x \in RateKeys \X Windows : admitted'[x] \in {0, admitted[x]}
  BY <1>10 DEF PassTime
<1>12. /\ admitted' \in [RateKeys \X Windows -> Nat]
       /\ \A k \in RateKeys, w \in Windows : admitted'[<<k, w>>] <= admitted[<<k, w>>]
  <2>1. admitted' = [x \in RateKeys \X Windows |-> admitted'[x]]
    BY <1>10 DEF PassTime
  <2>2. \A x \in RateKeys \X Windows : admitted'[x] \in Nat /\ admitted'[x] <= admitted[x]
    BY <1>10, <1>11
  <2> QED
    BY <2>1, <2>2
<1>13. ASSUME NEW k \in RateKeys
       PROVE  /\ hint'[k] \in HintRecords
              /\ hint[k] = Absent <=> hint'[k] = Absent
              /\ hint[k] # Absent =>
                   /\ hint'[k].by = hint[k].by /\ hint'[k].tries = hint[k].tries
                   /\ hint'[k].until = IF hint[k].until <= now + 1 THEN 0 ELSE hint[k].until
  <2>1. hint[k] \in HintRecords
    BY DEF GatewayTypeOK, HintRecords
  <2>2. hint'[k] = IF hint[k] = Absent THEN Absent
                   ELSE IF hint[k].until <= now + 1 THEN [hint[k] EXCEPT !.until = 0]
                   ELSE hint[k]
    BY <1>1 DEF PassTime
  <2>3. CASE hint[k] = Absent
    BY <2>1, <2>2, <2>3
  <2>4. CASE hint[k] # Absent /\ hint[k].until <= now + 1
    <3>1. hint[k] \in [until : Nat, tries : Nat, by : Replicas \cup {"redis"}]
      BY <2>1, <2>4 DEF HintRecords
    <3>2. hint'[k] = [hint[k] EXCEPT !.until = 0]
      BY <2>2, <2>4
    <3>3. /\ hint'[k] \in [until : Nat, tries : Nat, by : Replicas \cup {"redis"}]
          /\ hint'[k].by = hint[k].by /\ hint'[k].tries = hint[k].tries /\ hint'[k].until = 0
      BY <3>1, <3>2
    <3> QED
      BY <2>4, <3>3, AbsentDistinct DEF HintRecords
  <2>5. CASE hint[k] # Absent /\ ~(hint[k].until <= now + 1)
    BY <2>1, <2>2, <2>5
  <2> QED
    BY <2>3, <2>4, <2>5
<1>14. hint' \in [RateKeys -> HintRecords]
  <2>1. hint' = [k \in RateKeys |-> hint'[k]]
    BY DEF PassTime
  <2> QED
    BY <2>1, <1>13
<1> QED
  BY <1>1, <1>4, <1>5, <1>9, <1>12, <1>13, <1>14

LEMMA PassTimeKeeps ==
  ASSUME GatewayInv, PassTime
  PROVE  GatewayInv'
<1>0. GatewayTypeOK /\ LogShape /\ LimiterShape /\ SlotShape /\ CounterShape /\ LoneShape /\ HintShape
  BY DEF GatewayInv
<1>1. /\ now' = now + 1 /\ now \in Nat /\ now' \in 0 .. MaxTime
      /\ log' \in [Replicas \X RateKeys -> SUBSET ((0 .. MaxTime) \X Nat)]
      /\ counter' \in [RateKeys \X Windows -> CounterRecords(config.limit)]
      /\ admitted' \in [RateKeys \X Windows -> Nat]
      /\ hint' \in [RateKeys -> HintRecords]
      /\ UNCHANGED <<config, limiter, slot>>
  BY <1>0, TimePasses
<1>2. /\ WindowAt(now) \in Nat /\ WindowAt(now') \in Nat /\ WindowAt(now) <= WindowAt(now')
      /\ config.limit \in Nat /\ Windows \subseteq Nat
  BY <1>0, <1>1, WindowFacts, WindowMono, LimitPositive, WindowsNat
<1>3. \A r \in Replicas, k \in RateKeys :
        log'[<<r, k>>] = {e \in log[<<r, k>>] : e[1] + 2 * Window > now + 1}
  BY <1>0, TimePasses
<1>4. \A k \in RateKeys, w \in Windows :
        counter'[<<k, w>>] = IF counter[<<k, w>>].expires = now + 1 THEN NoCounter
                             ELSE counter[<<k, w>>]
  BY <1>0, TimePasses
<1>5. \A k \in RateKeys :
        /\ hint[k] = Absent <=> hint'[k] = Absent
        /\ hint[k] # Absent =>
             /\ hint'[k].by = hint[k].by /\ hint'[k].tries = hint[k].tries
             /\ hint'[k].until = IF hint[k].until <= now + 1 THEN 0 ELSE hint[k].until
  BY <1>0, TimePasses
<1>6. \A k, w : Firsts(k, w)' = Firsts(k, w)
  BY <1>1 DEF Firsts, WindowAt
<1>7. NoCounter.count = 0 /\ NoCounter.expires = Absent
  BY DEF NoCounter
<1>8. GatewayTypeOK'
  <2>1. /\ config' \in Configs /\ limiter' \in [Replicas -> {"local", "redis"}]
        /\ slot' \in [Slots -> SlotRecords]
        /\ counter' \in [RateKeys \X Windows -> CounterRecords(config'.limit)]
    BY <1>0, <1>1 DEF GatewayTypeOK, SlotRecords
  <2> QED
    BY <1>1, <2>1 DEF GatewayTypeOK, SlotRecords, CounterRecords, HintRecords, RateKeys,
                      Windows, Identity
<1>9. LogShape'
  <2> SUFFICES ASSUME NEW r \in Replicas, NEW k \in RateKeys
               PROVE  /\ IsFiniteSet(log'[<<r, k>>]) /\ Cardinality(log'[<<r, k>>]) <= config.limit
                      /\ config.configured /\ config.required => log'[<<r, k>>] = {}
                      /\ \A e \in log'[<<r, k>>] :
                           /\ e[1] <= now'
                           /\ e[1] = now' => e[2] <= Cardinality({x \in log'[<<r, k>>] : x[1] = now'})
    BY <1>1 DEF LogShape, RateKeys, Identity
  <2>1. /\ IsFiniteSet(log[<<r, k>>]) /\ Cardinality(log[<<r, k>>]) <= config.limit
        /\ config.configured /\ config.required => log[<<r, k>>] = {}
        /\ \A e \in log[<<r, k>>] : e[1] <= now /\ e[1] \in Nat
    BY <1>0, LogTyped DEF LogShape
  <2>2. log'[<<r, k>>] \subseteq log[<<r, k>>]
    BY <1>3
  <2>3. /\ IsFiniteSet(log'[<<r, k>>]) /\ Cardinality(log'[<<r, k>>]) \in Nat
        /\ Cardinality(log'[<<r, k>>]) <= Cardinality(log[<<r, k>>])
        /\ Cardinality(log[<<r, k>>]) \in Nat
    BY <2>1, <2>2, FS_Subset, FS_CardinalityType
  <2>4. Cardinality(log'[<<r, k>>]) <= config.limit
    BY <2>1, <2>3, <1>2
  <2>5. \A e \in log'[<<r, k>>] : e[1] <= now' /\ e[1] # now'
    <3>1. now \in Nat /\ now' = now + 1
      BY <1>1
    <3> SUFFICES ASSUME NEW e \in log'[<<r, k>>] PROVE e[1] <= now' /\ e[1] # now'
      OBVIOUS
    <3>2. e[1] <= now /\ e[1] \in Nat
      BY <2>1, <2>2
    <3> QED
      BY <3>1, <3>2
  <2>6. \A e \in log'[<<r, k>>] :
          /\ e[1] <= now'
          /\ e[1] = now' => e[2] <= Cardinality({x \in log'[<<r, k>>] : x[1] = now'})
    BY <2>5
  <2>7. config.configured /\ config.required => log'[<<r, k>>] = {}
    BY <2>1, <2>2
  <2> QED
    BY <2>3, <2>4, <2>6, <2>7
<1>10. LimiterShape'
  BY <1>0, <1>1 DEF LimiterShape, Startable
<1>11. SlotShape'
  <2> SUFFICES ASSUME NEW x \in Slots, UnderWay(x)
               PROVE  /\ config.configured /\ slot[x].replica \in Replicas /\ slot[x].key \in RateKeys
                      /\ slot[x].at <= now'
    BY <1>1 DEF SlotShape, RateKeys, Identity, UnderWay
  <2>1. slot[x].at \in Nat /\ slot[x].at <= now
    BY <1>0, <1>1, SlotDecided, DecidingTyped
  <2>2. slot[x].at <= now'
    BY <2>1, <1>1
  <2> QED
    BY <2>2, <1>0 DEF SlotShape
<1>12. CounterShape'
  <2> SUFFICES ASSUME NEW k \in RateKeys, NEW w \in Windows
               PROVE  /\ counter'[<<k, w>>].expires # Absent =>
                           counter'[<<k, w>>].expires >= Start(w) + 2 * Window + 2
                      /\ counter'[<<k, w>>].count # 0 => w <= WindowAt(now')
                      /\ counter'[<<k, w>>].count = 0 => counter'[<<k, w>>].expires = Absent
                      /\ \A x \in Firsts(k, w) : /\ counter'[<<k, w>>].count >= 1
                                                 /\ counter'[<<k, w>>].expires = Absent
                                                 /\ Firsts(k, w) = {x}
    BY <1>6 DEF CounterShape, Start, WindowAt, RateKeys, Identity, Windows
  <2>1. /\ counter[<<k, w>>].expires # Absent =>
             counter[<<k, w>>].expires >= Start(w) + 2 * Window + 2
        /\ counter[<<k, w>>].count # 0 => w <= WindowAt(now)
        /\ counter[<<k, w>>].count = 0 => counter[<<k, w>>].expires = Absent
        /\ \A x \in Firsts(k, w) : /\ counter[<<k, w>>].count >= 1
                                   /\ counter[<<k, w>>].expires = Absent
                                   /\ Firsts(k, w) = {x}
    BY <1>0 DEF CounterShape
  <2>2. CASE counter[<<k, w>>].expires = now + 1
    <3>1. counter[<<k, w>>].expires # Absent
      BY <2>2, <1>1, AbsentDistinct
    <3>2. Firsts(k, w) = {} /\ counter'[<<k, w>>] = NoCounter
      BY <3>1, <2>1, <2>2, <1>4
    <3> QED
      BY <3>2, <1>7
  <2>3. CASE counter[<<k, w>>].expires # now + 1
    <3>1. counter'[<<k, w>>] = counter[<<k, w>>]
      BY <2>3, <1>4
    <3>2. w <= WindowAt(now) => w <= WindowAt(now')
      BY <1>2
    <3> QED
      BY <3>1, <3>2, <2>1
  <2> QED
    BY <2>2, <2>3
<1>13. LoneShape'
  <2> SUFFICES ASSUME NEW t \in Slots, UnderWay(t), slot[t].tries # Absent
               PROVE  /\ \A x \in Slots : UnderWay(x) /\ slot[x].key = slot[t].key => x = t
                      /\ \A w \in Windows : w > WindowAt(slot[t].at) => counter'[<<slot[t].key, w>>].count = 0
                      /\ slot[t].tries >= 1 /\ hint'[slot[t].key] # Absent =>
                           /\ hint'[slot[t].key].tries = slot[t].tries
                           /\ hint'[slot[t].key].until <= slot[t].at
                           /\ hint'[slot[t].key].by = "redis" /\ slot[t].phase = "incr"
                                => counter'[<<slot[t].key, WindowAt(slot[t].at)>>].count = 0
    BY <1>1 DEF LoneShape, WindowAt, Windows, UnderWay
  <2> DEFINE k == slot[t].key
             v == WindowAt(slot[t].at)
  <2>1. k \in RateKeys /\ v \in Windows /\ slot[t].at \in Nat
    BY <1>0, SlotDecided, DecidingTyped
  <2>2. \A w \in Windows : counter[<<k, w>>].count = 0 => counter'[<<k, w>>].count = 0
    BY <2>1, <1>4, <1>7
  <2>3. /\ \A x \in Slots : UnderWay(x) /\ slot[x].key = k => x = t
        /\ \A w \in Windows : w > v => counter[<<k, w>>].count = 0
        /\ slot[t].tries >= 1 /\ hint[k] # Absent =>
             /\ hint[k].tries = slot[t].tries
             /\ hint[k].until <= slot[t].at
             /\ hint[k].by = "redis" /\ slot[t].phase = "incr" => counter[<<k, v>>].count = 0
    BY <1>0 DEF LoneShape
  <2>4. hint'[k] # Absent => /\ hint[k] # Absent /\ hint'[k].by = hint[k].by
                             /\ hint'[k].tries = hint[k].tries
                             /\ hint'[k].until = IF hint[k].until <= now + 1 THEN 0 ELSE hint[k].until
    BY <2>1, <1>5
  <2>5. slot[t].tries >= 1 /\ hint'[k] # Absent => hint'[k].until <= slot[t].at
    BY <2>1, <2>3, <2>4
  <2> HIDE DEF k, v
  <2>6. slot[t].tries >= 1 /\ hint'[k] # Absent =>
             /\ hint'[k].tries = slot[t].tries
             /\ hint'[k].by = "redis" /\ slot[t].phase = "incr" => counter'[<<k, v>>].count = 0
    BY <2>1, <2>2, <2>3, <2>4
  <2>7. \A w \in Windows : w > v => counter'[<<k, w>>].count = 0
    BY <2>2, <2>3
  <2> QED
    BY <2>3, <2>5, <2>6, <2>7 DEF k, v
<1>14. HintShape'
  <2> SUFFICES ASSUME NEW k \in RateKeys, hint'[k] # Absent PROVE HintHolds(k)'
    BY DEF HintShape, RateKeys, Identity, HintHolds
  <2>1. /\ hint[k] # Absent /\ hint'[k].by = hint[k].by /\ hint'[k].tries = hint[k].tries
        /\ hint'[k].until = IF hint[k].until <= now + 1 THEN 0 ELSE hint[k].until
    BY <1>5
  <2>2. /\ HintHolds(k) /\ hint[k].until \in Nat /\ hint[k].tries \in Nat
        /\ hint[k].by \in Replicas \cup {"redis"}
    BY <2>1, <1>0, HintTyped DEF HintShape
  <2>3. ASSUME hint[k].by = "redis", NEW w \in Windows, w >= WindowAt(now'), w >= WindowAt(hint'[k].until)
        PROVE  counter'[<<k, w>>].count = 0 \/ Firsts(k, w) # {}
    <3>1. w >= WindowAt(now)
      BY <2>3, <1>2
    <3>2. w >= WindowAt(hint[k].until)
      <4>1. CASE hint[k].until <= now + 1
        <5>1. WindowAt(hint[k].until) <= WindowAt(now') /\ WindowAt(hint[k].until) \in Nat
          BY <4>1, <2>2, <1>1, WindowMono, WindowFacts
        <5> QED
          BY <5>1, <2>3, <1>2
      <4>2. CASE ~(hint[k].until <= now + 1)
        BY <4>2, <2>1, <2>3
      <4> QED
        BY <4>1, <4>2
    <3>3. counter[<<k, w>>].count = 0 \/ Firsts(k, w) # {}
      BY <3>1, <3>2, <2>1, <2>2, <2>3 DEF HintHolds
    <3> QED
      BY <3>3, <1>4, <1>7
  <2>4. ASSUME hint[k].by # "redis"
        PROVE  hint[k].tries \in 1 .. 2 /\ Cardinality(Outlasting(k)') < config.limit
    <3> DEFINE r == hint[k].by
    <3>1. r \in Replicas
      BY <2>2, <2>4
    <3>2. hint[k].tries \in 1 .. 2 /\ Cardinality(Outlasting(k)) < config.limit
      BY <2>1, <2>2, <2>4 DEF HintHolds
    <3>3. Outlasting(k)' \subseteq Outlasting(k)
      <4>1. Later(hint'[k].until, now') \in Nat /\ Later(hint[k].until, now) \in Nat
            /\ Later(hint'[k].until, now') >= Later(hint[k].until, now)
        BY <2>1, <2>2, <1>1 DEF Later
      <4> SUFFICES ASSUME NEW e \in Outlasting(k)' PROVE e \in Outlasting(k)
        OBVIOUS
      <4>2. e \in log'[<<r, k>>] /\ e[1] + 2 * Window > Later(hint'[k].until, now') + 2 - hint[k].tries
        BY <2>1 DEF Outlasting, Later
      <4>3. e \in log[<<r, k>>] /\ e[1] \in Nat
        BY <3>1, <4>2, <1>0, <1>3, LogTyped
      <4>4. e[1] + 2 * Window > Later(hint[k].until, now) + 2 - hint[k].tries
        BY <4>1, <4>2, <4>3, <2>2, WindowPositive
      <4> QED
        BY <4>3, <4>4 DEF Outlasting
    <3>4. IsFiniteSet(Outlasting(k))
      <4>1. Outlasting(k) \subseteq log[<<r, k>>] /\ IsFiniteSet(log[<<r, k>>])
        BY <3>1, <1>0 DEF Outlasting, LogShape
      <4> QED
        BY <4>1, FS_Subset
    <3>5. /\ Cardinality(Outlasting(k)') <= Cardinality(Outlasting(k))
          /\ Cardinality(Outlasting(k)') \in Nat /\ Cardinality(Outlasting(k)) \in Nat
      BY <3>3, <3>4, FS_Subset, FS_CardinalityType
    <3> QED
      BY <3>2, <3>5, <1>2
  <2> QED
    BY <2>1, <2>2, <2>3, <2>4, <1>1, <1>6 DEF HintHolds, WindowAt
<1> QED
  BY <1>8, <1>9, <1>10, <1>11, <1>12, <1>13, <1>14 DEF GatewayInv

-----------------------------------------------------------------------------
LEMMA GatewayInitially ==
  ASSUME GatewayInit
  PROVE  GatewayInv
<1>0. config \in Configs /\ config.limit \in Nat /\ config.limit >= 1 /\ now = 0
  BY CallsTyped DEF GatewayInit
<1>1. 0 \in 0 .. MaxTime
  BY Bounds
<1>2. GatewayTypeOK
  <2>1. Idle \in SlotRecords /\ NoCounter \in CounterRecords(config.limit)
    BY <1>0 DEF Idle, SlotRecords, NoCounter, CounterRecords
  <2>2. limiter \in [Replicas -> {"local", "redis"}]
    BY DEF GatewayInit
  <2>3. slot \in [Slots -> SlotRecords]
        /\ counter \in [RateKeys \X Windows -> CounterRecords(config.limit)]
        /\ hint \in [RateKeys -> HintRecords]
        /\ admitted \in [RateKeys \X Windows -> Nat]
        /\ log \in [Replicas \X RateKeys -> SUBSET ((0 .. MaxTime) \X Nat)]
    BY <2>1 DEF GatewayInit, HintRecords
  <2> QED
    BY <1>0, <1>1, <2>2, <2>3 DEF GatewayTypeOK, SlotRecords, CounterRecords, HintRecords
<1>3. LogShape
  <2>1. IsFiniteSet({}) /\ Cardinality({}) = 0
    BY FS_EmptySet
  <2>2. \A r \in Replicas, k \in RateKeys : log[<<r, k>>] = {}
    BY DEF GatewayInit
  <2> QED
    BY <1>0, <2>1, <2>2 DEF LogShape
<1>4. LimiterShape
  BY DEF GatewayInit, LimiterShape
<1>5. \A s \in Slots : slot[s] = Idle /\ ~UnderWay(s) /\ slot[s].phase # "expire"
  BY DEF GatewayInit, Idle, UnderWay
<1>6. SlotShape /\ LoneShape
  BY <1>5 DEF SlotShape, LoneShape
<1>7. CounterShape
  <2>1. \A k \in RateKeys, w \in Windows : counter[<<k, w>>] = NoCounter
    BY DEF GatewayInit
  <2>2. \A k, w : Firsts(k, w) = {}
    BY <1>5 DEF Firsts
  <2>3. NoCounter.count = 0 /\ NoCounter.expires = Absent
    BY DEF NoCounter
  <2> QED
    BY <2>1, <2>2, <2>3 DEF CounterShape
<1>8. HintShape
  BY DEF GatewayInit, HintShape, HintHolds
<1> QED
  BY <1>2, <1>3, <1>4, <1>6, <1>7, <1>8 DEF GatewayInv

LEMMA GatewayStep ==
  ASSUME GatewayInv, [GatewayNext]_gatewayVars
  PROVE  GatewayInv'
<1>1. CASE UNCHANGED gatewayVars
  <2>1. UNCHANGED <<config, now, limiter, log, counter, slot, admitted, hint>>
    BY <1>1 DEF gatewayVars
  <2>2. GatewayTypeOK'
    BY <2>1 DEF GatewayInv, GatewayTypeOK, RateKeys, Windows, Identity
  <2>3. LogShape'
    BY <2>1, LogSame DEF GatewayInv
  <2>4. LimiterShape' /\ SlotShape' /\ LoneShape'
    BY <2>1 DEF GatewayInv, LimiterShape, Startable, SlotShape, LoneShape, UnderWay, RateKeys,
                Identity, Windows, WindowAt
  <2>5. CounterShape' /\ HintShape'
    <3>1. \A k, w : Firsts(k, w)' = Firsts(k, w)
      BY <2>1 DEF Firsts, WindowAt
    <3>2. CounterShape'
      BY <2>1, <3>1 DEF GatewayInv, CounterShape, Start, WindowAt
    <3>3. \A k : Outlasting(k)' = Outlasting(k)
      BY <2>1 DEF Outlasting, Later
    <3>4. HintShape'
      BY <2>1, <3>1, <3>3 DEF GatewayInv, HintShape, HintHolds, WindowAt
    <3> QED
      BY <3>2, <3>4
  <2> QED
    BY <2>2, <2>3, <2>4, <2>5 DEF GatewayInv
<1>2. CASE GatewayNext
  BY <1>2, ArriveLocalKeeps, ArriveSharedKeeps, IncrKeeps, ExpireKeeps, RedisFailsKeeps,
     PassTimeKeeps DEF GatewayNext
<1> QED
  BY <1>1, <1>2

\* The admission of requests keeps its invariant: logs within the limit,
\* counters that outlive their window, and announced waits that hold.
THEOREM GatewayInvariance == GatewaySpec => []GatewayInv
<1>1. GatewayInit => GatewayInv
  BY GatewayInitially
<1>2. GatewayInv /\ [GatewayNext]_gatewayVars => GatewayInv'
  BY GatewayStep
<1> QED
  BY <1>1, <1>2, PTL DEF GatewaySpec

\* However requests, replicas and failures of Redis interleave, a lone client
\* that waits as it is told is admitted by the limiter that refused it.
THEOREM RetriesAreAdmitted == GatewaySpec => []RetryAdmitted
<1>1. GatewayInv => RetryAdmitted
  BY HintTyped DEF GatewayInv, HintShape, HintHolds, RetryAdmitted
<1> QED
  BY <1>1, GatewayInvariance, PTL

-----------------------------------------------------------------------------
(***************************************************************************)
(* The budget of a window.                                                 *)
(*                                                                         *)
(* What the shared limiter admits is bounded by its counter, which Redis   *)
(* keeps for a second after the window.  A call that reaches Redis later   *)
(* finds it gone and starts a new count, so the budget is claimed until    *)
(* then.                                                                   *)
(***************************************************************************)
Shared == IF config.configured THEN config.limit ELSE 0

PerReplica ==
  IF config.configured /\ config.required THEN 0 ELSE config.limit * Cardinality(Replicas)

\* One token for each request that a local limiter admitted in window w.
Tokens(k, w) ==
  {x \in Replicas \X (1 .. config.limit) : x[2] <= Cardinality(EntriesOf(x[1], k, w))}

LocalPart(k, w) == IF w < WindowAt(now) THEN PerReplica ELSE Cardinality(Tokens(k, w))

Pending(k, w) == IF Firsts(k, w) = {} THEN 0 ELSE 1

\* What was admitted in a window, with the request that is about to be, is
\* covered by the shared limit and the local tokens, and by the counter and the
\* local tokens, as long as the counter is certain to exist.
BudgetHolds(k, w) ==
  now < Start(w) + 2 * Window + 2 =>
    /\ admitted[<<k, w>>] + Pending(k, w) <= Shared + LocalPart(k, w)
    /\ admitted[<<k, w>>] + Pending(k, w) <= counter[<<k, w>>].count + LocalPart(k, w)

Budgeted == \A k \in RateKeys, w \in Windows : BudgetHolds(k, w)

LEMMA EntriesFacts ==
  ASSUME GatewayTypeOK, LogShape, NEW r \in Replicas, NEW k \in RateKeys, NEW w
  PROVE  /\ EntriesOf(r, k, w) \subseteq log[<<r, k>>] /\ IsFiniteSet(EntriesOf(r, k, w))
         /\ Cardinality(EntriesOf(r, k, w)) \in Nat
<1>1. EntriesOf(r, k, w) \subseteq log[<<r, k>>] /\ IsFiniteSet(log[<<r, k>>])
  BY DEF EntriesOf, LogShape
<1> QED
  BY <1>1, FS_Subset, FS_CardinalityType

LEMMA TokensFacts ==
  ASSUME GatewayTypeOK, LogShape, NEW k \in RateKeys, NEW w
  PROVE  /\ IsFiniteSet(Tokens(k, w)) /\ Cardinality(Tokens(k, w)) \in Nat
         /\ Cardinality(Tokens(k, w)) <= PerReplica /\ PerReplica \in Nat
<1> DEFINE P == Replicas \X (1 .. config.limit)
<1>1. config.limit \in Nat /\ Cardinality(Replicas) \in Nat
  BY LimitPositive, ReplicasNamed, FS_CardinalityType
<1>2. IsFiniteSet(1 .. config.limit) /\ Cardinality(1 .. config.limit) = config.limit
  <2> DEFINE n == config.limit
  <2>1. n \in Int /\ 1 \in Int /\ n >= 1
    BY <1>1, LimitPositive
  <2> HIDE DEF n
  <2>2. IsFiniteSet(1 .. n) /\ Cardinality(1 .. n) = IF 1 > n THEN 0 ELSE n - 1 + 1
    BY <2>1, FS_Interval
  <2> QED
    BY <2>1, <2>2 DEF n
<1>3. IsFiniteSet(P) /\ Cardinality(P) = Cardinality(Replicas) * config.limit
  BY <1>2, ReplicasNamed, FS_Product
<1>4. Tokens(k, w) \subseteq P
  BY DEF Tokens
<1>5. /\ IsFiniteSet(Tokens(k, w)) /\ Cardinality(Tokens(k, w)) \in Nat
      /\ Cardinality(Tokens(k, w)) <= Cardinality(P)
  <2> HIDE DEF P
  <2> QED
    BY <1>3, <1>4, FS_Subset, FS_CardinalityType
<1>6. CASE config.configured /\ config.required
  <2>1. \A r \in Replicas : EntriesOf(r, k, w) = {}
    BY <1>6 DEF EntriesOf, LogShape
  <2>2. \A r \in Replicas : Cardinality(EntriesOf(r, k, w)) = 0
    BY <2>1, FS_EmptySet
  <2>3. Tokens(k, w) = {}
    BY <2>2, <1>1 DEF Tokens
  <2>4. Cardinality(Tokens(k, w)) = 0 /\ PerReplica = 0
    BY <2>3, <1>6, FS_EmptySet DEF PerReplica
  <2> QED
    BY <2>4, <1>5
<1>7. CASE ~(config.configured /\ config.required)
  <2>1. PerReplica = config.limit * Cardinality(Replicas)
    BY <1>7 DEF PerReplica
  <2>2. PerReplica \in Nat /\ PerReplica = Cardinality(P)
    BY <2>1, <1>1, <1>3
  <2> QED
    BY <2>2, <1>5
<1> QED
  BY <1>6, <1>7

LEMMA LocalPartFacts ==
  ASSUME GatewayTypeOK, LogShape, NEW k \in RateKeys, NEW w
  PROVE  LocalPart(k, w) \in Nat /\ LocalPart(k, w) <= PerReplica /\ PerReplica \in Nat
BY TokensFacts DEF LocalPart

\* The local part only depends on the entries of the current and later windows.
LEMMA LocalPartSame ==
  ASSUME GatewayTypeOK, LogShape, UNCHANGED <<config, now>>, NEW k \in RateKeys, NEW w,
         ~(w < WindowAt(now)) => \A r \in Replicas : EntriesOf(r, k, w)' = EntriesOf(r, k, w)
  PROVE  LocalPart(k, w)' = LocalPart(k, w)
<1>1. PerReplica' = PerReplica /\ WindowAt(now)' = WindowAt(now)
  BY DEF PerReplica, WindowAt
<1>2. CASE w < WindowAt(now)
  BY <1>1, <1>2 DEF LocalPart
<1>3. CASE ~(w < WindowAt(now))
  <2>1. Tokens(k, w)' = Tokens(k, w)
    BY <1>3 DEF Tokens
  <2> QED
    BY <1>1, <1>3, <2>1 DEF LocalPart
<1> QED
  BY <1>2, <1>3

\* The entries of the current window are active, now and a moment later when the
\* window lasts.
LEMMA CurrentEntries ==
  ASSUME GatewayTypeOK, LogShape, NEW r \in Replicas, NEW k \in RateKeys, NEW w \in Windows,
         NEW t \in Nat, now <= t, ~(w < WindowAt(t))
  PROVE  {e \in log[<<r, k>>] : e[1] + 2 * Window > t /\ WindowAt(e[1]) = w} = EntriesOf(r, k, w)
<1> SUFFICES ASSUME NEW e \in log[<<r, k>>], WindowAt(e[1]) = w
             PROVE  e[1] + 2 * Window > t
  BY DEF EntriesOf
<1>1. e[1] \in Nat /\ e[1] <= now /\ now \in Nat
  BY LogTyped DEF LogShape
<1>2. e[1] <= t /\ WindowAt(e[1]) >= WindowAt(t)
  BY <1>1, WindowFacts
<1>3. t - e[1] < 2 * Window
  BY <1>1, <1>2, SameWindow
<1> QED
  BY <1>1, <1>3, WindowPositive

LEMMA RefusalLocalPart ==
  ASSUME GatewayTypeOK, LogShape, NEW s \in Slots, NEW d, Deciding(s, d), LocalRefusal(s, d),
         NEW k \in RateKeys, NEW w \in Windows
  PROVE  LocalPart(k, w)' = LocalPart(k, w)
<1>1. UNCHANGED <<config, now>> /\ d.replica \in Replicas /\ d.key \in RateKeys /\ now \in Nat
  BY DecidingTyped DEF LocalRefusal, Decision
<1>2. /\ log'[<<d.replica, d.key>>] = Active(d.replica, d.key)
      /\ \A q \in Replicas, l \in RateKeys :
           q # d.replica \/ l # d.key => log'[<<q, l>>] = log[<<q, l>>]
  BY RefusalLog
<1>3. ASSUME ~(w < WindowAt(now)), NEW r \in Replicas
      PROVE  EntriesOf(r, k, w)' = EntriesOf(r, k, w)
  <2>0. EntriesOf(r, k, w)' = {e \in log'[<<r, k>>] : WindowAt(e[1]) = w}
    BY DEF EntriesOf, WindowAt
  <2>1. CASE r = d.replica /\ k = d.key
    <3>1. log'[<<r, k>>] = {e \in log[<<r, k>>] : e[1] + 2 * Window > now}
      BY <2>1, <1>1, <1>2, ActiveFacts
    <3>2. now <= now
      BY <1>1
    <3>3. {e \in log[<<r, k>>] : e[1] + 2 * Window > now /\ WindowAt(e[1]) = w} = EntriesOf(r, k, w)
      BY <3>2, <1>1, <1>3, CurrentEntries
    <3> QED
      BY <2>0, <3>1, <3>3
  <2>2. CASE r # d.replica \/ k # d.key
    BY <2>0, <2>2, <1>2 DEF EntriesOf
  <2> QED
    BY <2>1, <2>2
<1> QED
  BY <1>1, <1>3, LocalPartSame

\* A local limiter that admits a request spends one token of the current window.
LEMMA PassLocalPart ==
  ASSUME GatewayTypeOK, LogShape, NEW s \in Slots, NEW d, Deciding(s, d), LocalPass(s, d),
         NEW k \in RateKeys, NEW w \in Windows
  PROVE  LocalPart(k, w)' = LocalPart(k, w) + IF k = d.key /\ w = WindowAt(now) THEN 1 ELSE 0
<1> DEFINE p == d.replica
<1>1. /\ UNCHANGED <<config, now>> /\ p \in Replicas /\ d.key \in RateKeys /\ now \in Nat
      /\ WindowAt(now) \in Nat /\ now <= now /\ w \in Nat
  BY DecidingTyped, WindowsNat DEF LocalPass, Decision
<1>2. /\ log'[<<p, d.key>>] = Appended(Active(p, d.key)) /\ LogShape'
      /\ \A q \in Replicas, l \in RateKeys :
           q # p \/ l # d.key => log'[<<q, l>>] = log[<<q, l>>]
  BY PassLog
<1> HIDE DEF p
<1>3. PICK e : /\ e \notin Active(p, d.key) /\ e[1] = now
               /\ Appended(Active(p, d.key)) = Active(p, d.key) \cup {e}
  BY <1>1, AppendedFacts
<1>4. Active(p, d.key) = {x \in log[<<p, d.key>>] : x[1] + 2 * Window > now}
  BY <1>1, ActiveFacts
<1>5. ASSUME ~(w < WindowAt(now)), NEW r \in Replicas, r # p \/ k # d.key \/ w # WindowAt(now)
      PROVE  EntriesOf(r, k, w)' = EntriesOf(r, k, w)
  <2>0. EntriesOf(r, k, w)' = {x \in log'[<<r, k>>] : WindowAt(x[1]) = w}
    BY DEF EntriesOf, WindowAt
  <2>1. CASE r = p /\ k = d.key
    <3>1. w # WindowAt(now)
      BY <2>1, <1>5
    <3>2. EntriesOf(r, k, w)' = {x \in Active(r, k) : WindowAt(x[1]) = w}
      BY <2>0, <2>1, <3>1, <1>2, <1>3
    <3>3. {x \in log[<<r, k>>] : x[1] + 2 * Window > now /\ WindowAt(x[1]) = w} = EntriesOf(r, k, w)
      BY <1>1, <1>5, CurrentEntries
    <3> QED
      BY <2>1, <3>2, <3>3, <1>4
  <2>2. CASE r # p \/ k # d.key
    BY <2>0, <2>2, <1>2 DEF EntriesOf
  <2> QED
    BY <2>1, <2>2
<1>6. CASE k = d.key /\ w = WindowAt(now)
  <2> DEFINE E == EntriesOf(p, k, w)
             n == Cardinality(E)
  <2>1. IsFiniteSet(E) /\ n \in Nat
    BY <1>1, EntriesFacts
  <2>2. EntriesOf(p, k, w)' = E \cup {e} /\ e \notin E
    <3>0. EntriesOf(p, k, w)' = {x \in log'[<<p, k>>] : WindowAt(x[1]) = w}
      BY DEF EntriesOf, WindowAt
    <3>1. ~(w < WindowAt(now))
      BY <1>1, <1>6
    <3>2. {x \in log[<<p, k>>] : x[1] + 2 * Window > now /\ WindowAt(x[1]) = w} = E
      BY <3>1, <1>1, CurrentEntries
    <3>3. E = {x \in Active(p, k) : WindowAt(x[1]) = w}
      BY <3>2, <1>4, <1>6
    <3> HIDE DEF E
    <3> QED
      BY <3>0, <3>3, <1>2, <1>3, <1>6
  <2> HIDE DEF E
  <2>3. Cardinality(E \cup {e}) = n + 1
    BY <2>1, <2>2, FS_AddElement
  <2>4. n + 1 <= config.limit /\ config.limit \in Nat
    <3>1. IsFiniteSet(log'[<<p, k>>]) /\ Cardinality(log'[<<p, k>>]) <= config.limit
      BY <1>1, <1>2, <1>6 DEF LogShape
    <3>2. E \cup {e} \subseteq log'[<<p, k>>]
      BY <2>2 DEF EntriesOf
    <3>3. Cardinality(E \cup {e}) <= Cardinality(log'[<<p, k>>])
      BY <3>1, <3>2, FS_Subset
    <3> QED
      BY <3>1, <3>3, <2>1, <2>3, LimitPositive, FS_CardinalityType
  <2>5. Tokens(k, w)' = Tokens(k, w) \cup {<<p, n + 1>>}
    <3>1. \A r \in Replicas : Cardinality(EntriesOf(r, k, w)') =
                                IF r = p THEN n + 1 ELSE Cardinality(EntriesOf(r, k, w))
      <4>1. \A r \in Replicas \ {p} : EntriesOf(r, k, w)' = EntriesOf(r, k, w)
        BY <1>1, <1>5, <1>6
      <4> QED
        BY <2>2, <2>3, <4>1
    <3>2. Tokens(k, w)' = {x \in Replicas \X (1 .. config.limit) :
                             x[2] <= IF x[1] = p THEN n + 1 ELSE Cardinality(EntriesOf(x[1], k, w))}
      <4>1. Tokens(k, w)' = {x \in Replicas \X (1 .. config.limit) :
                             x[2] <= Cardinality(EntriesOf(x[1], k, w)')}
        BY <1>1 DEF Tokens
      <4> QED
        BY <3>1, <4>1
    <3>3. Cardinality(EntriesOf(p, k, w)) = n
      BY DEF E
    <3> HIDE DEF n
    <3>4. ASSUME NEW x \in Replicas \X (1 .. config.limit)
          PROVE  x \in Tokens(k, w)' <=> x \in Tokens(k, w) \cup {<<p, n + 1>>}
      <4>1. x = <<x[1], x[2]>> /\ x[2] \in Nat
        BY <2>4
      <4>2. CASE x[1] = p
        <5>1. x[2] <= n + 1 <=> x[2] <= n \/ x[2] = n + 1
          BY <2>1, <4>1
        <5> QED
          BY <3>2, <3>3, <4>1, <4>2, <5>1 DEF Tokens
      <4>3. CASE x[1] # p
        BY <3>2, <4>1, <4>3 DEF Tokens
      <4> QED
        BY <4>2, <4>3
    <3>5. <<p, n + 1>> \in Replicas \X (1 .. config.limit)
      BY <1>1, <2>1, <2>4
    <3>6. Tokens(k, w)' \subseteq Replicas \X (1 .. config.limit)
          /\ Tokens(k, w) \subseteq Replicas \X (1 .. config.limit)
      BY <3>2 DEF Tokens
    <3> QED
      BY <3>4, <3>5, <3>6
  <2>6. <<p, n + 1>> \notin Tokens(k, w)
    BY <2>1 DEF Tokens, E
  <2>7. Cardinality(Tokens(k, w)') = Cardinality(Tokens(k, w)) + 1
    BY <2>5, <2>6, TokensFacts, FS_AddElement
  <2>8. LocalPart(k, w)' = Cardinality(Tokens(k, w)') /\ LocalPart(k, w) = Cardinality(Tokens(k, w))
    BY <1>1, <1>6 DEF LocalPart, WindowAt
  <2> QED
    BY <1>6, <2>7, <2>8
<1>7. CASE ~(k = d.key /\ w = WindowAt(now))
  <2>1. ~(w < WindowAt(now)) => \A r \in Replicas : EntriesOf(r, k, w)' = EntriesOf(r, k, w)
    BY <1>5, <1>7
  <2>2. LocalPart(k, w)' = LocalPart(k, w)
    BY <1>1, <2>1, LocalPartSame
  <2> QED
    BY <2>2, <1>7, LocalPartFacts
<1> QED
  BY <1>6, <1>7

LEMMA PendingFacts == \A k, w : Pending(k, w) \in {0, 1}
BY DEF Pending

\* A step that adds to the budget of a window what it admits, and takes nothing
\* from its counter, keeps the budget.
LEMMA BudgetFrame ==
  ASSUME GatewayInv, GatewayInv', NEW k \in RateKeys, NEW w \in Windows, NEW x \in Nat,
         BudgetHolds(k, w), UNCHANGED <<config, now>>,
         LocalPart(k, w)' = LocalPart(k, w) + x,
         admitted'[<<k, w>>] + Pending(k, w)' <= admitted[<<k, w>>] + Pending(k, w) + x,
         counter'[<<k, w>>].count >= counter[<<k, w>>].count
  PROVE  BudgetHolds(k, w)'
<1> DEFINE L == LocalPart(k, w)
           A == admitted[<<k, w>>]
           c == counter[<<k, w>>].count
<1>1. L \in Nat /\ A \in Nat /\ c \in Nat /\ Shared \in Nat
  <2>1. GatewayTypeOK /\ LogShape
    BY DEF GatewayInv
  <2>2. A \in Nat
    BY <2>1 DEF GatewayTypeOK
  <2> QED
    BY <2>1, <2>2, LocalPartFacts, CounterTyped, LimitPositive DEF Shared
<1>2. admitted'[<<k, w>>] \in Nat /\ counter'[<<k, w>>].count \in Nat
  <2>1. GatewayTypeOK' /\ config' = config /\ config.limit \in Nat
    BY LimitPositive DEF GatewayInv
  <2>2. admitted'[<<k, w>>] \in Nat /\ counter'[<<k, w>>] \in CounterRecords(config.limit)
    BY <2>1 DEF GatewayTypeOK, CounterRecords, RateKeys, Identity, Windows
  <2> QED
    BY <2>1, <2>2 DEF CounterRecords
<1>3. Shared' = Shared /\ (Start(w) + 2 * Window + 2)' = Start(w) + 2 * Window + 2
  BY DEF Shared, Start
<1>4. Pending(k, w) \in {0, 1} /\ Pending(k, w)' \in {0, 1}
  BY PendingFacts DEF Pending
<1>5. now < Start(w) + 2 * Window + 2 =>
        A + Pending(k, w) <= Shared + L /\ A + Pending(k, w) <= c + L
  BY DEF BudgetHolds
<1> HIDE DEF L, A, c
<1>6. admitted'[<<k, w>>] + Pending(k, w)' <= A + Pending(k, w) + x /\ LocalPart(k, w)' = L + x
      /\ counter'[<<k, w>>].count >= c
  BY DEF A, L, c
<1>7. now < Start(w) + 2 * Window + 2 =>
        admitted'[<<k, w>>] + Pending(k, w)' <= Shared + (L + x)
  BY <1>1, <1>2, <1>4, <1>5, <1>6
<1>8. now < Start(w) + 2 * Window + 2 =>
        admitted'[<<k, w>>] + Pending(k, w)' <= counter'[<<k, w>>].count + (L + x)
  BY <1>1, <1>2, <1>4, <1>5, <1>6
<1> QED
  BY <1>3, <1>6, <1>7, <1>8 DEF BudgetHolds

\* A decision ends what was pending; the counters do not go down.
LEMMA DecisionBudget ==
  ASSUME GatewayTypeOK, NEW s \in Slots, NEW d, NEW h, Deciding(s, d), Decision(s, d, h),
         NEW k \in RateKeys, NEW w \in Windows
  PROVE  /\ Pending(k, w)' <= Pending(k, w)
         /\ counter'[<<k, w>>].count >= counter[<<k, w>>].count
<1>1. slot' = [slot EXCEPT ![s] = Idle] /\ CounterStep(s, d)
  BY DEF Decision
<1>2. Firsts(k, w)' = Firsts(k, w) \ {s}
  BY <1>1, FreedFacts
<1>3. Pending(k, w)' <= Pending(k, w)
  BY <1>2 DEF Pending
<1> QED
  BY <1>1, <1>3, CounterStepAt

LEMMA LocalBudget ==
  ASSUME GatewayInv, GatewayInv', Budgeted, NEW s \in Slots, NEW d, Deciding(s, d),
         LocalRefusal(s, d) \/ LocalPass(s, d) \/ Unavailable(s, d)
  PROVE  Budgeted'
<1>0. GatewayTypeOK /\ LogShape
  BY DEF GatewayInv
<1> SUFFICES ASSUME NEW k \in RateKeys, NEW w \in Windows PROVE BudgetHolds(k, w)'
  BY DEF Budgeted, RateKeys, Identity, Windows
<1>1. BudgetHolds(k, w) /\ admitted[<<k, w>>] \in Nat /\ admitted \in [RateKeys \X Windows -> Nat]
  BY <1>0 DEF Budgeted, GatewayTypeOK
<1>2. PICK h : Decision(s, d, h)
  BY DEF LocalRefusal, LocalPass, Unavailable
<1>3. /\ Pending(k, w)' <= Pending(k, w)
      /\ counter'[<<k, w>>].count >= counter[<<k, w>>].count
      /\ Pending(k, w)' \in {0, 1} /\ Pending(k, w) \in {0, 1}
      /\ UNCHANGED <<config, now>>
  <2>1. Pending(k, w)' <= Pending(k, w) /\ counter'[<<k, w>>].count >= counter[<<k, w>>].count
    BY <1>0, <1>2, DecisionBudget
  <2> QED
    BY <2>1, <1>2 DEF Pending, Decision
<1>4. CASE LocalRefusal(s, d) \/ Unavailable(s, d)
  <2>1. admitted' = admitted
    BY <1>4 DEF LocalRefusal, Unavailable
  <2>2. LocalPart(k, w)' = LocalPart(k, w) + 0
    <3>1. CASE LocalRefusal(s, d)
      BY <3>1, <1>0, RefusalLocalPart, LocalPartFacts
    <3>2. CASE Unavailable(s, d)
      <4>1. \A r \in Replicas : EntriesOf(r, k, w)' = EntriesOf(r, k, w)
        BY <3>2 DEF Unavailable, EntriesOf, WindowAt
      <4>2. LocalPart(k, w)' = LocalPart(k, w)
        BY <4>1, <1>0, <1>3, LocalPartSame
      <4> QED
        BY <4>2, <1>0, LocalPartFacts
    <3> QED
      BY <1>4, <3>1, <3>2
  <2>3. admitted'[<<k, w>>] + Pending(k, w)' <= admitted[<<k, w>>] + Pending(k, w) + 0
    BY <2>1, <1>1, <1>3
  <2> QED
    BY <2>2, <2>3, <1>1, <1>3, BudgetFrame
<1>5. CASE LocalPass(s, d)
  <2> DEFINE x == IF k = d.key /\ w = WindowAt(now) THEN 1 ELSE 0
  <2>1. LocalPart(k, w)' = LocalPart(k, w) + x /\ x \in Nat
    BY <1>0, <1>5, PassLocalPart
  <2>2. admitted'[<<k, w>>] = admitted[<<k, w>>] + x
    <3>1. /\ admitted' = [admitted EXCEPT ![<<d.key, WindowAt(now)>>] = @ + 1]
          /\ d.key \in RateKeys /\ WindowAt(now) \in Windows
      BY <1>0, <1>5, DecidingTyped DEF LocalPass
    <3>2. /\ admitted'[<<d.key, WindowAt(now)>>] = admitted[<<d.key, WindowAt(now)>>] + 1
          /\ \A l \in RateKeys, v \in Windows : l # d.key \/ v # WindowAt(now)
               => admitted'[<<l, v>>] = admitted[<<l, v>>]
      BY <1>0, <3>1, AdmittedTyped
    <3> QED
      BY <3>2, <1>1
  <2>3. admitted'[<<k, w>>] + Pending(k, w)' <= admitted[<<k, w>>] + Pending(k, w) + x
    BY <2>1, <2>2, <1>1, <1>3
  <2> HIDE DEF x
  <2> QED
    BY <2>1, <2>3, <1>1, <1>3, BudgetFrame
<1> QED
  BY <1>4, <1>5

LEMMA ExpireBudget ==
  ASSUME GatewayInv, GatewayInv', Budgeted, NEW s \in Slots, Expire(s)
  PROVE  Budgeted'
<1> DEFINE d == slot[s]
<1>0. GatewayTypeOK /\ LogShape /\ CounterShape
  BY DEF GatewayInv
<1> SUFFICES ASSUME NEW k \in RateKeys, NEW w \in Windows PROVE BudgetHolds(k, w)'
  BY DEF Budgeted, RateKeys, Identity, Windows
<1>1. BudgetHolds(k, w) /\ admitted[<<k, w>>] \in Nat
  BY <1>0 DEF Budgeted, GatewayTypeOK
<1>2. Deciding(s, d) /\ d.phase = "expire" /\ SharedPass(s, d)
  BY ExpireOutcome
<1>3. /\ Decision(s, d, Absent) /\ UNCHANGED <<log, config, now>>
      /\ slot' = [slot EXCEPT ![s] = Idle]
      /\ admitted' = [admitted EXCEPT ![<<d.key, WindowAt(d.at)>>] = @ + 1]
      /\ d.key \in RateKeys /\ WindowAt(d.at) \in Windows
  BY <1>0, <1>2, DecidingTyped DEF SharedPass, Decision
<1>4. /\ Pending(k, w)' <= Pending(k, w)
      /\ counter'[<<k, w>>].count >= counter[<<k, w>>].count
  BY <1>0, <1>2, <1>3, DecisionBudget
<1>5. LocalPart(k, w)' = LocalPart(k, w) + 0
  <2>1. \A r \in Replicas : EntriesOf(r, k, w)' = EntriesOf(r, k, w)
    BY <1>3 DEF EntriesOf, WindowAt
  <2>2. LocalPart(k, w)' = LocalPart(k, w)
    BY <2>1, <1>0, <1>3, LocalPartSame
  <2> QED
    BY <2>2, <1>0, LocalPartFacts
<1>6. /\ admitted'[<<d.key, WindowAt(d.at)>>] = admitted[<<d.key, WindowAt(d.at)>>] + 1
      /\ \A l \in RateKeys, v \in Windows : l # d.key \/ v # WindowAt(d.at)
           => admitted'[<<l, v>>] = admitted[<<l, v>>]
  BY <1>0, <1>3, AdmittedTyped
<1>7. admitted'[<<k, w>>] + Pending(k, w)' <= admitted[<<k, w>>] + Pending(k, w) + 0
  <2>1. CASE k = d.key /\ w = WindowAt(d.at)
    <3>1. s \in Firsts(k, w)
      BY <2>1, <1>2 DEF Firsts
    <3>2. Firsts(k, w) = {s}
      BY <3>1, <1>0 DEF CounterShape
    <3>3. Firsts(k, w)' = {}
      <4>1. \A l, u : Firsts(l, u)' = Firsts(l, u) \ {s}
        BY <1>0, <1>3, FreedFacts
      <4> QED
        BY <3>2, <4>1
    <3>4. Pending(k, w) = 1 /\ Pending(k, w)' = 0
      BY <3>1, <3>3 DEF Pending
    <3> QED
      BY <2>1, <3>4, <1>1, <1>6
  <2>2. CASE ~(k = d.key /\ w = WindowAt(d.at))
    <3>1. admitted'[<<k, w>>] = admitted[<<k, w>>]
      BY <2>2, <1>6
    <3>2. Pending(k, w)' \in {0, 1} /\ Pending(k, w) \in {0, 1}
      BY DEF Pending
    <3> QED
      BY <3>1, <3>2, <1>1, <1>4
  <2> QED
    BY <2>1, <2>2
<1> QED
  BY <1>1, <1>3, <1>4, <1>5, <1>7, BudgetFrame

\* INCR takes from the counter what it admits or makes pending.
LEMMA IncrBudget ==
  ASSUME GatewayInv, GatewayInv', Budgeted, NEW s \in Slots, Incr(s)
  PROVE  Budgeted'
<1> DEFINE d == slot[s]
           v == WindowAt(d.at)
           c == Incremented(Counter(d))
<1>0. GatewayTypeOK /\ LogShape /\ CounterShape /\ SlotShape
  BY DEF GatewayInv
<1> SUFFICES ASSUME NEW k \in RateKeys, NEW w \in Windows PROVE BudgetHolds(k, w)'
  BY DEF Budgeted, RateKeys, Identity, Windows
<1>1. /\ BudgetHolds(k, w) /\ admitted[<<k, w>>] \in Nat /\ counter[<<k, w>>].count \in Nat
      /\ Pending(k, w) \in {0, 1} /\ Pending(k, w)' \in {0, 1}
      /\ LocalPart(k, w) \in Nat
      /\ config.limit \in Nat /\ config.limit >= 1
  <2>1. admitted[<<k, w>>] \in Nat
    BY <1>0 DEF GatewayTypeOK
  <2>2. Pending(k, w) \in {0, 1} /\ Pending(k, w)' \in {0, 1}
    BY DEF Pending
  <2> QED
    BY <2>1, <2>2, <1>0, CounterTyped, LocalPartFacts, LimitPositive DEF Budgeted
<1>2. /\ Deciding(s, d) /\ UnderWay(s) /\ d.phase = "incr"
      /\ \/ FirstOfWindow(s, d)
         \/ SharedPass(s, d) /\ c.count <= config.limit /\ Counted(d, c)
         \/ SharedRefusal(s, d)
  BY IncrOutcomes
<1>3. /\ d.key \in RateKeys /\ v \in Windows /\ config.configured
  BY <1>0, <1>2, DecidingTyped DEF SlotShape
<1>4. UNCHANGED <<config, now, log>>
  BY <1>2 DEF FirstOfWindow, SharedPass, SharedRefusal, Decision
<1>5. LocalPart(k, w)' = LocalPart(k, w) + 0 /\ LocalPart(k, w)' = LocalPart(k, w)
  <2>1. \A r \in Replicas : EntriesOf(r, k, w)' = EntriesOf(r, k, w)
    BY <1>4 DEF EntriesOf, WindowAt
  <2>2. LocalPart(k, w)' = LocalPart(k, w)
    BY <2>1, <1>0, <1>4, LocalPartSame
  <2> QED
    BY <2>2, <1>0, LocalPartFacts
<1>6. CounterStep(s, d)
  BY <1>2 DEF FirstOfWindow, SharedPass, SharedRefusal, Decision, CounterStep, Counted
<1>7. counter'[<<k, w>>].count >= counter[<<k, w>>].count
  <2> HIDE DEF d
  <2> QED
    BY <1>0, <1>2, <1>6, CounterStepAt
<1>8. CASE ~(k = d.key /\ w = v) \/ SharedRefusal(s, d)
  <2>1. admitted'[<<k, w>>] = admitted[<<k, w>>]
    <3>1. CASE SharedRefusal(s, d) \/ FirstOfWindow(s, d)
      BY <3>1 DEF SharedRefusal, FirstOfWindow
    <3>2. CASE SharedPass(s, d) /\ ~(k = d.key /\ w = v)
      <4>1. admitted' = [admitted EXCEPT ![<<d.key, WindowAt(d.at)>>] = @ + 1]
        BY <3>2 DEF SharedPass
      <4>2. \A l \in RateKeys, u \in Windows : l # d.key \/ u # WindowAt(d.at)
               => admitted'[<<l, u>>] = admitted[<<l, u>>]
        BY <4>1, <1>0, <1>3, AdmittedTyped
      <4> QED
        BY <3>2, <4>2
    <3>3. CASE SharedPass(s, d) /\ SharedRefusal(s, d)
      BY <3>1, <3>3
    <3> QED
      BY <1>2, <1>8, <3>1, <3>2, <3>3
  <2>2. Pending(k, w)' <= Pending(k, w)
    <3>1. CASE FirstOfWindow(s, d)
      <4>1. slot' = [slot EXCEPT ![s].phase = "expire"]
        BY <3>1 DEF FirstOfWindow
      <4>2. CASE ~(k = d.key /\ w = v)
        <5>1. \A l, u : Firsts(l, u)' = IF l = slot[s].key /\ u = WindowAt(slot[s].at)
                                        THEN Firsts(l, u) \cup {s} ELSE Firsts(l, u)
          BY <4>1, <1>0, <1>2, FirstSlots
        <5>2. Firsts(k, w)' = Firsts(k, w)
          BY <4>2, <5>1
        <5> QED
          BY <5>2 DEF Pending
      <4>3. CASE SharedRefusal(s, d)
        <5>1. Incremented(Counter(d)).count = 1 /\ Incremented(Counter(d)).count > config.limit
          BY <3>1, <4>3 DEF FirstOfWindow, SharedRefusal
        <5> QED
          BY <5>1, <1>1
      <4> QED
        BY <1>8, <4>2, <4>3
    <3>2. CASE SharedPass(s, d) \/ SharedRefusal(s, d)
      <4>1. PICK h : Decision(s, d, h)
        BY <3>2 DEF SharedPass, SharedRefusal
      <4> HIDE DEF d
      <4> QED
        BY <4>1, <1>0, <1>2, DecisionBudget
    <3> QED
      BY <1>2, <3>1, <3>2
  <2>3. admitted'[<<k, w>>] + Pending(k, w)' <= admitted[<<k, w>>] + Pending(k, w) + 0
    BY <2>1, <2>2, <1>1
  <2> QED
    BY <2>3, <1>1, <1>4, <1>5, <1>7, BudgetFrame
<1>9. CASE k = d.key /\ w = v /\ ~SharedRefusal(s, d) /\ now < Start(v) + 2 * Window + 2
  <2>1. counter' = [counter EXCEPT ![<<k, w>>] = c]
    BY <1>2, <1>9 DEF FirstOfWindow, Counted
  <2>2. counter'[<<k, w>>] = c
    <3>1. <<k, w>> \in RateKeys \X Windows
          /\ counter \in [RateKeys \X Windows -> CounterRecords(config.limit)]
      BY <1>0 DEF GatewayTypeOK, CounterRecords
    <3> HIDE DEF c
    <3> QED
      BY <2>1, <3>1
  <2>3. c.count <= config.limit
    <3>1. CASE FirstOfWindow(s, d)
      BY <3>1, <1>1 DEF FirstOfWindow
    <3>2. CASE ~FirstOfWindow(s, d)
      BY <3>2, <1>2, <1>9
    <3> QED
      BY <3>1, <3>2
  <2>4. c.count = counter[<<k, w>>].count + 1
    <3>1. c = Incremented(counter[<<k, w>>])
      BY <1>9 DEF Counter
    <3> HIDE DEF c
    <3>2. c.count = IF counter[<<k, w>>].count > config.limit THEN counter[<<k, w>>].count
                    ELSE counter[<<k, w>>].count + 1
      BY <3>1, <1>0, IncrementedFacts
    <3> QED
      BY <3>2, <2>3, <1>1
  <2>5. admitted'[<<k, w>>] + Pending(k, w)' <= admitted[<<k, w>>] + Pending(k, w) + 1
    <3>1. CASE FirstOfWindow(s, d)
      <4>1. admitted'[<<k, w>>] = admitted[<<k, w>>]
        BY <3>1 DEF FirstOfWindow
      <4> QED
        BY <4>1, <1>1
    <3>2. CASE SharedPass(s, d)
      <4>1. Decision(s, d, Absent) /\ admitted' = [admitted EXCEPT ![<<k, w>>] = @ + 1]
        BY <3>2, <1>9 DEF SharedPass
      <4>2. admitted'[<<k, w>>] = admitted[<<k, w>>] + 1
        BY <4>1, <1>0, AdmittedTyped
      <4>3. Pending(k, w)' <= Pending(k, w)
        <5> HIDE DEF d
        <5> QED
          BY <4>1, <1>0, <1>2, DecisionBudget
      <4> QED
        BY <4>2, <4>3, <1>1
    <3> QED
      BY <1>2, <1>9, <3>1, <3>2
  <2>6. admitted[<<k, w>>] + Pending(k, w) <= counter[<<k, w>>].count + LocalPart(k, w)
    BY <1>1, <1>3, <1>9 DEF BudgetHolds
  <2>7. admitted'[<<k, w>>] \in Nat
    <3>1. GatewayTypeOK'
      BY DEF GatewayInv
    <3> QED
      BY <3>1 DEF GatewayTypeOK, RateKeys, Identity, Windows
  <2> HIDE DEF c
  <2>8. admitted'[<<k, w>>] + Pending(k, w)' <= c.count + LocalPart(k, w)
    BY <2>4, <2>5, <2>6, <2>7, <1>1
  <2>9. Shared' = config.limit
    BY <1>3, <1>4 DEF Shared
  <2>10. admitted'[<<k, w>>] + Pending(k, w)' <= config.limit + LocalPart(k, w)
    BY <2>3, <2>4, <2>7, <2>8, <1>1
  <2> QED
    BY <2>2, <2>8, <2>9, <2>10, <1>5 DEF BudgetHolds
<1>10. CASE k = d.key /\ w = v /\ ~(now < Start(v) + 2 * Window + 2)
  BY <1>4, <1>10 DEF BudgetHolds, Start
<1> QED
  BY <1>8, <1>9, <1>10

LEMMA ArriveSharedBudget ==
  ASSUME GatewayInv, GatewayInv', Budgeted, NEW s \in Slots, NEW r \in Replicas, NEW call \in Calls,
         ArriveShared(s, r, call)
  PROVE  Budgeted'
<1> DEFINE d == Incoming(s, r, call)
           i == Identity(call)
<1>0. GatewayTypeOK /\ LogShape
  BY DEF GatewayInv
<1>1. /\ ~UnderWay(s) /\ ~Denied(call) /\ slot' = [Crowded(i) EXCEPT ![s] = d]
      /\ UNCHANGED <<config, now, log, counter, admitted>>
  BY DEF ArriveShared
<1>2. Deciding(s, d) /\ d.phase = "incr"
  BY <1>0, <1>1, IncomingDecided
<1> HIDE DEF d, i
<1>3. d \in SlotRecords
  BY <1>2 DEF Deciding, SlotRecords
<1>4. \A k, w : Firsts(k, w)' = Firsts(k, w)
  BY <1>0, <1>1, <1>2, <1>3, CrowdedFacts
<1>5. ASSUME NEW k \in RateKeys, NEW w \in Windows PROVE BudgetHolds(k, w)'
  <2>1. BudgetHolds(k, w) /\ Pending(k, w)' = Pending(k, w)
    BY <1>4 DEF Budgeted, Pending
  <2>2. LocalPart(k, w)' = LocalPart(k, w)
    <3>1. \A q \in Replicas : EntriesOf(q, k, w)' = EntriesOf(q, k, w)
      BY <1>1 DEF EntriesOf, WindowAt
    <3> QED
      BY <3>1, <1>0, <1>1, LocalPartSame
  <2> QED
    BY <2>1, <2>2, <1>1 DEF BudgetHolds, Shared, Start
<1> QED
  BY <1>5 DEF Budgeted, RateKeys, Identity, Windows

\* A counter that Redis drops belongs to a window that is over by a second.
LEMMA PassTimeBudget ==
  ASSUME GatewayInv, GatewayInv', Budgeted, PassTime
  PROVE  Budgeted'
<1>0. GatewayTypeOK /\ LogShape /\ CounterShape
  BY DEF GatewayInv
<1> SUFFICES ASSUME NEW k \in RateKeys, NEW w \in Windows PROVE BudgetHolds(k, w)'
  BY DEF Budgeted, RateKeys, Identity, Windows
<1>1. /\ now' = now + 1 /\ now \in Nat /\ UNCHANGED <<config, slot>>
      /\ admitted' \in [RateKeys \X Windows -> Nat]
  BY <1>0, TimePasses
<1>2. /\ \A r \in Replicas, l \in RateKeys :
           log'[<<r, l>>] = {e \in log[<<r, l>>] : e[1] + 2 * Window > now + 1}
      /\ \A l \in RateKeys, v \in Windows :
           counter'[<<l, v>>] = IF counter[<<l, v>>].expires = now + 1 THEN NoCounter
                                ELSE counter[<<l, v>>]
      /\ \A l \in RateKeys, v \in Windows : admitted'[<<l, v>>] <= admitted[<<l, v>>]
  BY <1>0, TimePasses
<1>3. /\ Shared' = Shared /\ PerReplica' = PerReplica /\ Pending(k, w)' = Pending(k, w)
      /\ Pending(k, w) \in {0, 1}
  BY <1>1 DEF Shared, PerReplica, Pending, Firsts, WindowAt
<1>4. /\ admitted[<<k, w>>] \in Nat /\ admitted'[<<k, w>>] \in Nat
      /\ admitted'[<<k, w>>] <= admitted[<<k, w>>]
      /\ Shared \in Nat /\ counter[<<k, w>>].count \in Nat
      /\ LocalPart(k, w) \in Nat /\ LocalPart(k, w) <= PerReplica /\ PerReplica \in Nat
      /\ w \in Nat /\ WindowAt(now) \in Nat /\ WindowAt(now + 1) \in Nat
      /\ WindowAt(now) <= WindowAt(now + 1)
  <2>1. admitted[<<k, w>>] \in Nat /\ admitted'[<<k, w>>] \in Nat
    BY <1>0, <1>1 DEF GatewayTypeOK
  <2>2. Shared \in Nat
    BY <1>0, LimitPositive DEF Shared
  <2>3. WindowAt(now) \in Nat /\ WindowAt(now + 1) \in Nat /\ WindowAt(now) <= WindowAt(now + 1)
    BY <1>1, WindowFacts, WindowMono
  <2> QED
    BY <2>1, <2>2, <2>3, <1>0, <1>2, CounterTyped, LocalPartFacts, WindowsNat
<1>5. LocalPart(k, w)' \in Nat /\ LocalPart(k, w)' >= LocalPart(k, w)
  <2>0. LocalPart(k, w)' = IF w < WindowAt(now + 1) THEN PerReplica ELSE Cardinality(Tokens(k, w)')
    BY <1>1, <1>3 DEF LocalPart, WindowAt
  <2>1. CASE w < WindowAt(now + 1)
    BY <2>0, <2>1, <1>4
  <2>2. CASE ~(w < WindowAt(now + 1))
    <3>1. \A r \in Replicas : EntriesOf(r, k, w)' = EntriesOf(r, k, w)
      <4> SUFFICES ASSUME NEW r \in Replicas PROVE EntriesOf(r, k, w)' = EntriesOf(r, k, w)
        OBVIOUS
      <4>1. EntriesOf(r, k, w)' = {e \in log'[<<r, k>>] : WindowAt(e[1]) = w}
        BY DEF EntriesOf, WindowAt
      <4>2. now + 1 \in Nat /\ now <= now + 1
        BY <1>1
      <4>3. {e \in log[<<r, k>>] : e[1] + 2 * Window > now + 1 /\ WindowAt(e[1]) = w}
              = EntriesOf(r, k, w)
        BY <1>0, <2>2, <4>2, CurrentEntries
      <4> QED
        BY <4>1, <4>3, <1>2
    <3>2. Tokens(k, w)' = Tokens(k, w)
      BY <3>1, <1>1 DEF Tokens
    <3>3. ~(w < WindowAt(now))
      BY <2>2, <1>4
    <3>4. LocalPart(k, w)' = LocalPart(k, w)
      BY <2>0, <2>2, <3>2, <3>3 DEF LocalPart
    <3> QED
      BY <3>4, <1>4
  <2> QED
    BY <2>1, <2>2
<1>6. now < Start(w) + 2 * Window + 2 =>
        /\ admitted[<<k, w>>] + Pending(k, w) <= Shared + LocalPart(k, w)
        /\ admitted[<<k, w>>] + Pending(k, w) <= counter[<<k, w>>].count + LocalPart(k, w)
  BY DEF Budgeted, BudgetHolds
<1>8. ASSUME now + 1 < Start(w) + 2 * Window + 2
      PROVE  /\ admitted'[<<k, w>>] + Pending(k, w)' <= Shared' + LocalPart(k, w)'
             /\ admitted'[<<k, w>>] + Pending(k, w)' <= counter'[<<k, w>>].count + LocalPart(k, w)'
  <2>0. Start(w) \in Nat
    <3>1. (2 * Window) * w \in Nat
      <4> DEFINE n == 2 * Window
      <4>1. n \in Nat
        BY WindowPositive
      <4> HIDE DEF n
      <4>2. n * w \in Nat
        BY <4>1, <1>4
      <4> QED
        BY <4>2 DEF n
    <3> QED
      BY <3>1 DEF Start
  <2>1. counter[<<k, w>>].expires # now + 1
    <3> SUFFICES ASSUME counter[<<k, w>>].expires = now + 1 PROVE FALSE
      OBVIOUS
    <3>1. counter[<<k, w>>].expires # Absent
      BY <1>1, AbsentDistinct
    <3>2. now + 1 >= Start(w) + 2 * Window + 2
      BY <3>1, <1>0 DEF CounterShape
    <3> QED
      BY <3>2, <2>0, <1>1, <1>8, WindowPositive
  <2>2. counter'[<<k, w>>] = counter[<<k, w>>]
    BY <2>1, <1>2
  <2>3. now < Start(w) + 2 * Window + 2
    BY <2>0, <1>1, <1>8, WindowPositive
  <2> QED
    BY <2>2, <2>3, <1>3, <1>4, <1>5, <1>6
<1> QED
  BY <1>1, <1>8 DEF BudgetHolds, Start

LEMMA BudgetedStep ==
  ASSUME GatewayInv, GatewayInv', Budgeted, [GatewayNext]_gatewayVars
  PROVE  Budgeted'
<1>1. CASE UNCHANGED gatewayVars
  <2>1. UNCHANGED <<config, now, limiter, log, counter, slot, admitted, hint>>
    BY <1>1 DEF gatewayVars
  <2>2. ASSUME NEW k \in RateKeys, NEW w \in Windows PROVE BudgetHolds(k, w)'
    <3>1. LocalPart(k, w)' = LocalPart(k, w)
      BY <2>1 DEF LocalPart, PerReplica, Tokens, EntriesOf, WindowAt
    <3>2. Pending(k, w)' = Pending(k, w)
      BY <2>1 DEF Pending, Firsts, WindowAt
    <3> QED
      BY <2>1, <3>1, <3>2 DEF Budgeted, BudgetHolds, Shared, Start
  <2> QED
    BY <2>2 DEF Budgeted, RateKeys, Identity, Windows
<1>2. ASSUME NEW s \in Slots, NEW r \in Replicas, NEW call \in Calls, ArriveLocal(s, r, call)
      PROVE  Budgeted'
  BY <1>2, ArriveLocalOutcomes, LocalBudget
<1>3. ASSUME NEW s \in Slots, RedisFails(s)
      PROVE  Budgeted'
  <2> DEFINE d == slot[s]
  <2>1. Deciding(s, d) /\ (LocalRefusal(s, d) \/ LocalPass(s, d) \/ Unavailable(s, d))
    BY <1>3, RedisFailsOutcomes
  <2> HIDE DEF d
  <2> QED
    BY <2>1, LocalBudget
<1> QED
  BY <1>1, <1>2, <1>3, ArriveSharedBudget, IncrBudget, ExpireBudget, PassTimeBudget DEF GatewayNext

LEMMA BudgetCovers ==
  ASSUME GatewayInv, Budgeted
  PROVE  WithinBudget
<1>1. GatewayTypeOK /\ LogShape
  BY DEF GatewayInv
<1> SUFFICES ASSUME NEW k \in RateKeys, NEW w \in Windows, now < Start(w) + 2 * (Window + 1)
             PROVE  admitted[<<k, w>>] <= config.limit * ((IF config.configured THEN 1 ELSE 0)
                                  + IF config.configured /\ config.required
                                    THEN 0 ELSE Cardinality(Replicas))
  BY <1>1 DEF WithinBudget
<1> DEFINE n == config.limit
           m == Cardinality(Replicas)
<1>2. n \in Nat /\ m \in Nat /\ n * m \in Nat
  <2>1. n \in Nat /\ m \in Nat
    BY <1>1, LimitPositive, ReplicasNamed, FS_CardinalityType
  <2> QED
    BY <2>1
<1>3. /\ admitted[<<k, w>>] \in Nat /\ Pending(k, w) \in {0, 1} /\ LocalPart(k, w) \in Nat
      /\ LocalPart(k, w) <= PerReplica /\ PerReplica \in Nat /\ Shared \in Nat
  <2>1. admitted[<<k, w>>] \in Nat
    BY <1>1 DEF GatewayTypeOK
  <2> QED
    BY <2>1, <1>1, <1>2, PendingFacts, LocalPartFacts DEF Shared
<1>4. admitted[<<k, w>>] + Pending(k, w) <= Shared + LocalPart(k, w)
  <2>1. Start(w) \in Nat
    BY WindowsNat, StartNat
  <2>2. now < Start(w) + 2 * Window + 2
    BY <2>1, WindowPositive
  <2> QED
    BY <2>2 DEF Budgeted, BudgetHolds
<1>5. admitted[<<k, w>>] <= Shared + PerReplica
  BY <1>3, <1>4
<1>6. Shared = (IF config.configured THEN n ELSE 0)
      /\ PerReplica = (IF config.configured /\ config.required THEN 0 ELSE n * m)
  BY DEF Shared, PerReplica
<1>7. /\ n * (1 + 0) = n /\ n * (0 + 0) = 0 /\ n * (1 + m) = n + n * m /\ n * (0 + m) = n * m
  <2> HIDE DEF n, m
  <2> QED
    BY <1>2
<1> HIDE DEF n, m
<1>8. admitted[<<k, w>>] <= n * ((IF config.configured THEN 1 ELSE 0)
                                  + IF config.configured /\ config.required THEN 0 ELSE m)
  <2>1. CASE config.configured /\ config.required
    BY <2>1, <1>2, <1>3, <1>5, <1>6, <1>7
  <2>2. CASE config.configured /\ ~config.required
    BY <2>2, <1>2, <1>3, <1>5, <1>6, <1>7
  <2>3. CASE ~config.configured
    BY <2>3, <1>2, <1>3, <1>5, <1>6, <1>7
  <2> QED
    BY <2>1, <2>2, <2>3
<1> QED
  BY <1>8 DEF n, m

LEMMA BudgetedInitially ==
  ASSUME GatewayInit
  PROVE  Budgeted
<1>0. GatewayInv /\ GatewayTypeOK /\ LogShape
  BY GatewayInitially DEF GatewayInv
<1> SUFFICES ASSUME NEW k \in RateKeys, NEW w \in Windows PROVE BudgetHolds(k, w)
  BY DEF Budgeted
<1>1. admitted[<<k, w>>] = 0 /\ counter[<<k, w>>].count \in Nat
  BY <1>0, CounterTyped DEF GatewayInit
<1>2. Pending(k, w) = 0
  <2>1. Firsts(k, w) = {}
    BY DEF GatewayInit, Firsts, Idle
  <2> QED
    BY <2>1 DEF Pending
<1>3. LocalPart(k, w) \in Nat /\ Shared \in Nat
  BY <1>0, LocalPartFacts, LimitPositive DEF Shared
<1> QED
  BY <1>1, <1>2, <1>3 DEF BudgetHolds

\* Until a second after a window has ended, which is as long as its counter is
\* kept, the requests of a rate key that arrived in it are admitted up to the
\* limit once for all replicas, and where the local limiters may decide once
\* more per replica, however requests, replicas and failures of Redis
\* interleave and however long calls to Redis take.
THEOREM BudgetsHold == GatewaySpec => []WithinBudget
<1>1. GatewayInit => Budgeted
  BY BudgetedInitially
<1>2. GatewayInv /\ GatewayInv' /\ Budgeted /\ [GatewayNext]_gatewayVars => Budgeted'
  BY BudgetedStep
<1>3. GatewayInv /\ Budgeted => WithinBudget
  BY BudgetCovers
<1> QED
  BY <1>1, <1>2, <1>3, GatewayInvariance, PTL DEF GatewaySpec
=============================================================================
