------------------------- MODULE TimerManagerProofs -------------------------
(***************************************************************************)
(* What the operations of TimerManager do to timers_, said of the set of   *)
(* the timers it holds: the order plays no part in who is resumed by whom. *)
(***************************************************************************)
EXTENDS TimerManager, FiniteSetTheorems, SequenceTheorems, TLAPS

\* The timers of a queue; that a queue is in order and holds no timer twice.
Held(ts) == {ts[k] : k \in DOMAIN ts}

WellOrdered(ts) ==
  \A j, k \in DOMAIN ts : /\ j < k => ts[j].left <= ts[k].left
                          /\ ts[j].id = ts[k].id => j = k

InOrder(ts) == \A j, k \in DOMAIN ts : j < k => ts[j].left <= ts[k].left
Distinct(ts, K) == \A j, k \in K : ts[j].id = ts[k].id => j = k

LEMMA OrderedFacts ==
  ASSUME NEW n \in Nat, NEW ts, NEW K \in SUBSET (1 .. n), NEW old,
         NEW r \in Ordered(ts, K, old)
  PROVE  /\ Cardinality(K) \in Nat
         /\ r \in [1 .. Cardinality(K) -> {ts[k] : k \in K}]
         /\ Held(r) = {ts[k] : k \in K}
         /\ InOrder(r)
         /\ Distinct(ts, K) => WellOrdered(r)
<1> DEFINE N == Cardinality(K)
<1>1. N \in Nat
  <2>1. IsFiniteSet(1 .. n)
    BY FS_Interval
  <2>2. IsFiniteSet(K)
    BY <2>1, FS_Subset
  <2> QED
    BY <2>2, FS_CardinalityType
<1> HIDE DEF N
<1>2. PICK p \in Bijection(1 .. N, K) :
        /\ r = [j \in 1 .. N |-> ts[p[j]]]
        /\ \A i, j \in 1 .. N : i < j => /\ ts[p[i]].left <= ts[p[j]].left
                                         /\ p[i] \in old /\ p[j] \in old => p[i] < p[j]
  BY Zenon DEF Ordered, N
<1>3. /\ p \in [1 .. N -> K] /\ \A i, j \in 1 .. N : p[i] = p[j] => i = j
      /\ \A k \in K : \E j \in 1 .. N : p[j] = k
  BY Zenon DEF Bijection, Injection, Surjection, IsInjective
<1>4. DOMAIN r = 1 .. N /\ \A j \in 1 .. N : r[j] = ts[p[j]] /\ p[j] \in K
  BY <1>2, <1>3
<1>5. \A j \in 1 .. N : \E k \in K : r[j] = ts[k]
  BY <1>4
<1>6. Held(r) = {ts[k] : k \in K}
  <2>1. \A k \in K : \E j \in DOMAIN r : r[j] = ts[k]
    BY <1>3, <1>4
  <2>2. \A j \in DOMAIN r : r[j] \in {ts[k] : k \in K}
    BY <1>4, <1>5
  <2> QED
    BY <2>1, <2>2, Zenon DEF Held
<1>7. InOrder(r)
  BY <1>2, <1>4 DEF InOrder
<1>8. ASSUME Distinct(ts, K) PROVE WellOrdered(r)
  <2>1. ASSUME NEW i \in 1 .. N, NEW j \in 1 .. N, r[i].id = r[j].id PROVE i = j
    <3>1. ts[p[i]].id = ts[p[j]].id /\ p[i] \in K /\ p[j] \in K
      BY <1>4, <2>1
    <3>2. p[i] = p[j]
      BY <1>8, <3>1 DEF Distinct
    <3> QED
      BY <1>3, <3>2
  <2> QED
    BY <1>4, <1>7, <2>1 DEF WellOrdered, InOrder
<1>9. r \in [1 .. N -> {ts[k] : k \in K}]
  BY <1>2, <1>3
<1> QED
  BY <1>1, <1>5, <1>6, <1>7, <1>8, <1>9 DEF N

\* So a queue of timers stays one.
LEMMA OrderedType ==
  ASSUME NEW n \in Nat, NEW ts, NEW K \in SUBSET (1 .. n), NEW old, NEW S,
         \A k \in K : ts[k] \in S, NEW r \in Ordered(ts, K, old)
  PROVE  r \in Seq(S)
<1>1. Cardinality(K) \in Nat /\ r \in [1 .. Cardinality(K) -> {ts[k] : k \in K}]
  BY OrderedFacts
<1>2. r \in [1 .. Cardinality(K) -> S]
  BY <1>1
<1> QED
  BY <1>1, <1>2, SeqDef

LEMMA QueueFacts ==
  ASSUME TimersTypeOK
  PROVE  /\ Len(timers) \in Nat /\ DOMAIN timers = 1 .. Len(timers)
         /\ timers = [k \in 1 .. Len(timers) |-> timers[k]]
         /\ \A k \in DOMAIN timers : timers[k] \in Timer
         /\ \A id : Others(id) \in SUBSET (1 .. Len(timers))
         /\ Due \in SUBSET (1 .. Len(timers))
<1>1. timers \in Seq(Timer)
  BY DEF TimersTypeOK
<1>2. Len(timers) \in Nat /\ DOMAIN timers = 1 .. Len(timers)
  BY <1>1, LenProperties
<1>3. \A k \in DOMAIN timers : timers[k] \in Timer
  BY <1>1, ElementOfSeq, <1>2
<1> QED
  BY <1>1, <1>2, <1>3, LenProperties DEF Others, Due

\* addTimer.
LEMMA AddTimerFacts ==
  ASSUME TimersTypeOK, WellOrdered(timers), NEW id \in TimerId, ~IsQueued(id),
         NEW ms \in Delay, NEW recurring \in BOOLEAN, NEW cb \in Callback, NEW front,
         AddTimer(id, ms, recurring, cb, front)
  PROVE  LET t == [id |-> id, left |-> ms, ms |-> ms, recurring |-> recurring, cb |-> cb] IN
         /\ timers' \in Seq(Timer) /\ WellOrdered(timers')
         /\ Held(timers') = Held(timers) \cup {t}
         /\ armed' = armed \cup {id}
<1> DEFINE t == [id |-> id, left |-> ms, ms |-> ms, recurring |-> recurring, cb |-> cb]
           ts == Append(timers, t)
           n  == Len(timers)
<1>1. t \in Timer
  BY DEF Timer
<1> HIDE DEF t
<1>2. timers' \in Ordered(ts, DOMAIN ts, DOMAIN timers) /\ armed' = armed \cup {id}
  BY DEF AddTimer, Insert, t
<1>3. /\ n \in Nat /\ DOMAIN timers = 1 .. n /\ \A k \in 1 .. n : timers[k] \in Timer
      /\ timers \in Seq(Timer)
  BY QueueFacts DEF TimersTypeOK
<1>4. /\ DOMAIN ts = 1 .. n + 1 /\ n + 1 \in Nat
      /\ \A k \in 1 .. n : ts[k] = timers[k]
      /\ ts[n + 1] = t
  BY <1>1, <1>3, AppendProperties
<1>5. \A k \in 1 .. n + 1 : k \in 1 .. n \/ k = n + 1
  BY <1>3
<1>6. \A k \in 1 .. n : timers[k].id # id
  BY <1>3 DEF IsQueued
<1>7. t.id = id
  BY DEF t
<1> HIDE DEF ts
<1>8. \A k \in DOMAIN ts : ts[k] \in Timer
  BY <1>1, <1>3, <1>4, <1>5
<1>9. Distinct(ts, DOMAIN ts)
  BY <1>3, <1>4, <1>5, <1>6, <1>7 DEF Distinct, WellOrdered
<1>10. {ts[k] : k \in DOMAIN ts} = Held(timers) \cup {t}
  <2>1. ASSUME NEW k \in 1 .. n + 1 PROVE ts[k] \in Held(timers) \cup {t}
    BY <1>3, <1>4, <1>5 DEF Held
  <2>2. n + 1 \in 1 .. n + 1 /\ \A k \in 1 .. n : k \in 1 .. n + 1
    BY <1>3
  <2>3. ASSUME NEW u \in Held(timers) \cup {t} PROVE \E k \in 1 .. n + 1 : ts[k] = u
    BY <1>3, <1>4, <2>2 DEF Held
  <2> QED
    BY <1>4, <2>1, <2>3
<1>11. timers' \in Seq(Timer)
  BY <1>2, <1>4, <1>8, OrderedType
<1>12. Held(timers') = {ts[k] : k \in DOMAIN ts} /\ WellOrdered(timers')
  <2>1. PICK m, K, u, old, r : m = n + 1 /\ K = DOMAIN ts /\ u = ts /\ old = DOMAIN timers /\ r = timers'
    OBVIOUS
  <2>2. m \in Nat /\ K \in SUBSET (1 .. m) /\ r \in Ordered(u, K, old) /\ Distinct(u, K)
    BY <1>2, <1>4, <1>9, <2>1
  <2>3. Held(r) = {u[k] : k \in K} /\ WellOrdered(r)
    BY <2>2, OrderedFacts
  <2> QED
    BY <2>1, <2>3
<1> QED
  BY <1>2, <1>10, <1>11, <1>12 DEF t

\* cancel: the timer goes, whether or not it was armed.
LEMMA CancelFacts ==
  ASSUME TimersTypeOK, WellOrdered(timers), ArmedIsQueued, NEW id \in TimerId, Cancel(id)
  PROVE  /\ timers' \in Seq(Timer) /\ WellOrdered(timers')
         /\ Held(timers') = {t \in Held(timers) : t.id # id}
         /\ armed' = armed \ {id}
<1>1. DOMAIN timers = 1 .. Len(timers) /\ Len(timers) \in Nat /\ timers \in Seq(Timer)
      /\ Others(id) \in SUBSET (1 .. Len(timers)) /\ \A k \in DOMAIN timers : timers[k] \in Timer
  BY QueueFacts DEF TimersTypeOK
<1>2. CASE id \in armed
  <2>1. timers' \in Ordered(timers, Others(id), Others(id))
    BY <1>2 DEF Cancel
  <2>2. \A k \in Others(id) : timers[k] \in Timer /\ k \in DOMAIN timers
    BY <1>1 DEF Others
  <2>3. timers' \in Seq(Timer)
    BY <1>1, <2>1, <2>2, OrderedType
  <2>4. Distinct(timers, Others(id))
    BY <2>2 DEF Distinct, WellOrdered
  <2>5. Held(timers') = {timers[k] : k \in Others(id)} /\ WellOrdered(timers')
    BY <1>1, <2>1, <2>4, OrderedFacts
  <2>6. {timers[k] : k \in Others(id)} = {t \in Held(timers) : t.id # id}
    BY DEF Held, Others
  <2> QED
    BY <2>3, <2>5, <2>6 DEF Cancel
<1>3. CASE id \notin armed
  <2>1. timers' = timers /\ ~IsQueued(id)
    BY <1>3 DEF Cancel, ArmedIsQueued
  <2>2. Held(timers) = {t \in Held(timers) : t.id # id}
    BY <2>1 DEF Held, IsQueued
  <2> QED
    BY <1>1, <2>1, <2>2 DEF Cancel
<1> QED
  BY <1>2, <1>3

\* refresh and reset: the timer is queued again with another time.
LEMMA ReplacedFacts ==
  ASSUME TimersTypeOK, WellOrdered(timers), NEW id \in TimerId, IsQueued(id),
         NEW t \in Timer, t.id = id,
         timers' \in Ordered(Replaced(id, t), DOMAIN timers, Others(id))
  PROVE  /\ timers' \in Seq(Timer) /\ WellOrdered(timers')
         /\ Held(timers') = {u \in Held(timers) : u.id # id} \cup {t}
<1> DEFINE ts == Replaced(id, t)
<1>1. DOMAIN timers = 1 .. Len(timers) /\ Len(timers) \in Nat /\ timers \in Seq(Timer)
      /\ \A k \in DOMAIN timers : timers[k] \in Timer
  BY QueueFacts DEF TimersTypeOK
<1>2. DOMAIN ts = DOMAIN timers
      /\ \A k \in DOMAIN timers : ts[k] = IF timers[k].id = id THEN t ELSE timers[k]
  BY DEF Replaced
<1>3. timers' \in Ordered(ts, DOMAIN timers, Others(id))
  OBVIOUS
<1> HIDE DEF ts
<1>4. \A k \in DOMAIN timers : ts[k] \in Timer /\ ts[k].id = timers[k].id
  BY <1>1, <1>2
<1>5. Distinct(ts, DOMAIN timers)
  BY <1>4 DEF Distinct, WellOrdered
<1>6. timers' \in Seq(Timer)
  BY <1>1, <1>3, <1>4, OrderedType
<1>7. Held(timers') = {ts[k] : k \in DOMAIN timers} /\ WellOrdered(timers')
  BY <1>1, <1>3, <1>5, OrderedFacts
<1>8. {ts[k] : k \in DOMAIN timers} = {u \in Held(timers) : u.id # id} \cup {t}
  BY <1>2 DEF Held, IsQueued
<1> QED
  BY <1>6, <1>7, <1>8

LEMMA QueuedTimerFacts ==
  ASSUME NEW id, IsQueued(id)
  PROVE  QueuedTimer(id) \in Held(timers) /\ QueuedTimer(id).id = id
  BY DEF IsQueued, QueuedTimer, Held

\* A set of numbers has a least one: take an element below which the set holds
\* a minimal (for inclusion) part of itself.
LEMMA LeastOfNumbers ==
  ASSUME NEW S \in SUBSET Nat, S # {}
  PROVE  \E x \in S : \A y \in S : x <= y
<1>1. PICK top \in S : TRUE
  OBVIOUS
<1> DEFINE T        == 0 .. top
           Below(x) == {y \in S : y <= top /\ y < x}
           Parts    == {Below(x) : x \in {y \in S : y <= top}}
<1>2. IsFiniteSet(T)
  BY FS_Interval, SMT
<1>3. Parts \subseteq FiniteSubsetsOf(T) /\ Parts # {}
  <2>1. ASSUME NEW x \in S PROVE Below(x) \in FiniteSubsetsOf(T)
    <3>1. Below(x) \in SUBSET T
      <4>1. ASSUME NEW y \in Below(x) PROVE y \in T
        BY SMT
      <4> QED
        BY <4>1, Zenon
    <3>2. IsFiniteSet(Below(x))
      BY <1>2, <3>1, FS_Subset
    <3> QED
      BY <3>1, <3>2 DEF FiniteSubsetsOf
  <2>2. top \in {y \in S : y <= top}
    BY SMT
  <2> QED
    BY <2>1, <2>2
<1>4. PICK P \in Parts : \A Q \in Parts : <<Q, P>> \notin StrictSubsetOrdering(T)
  BY <1>2, <1>3, FS_StrictSubsetOrderingWellFounded, WFMin
<1>5. PICK x \in {y \in S : y <= top} : P = Below(x)
  BY <1>4
<1>6. ASSUME NEW y \in S, y < x PROVE FALSE
  <2>0. y <= top
    BY <1>6, SMT
  <2>1. Below(y) \subseteq Below(x) /\ Below(y) # Below(x)
    <3>1. y \in Below(x) /\ y \notin Below(y)
      BY <1>6, <2>0, SMT
    <3>2. ASSUME NEW z \in Below(y) PROVE z \in Below(x)
      BY <1>6, SMT
    <3> QED
      BY <3>1, <3>2, Zenon
  <2>2. Below(y) \in SUBSET T /\ Below(x) \in SUBSET T
    <3>1. ASSUME NEW z \in S, z <= top PROVE z \in T
      BY <3>1, SMT
    <3> QED
      BY <3>1, Zenon
  <2>3. ASSUME NEW A \in SUBSET T, NEW B \in SUBSET T, A \subseteq B, A # B
        PROVE  <<A, B>> \in StrictSubsetOrdering(T)
    <3>1. <<A, B>> \in (SUBSET T) \X (SUBSET T) /\ <<A, B>>[1] = A /\ <<A, B>>[2] = B
      OBVIOUS
    <3> QED
      BY <2>3, <3>1, Zenon DEF StrictSubsetOrdering
  <2> HIDE DEF T
  <2>4. <<Below(y), Below(x)>> \in StrictSubsetOrdering(T)
    BY <2>1, <2>2, <2>3
  <2>5. Below(y) \in Parts
    BY <2>0
  <2> QED
    BY <1>4, <1>5, <2>4, <2>5
<1> QED
  BY <1>6, SMT

\* A set of numbers up to n that holds, with a number, all smaller ones is an
\* interval.
LEMMA DownwardClosed ==
  ASSUME NEW n \in Nat, NEW D \in SUBSET (1 .. n),
         \A j \in 1 .. n, k \in D : j < k => j \in D
  PROVE  Cardinality(D) \in 0 .. n /\ D = 1 .. Cardinality(D)
<1>1. {k \in 1 .. n + 1 : k \notin D} \in SUBSET Nat /\ n + 1 \in {k \in 1 .. n + 1 : k \notin D}
  BY SMT
<1>3. PICK m \in {k \in 1 .. n + 1 : k \notin D} : \A k \in {k \in 1 .. n + 1 : k \notin D} : m <= k
  BY <1>1, LeastOfNumbers, Zenon
<1>4. \A k \in D : k < m
  <2>1. ASSUME NEW k \in D, m < k PROVE FALSE
    <3>1. m \in 1 .. n
      BY <2>1, SMT
    <3> QED
      BY <1>3, <2>1, <3>1
  <2> QED
    BY <1>3, <2>1, SMT
<1>5. m - 1 \in 0 .. n /\ D = 1 .. m - 1
  <2>1. ASSUME NEW k \in 1 .. m - 1 PROVE k \in D
    <3>1. k \in 1 .. n + 1 /\ ~(m <= k)
      BY <2>1, SMT
    <3> QED
      BY <1>3, <3>1
  <2>2. \A k \in D : k \in 1 .. m - 1
    BY <1>3, <1>4, SMT
  <2>3. m - 1 \in 0 .. n
    BY <1>3, SMT
  <2> QED
    BY <2>1, <2>2, <2>3, Zenon
<1>6. Cardinality(1 .. m - 1) = m - 1
  BY <1>5, FS_Interval, SMT
<1> QED
  BY <1>5, <1>6

\* listExpiredCb: the timers that are due are the first ones.
LEMMA ExpiredFacts ==
  ASSUME TimersTypeOK, WellOrdered(timers)
  PROVE  /\ Cardinality(Due) \in 0 .. Len(timers) /\ Due = 1 .. Cardinality(Due)
         /\ Expired = [k \in 1 .. Cardinality(Due) |-> timers[k]]
<1>1. /\ DOMAIN timers = 1 .. Len(timers) /\ Len(timers) \in Nat /\ timers \in Seq(Timer)
      /\ Due \in SUBSET (1 .. Len(timers))
      /\ \A k \in DOMAIN timers : timers[k] \in Timer
  BY QueueFacts DEF TimersTypeOK
<1>2. \A j \in 1 .. Len(timers), k \in Due : j < k => j \in Due
  BY <1>1 DEF Due, WellOrdered, Timer, Delay
<1>3. Cardinality(Due) \in 0 .. Len(timers) /\ Due = 1 .. Cardinality(Due)
  BY <1>1, <1>2, DownwardClosed
<1>4. Expired = [k \in 1 .. Cardinality(Due) |-> timers[k]]
  BY <1>1, <1>3, SubSeqProperties DEF Expired
<1> QED
  BY <1>3, <1>4

LEMMA ListExpiredFacts ==
  ASSUME TimersTypeOK, WellOrdered(timers), ListExpired
  PROVE  /\ timers' \in Seq(Timer) /\ WellOrdered(timers')
         /\ Held(timers') = {t \in Held(timers) : t.left # 0}
                            \cup {[t EXCEPT !.left = t.ms] :
                                    t \in {t \in Held(timers) : t.left = 0 /\ t.recurring}}
         /\ armed' = armed \ {t.id : t \in {t \in Held(timers) : t.left = 0 /\ ~t.recurring}}
<1> DEFINE again == {k \in Due : timers[k].recurring}
           ts == [k \in DOMAIN timers |-> IF k \in Due
                                          THEN [timers[k] EXCEPT !.left = timers[k].ms]
                                          ELSE timers[k]]
           K == (DOMAIN timers \ Due) \cup again
<1>1. /\ DOMAIN timers = 1 .. Len(timers) /\ Len(timers) \in Nat /\ timers \in Seq(Timer)
      /\ \A k \in DOMAIN timers : timers[k] \in Timer
  BY QueueFacts DEF TimersTypeOK
<1>2. /\ timers' \in Ordered(ts, K, DOMAIN timers \ Due)
      /\ armed' = armed \ {timers[k].id : k \in Due \ again}
  BY DEF ListExpired
<1>3. K \in SUBSET (1 .. Len(timers)) /\ \A k \in K : k \in DOMAIN timers
  BY <1>1 DEF Due
<1>4. \A k \in DOMAIN timers : ts[k] \in Timer /\ ts[k].id = timers[k].id
  BY <1>1 DEF Timer
<1>5. \A k \in DOMAIN timers : (k \in Due) <=> timers[k].left = 0
  BY DEF Due
<1>6. {timers[k].id : k \in Due \ again}
        = {t.id : t \in {t \in Held(timers) : t.left = 0 /\ ~t.recurring}}
  BY DEF Due, Held
<1>7. {ts[k] : k \in K}
        = {t \in Held(timers) : t.left # 0}
          \cup {[t EXCEPT !.left = t.ms] :
                  t \in {t \in Held(timers) : t.left = 0 /\ t.recurring}}
  <2>1. ASSUME NEW k \in K
        PROVE  \/ ts[k] \in {t \in Held(timers) : t.left # 0}
               \/ \E t \in {t \in Held(timers) : t.left = 0 /\ t.recurring} :
                    ts[k] = [t EXCEPT !.left = t.ms]
    BY <1>3 DEF Due, Held
  <2>2. ASSUME NEW t \in Held(timers), t.left # 0 PROVE \E k \in K : ts[k] = t
    BY <2>2 DEF Due, Held
  <2>3. ASSUME NEW t \in Held(timers), t.left = 0, t.recurring
        PROVE  \E k \in K : ts[k] = [t EXCEPT !.left = t.ms]
    BY <2>3 DEF Due, Held
  <2> HIDE DEF ts, K, again
  <2> DEFINE Left  == {t \in Held(timers) : t.left # 0}
             Again == {[t EXCEPT !.left = t.ms] :
                         t \in {t \in Held(timers) : t.left = 0 /\ t.recurring}}
  <2>4. \A k \in K : ts[k] \in Left \cup Again
    BY <2>1
  <2>5. \A u \in Left : \E k \in K : ts[k] = u
    BY <2>2
  <2>6. \A u \in Again : \E k \in K : ts[k] = u
    BY <2>3
  <2> HIDE DEF Left, Again
  <2>7. {ts[k] : k \in K} = Left \cup Again
    BY <2>4, <2>5, <2>6
  <2> QED
    BY <2>7 DEF Left, Again
<1> HIDE DEF ts, K, again
<1>8. timers' \in Seq(Timer)
  BY <1>1, <1>2, <1>3, <1>4, OrderedType
<1>9. Distinct(ts, K)
  BY <1>3, <1>4 DEF Distinct, WellOrdered
<1>10. Held(timers') = {ts[k] : k \in K} /\ WellOrdered(timers')
  BY <1>1, <1>2, <1>3, <1>9, OrderedFacts
<1> QED
  BY <1>2, <1>6, <1>7, <1>8, <1>10

\* A unit of time.
LEMMA SoonerFacts ==
  ASSUME TimersTypeOK, WellOrdered(timers)
  PROVE  /\ Sooner(timers) \in Seq(Timer) /\ WellOrdered(Sooner(timers))
         /\ Held(Sooner(timers)) = {[t EXCEPT !.left = AtLeast0(t.left - 1)] : t \in Held(timers)}
<1> DEFINE ts == Sooner(timers)
<1>1. /\ DOMAIN timers = 1 .. Len(timers) /\ Len(timers) \in Nat
      /\ \A k \in DOMAIN timers : timers[k] \in Timer
  BY QueueFacts
<1>2. /\ ts = [k \in 1 .. Len(timers) |-> [timers[k] EXCEPT !.left = AtLeast0(timers[k].left - 1)]]
      /\ DOMAIN ts = DOMAIN timers
      /\ \A k \in DOMAIN timers : ts[k] = [timers[k] EXCEPT !.left = AtLeast0(timers[k].left - 1)]
  BY <1>1 DEF Sooner
<1> HIDE DEF ts
<1>3. ASSUME NEW k \in DOMAIN timers
      PROVE  /\ ts[k] \in Timer /\ ts[k].id = timers[k].id
             /\ ts[k].left = AtLeast0(timers[k].left - 1)
             /\ timers[k].left \in Nat
  <2>1. timers[k] \in Timer /\ ts[k] = [timers[k] EXCEPT !.left = AtLeast0(timers[k].left - 1)]
    BY <1>1, <1>2
  <2>2. timers[k].left \in Delay /\ timers[k].left \in Nat
    BY <2>1 DEF Timer, Delay
  <2>3. AtLeast0(timers[k].left - 1) \in Delay
    BY <2>2, DelayAssumption DEF Delay, AtLeast0
  <2> QED
    BY <2>1, <2>2, <2>3 DEF Timer
<1>4. ts \in Seq(Timer)
  <2>1. ts = [k \in 1 .. Len(timers) |-> ts[k]]
    BY <1>2, Zenon
  <2>2. \A k \in 1 .. Len(timers) : ts[k] \in Timer
    BY <1>1, <1>3
  <2> QED
    BY <1>1, <2>1, <2>2, IsASeq
<1>5. WellOrdered(ts)
  <2>1. ASSUME NEW j \in DOMAIN timers, NEW k \in DOMAIN timers, j < k
        PROVE  ts[j].left <= ts[k].left
    <3>1. timers[j].left <= timers[k].left
      BY <2>1 DEF WellOrdered
    <3> QED
      BY <1>3, <3>1 DEF AtLeast0
  <2>2. ASSUME NEW j \in DOMAIN timers, NEW k \in DOMAIN timers, ts[j].id = ts[k].id
        PROVE  j = k
    BY <1>3, <2>2 DEF WellOrdered
  <2> QED
    BY <1>2, <2>1, <2>2 DEF WellOrdered
<1>6. Held(ts) = {[t EXCEPT !.left = AtLeast0(t.left - 1)] : t \in Held(timers)}
  BY <1>2 DEF Held
<1> QED
  BY <1>4, <1>5, <1>6 DEF ts

=============================================================================
