---------------------------- MODULE LimitsProofs ----------------------------
(* The window of a key is respected, in what the limiter counts, and who   *)
(* waits for as long as Retry-After says finds a hit fewer in it, for      *)
(* every window, every limit and every sequence of requests, batches,      *)
(* restarts and changes of the limits.                                     *)
EXTENDS Limits, FiniteSetTheorems, TLAPS

(* The definitions of the model, for one key: its log L, its deque Q, the  *)
(* time t and the number f of restarts.                                    *)
LiveIn(L, Q, t) == {i \in Q : t - L[i].at < Window}

CountedIn(L, n) ==
  {i \in 1..n : /\ L[n].at - L[i].at < Window
                /\ L[i].rate # 0
                /\ L[i].life = L[n].life}

(* Nothing is later than the clock, the deque holds all of this life that  *)
(* was let pass under a limit within the window, and the window was        *)
(* respected whenever something was let pass.                              *)
InLine(L, Q, t, f) ==
  /\ Q \subseteq 1..Len(L)
  /\ \A i \in 1..Len(L) : L[i].at <= t /\ L[i].life <= f
  /\ \A i \in 1..Len(L) : L[i].rate # 0 /\ L[i].life = f /\ t - L[i].at < Window => i \in Q
  /\ \A n \in 1..Len(L) : L[n].rate # 0 => Cardinality(CountedIn(L, n)) <= L[n].rate

(* While a promise holds, the deque is no longer than the refusal left it, *)
(* and one of its hits, if there is any, expires before the promise does.  *)
Promise(L, Q, p) ==
  p # None => /\ p.held > 0
              /\ Cardinality(Q) <= p.held
              /\ Q = {} \/ \E i \in Q : L[i].at + Window <= p.until

Windows == \A k \in Keys : InLine(log[k], queue[k], now, life)
Promises == \A k \in Keys : Promise(log[k], queue[k], told[k])
WindowInv == TypeOK /\ Windows /\ Promises

-----------------------------------------------------------------------------
(* Lemmas about one key.                                                   *)

LEMMA EntryTypes ==
  ASSUME NEW L \in Seq(EntryType), NEW i \in 1..Len(L)
  PROVE  L[i].at \in Nat /\ L[i].rate \in Nat /\ L[i].life \in Nat
<1>1. L[i] \in EntryType
  OBVIOUS
<1> QED
  BY <1>1 DEF EntryType

LEMMA SubsetOfLog ==
  ASSUME NEW L \in Seq(EntryType), NEW Q \in SUBSET (1..Len(L))
  PROVE  IsFiniteSet(Q) /\ Cardinality(Q) \in Nat
<1>1. Len(L) \in Nat
  OBVIOUS
<1>2. IsFiniteSet(1..Len(L))
  BY <1>1, FS_Interval
<1>3. IsFiniteSet(Q)
  BY <1>2, FS_Subset
<1> QED
  BY <1>3, FS_CardinalityType

LEMMA FreshEntries ==
  ASSUME NEW a \in Nat, NEW c \in Nat
  PROVE  IsFiniteSet((a + 1)..(a + c)) /\ Cardinality((a + 1)..(a + c)) = c
<1> DEFINE x == a + 1
           y == a + c
<1>1. x \in Int /\ y \in Int /\ (x > y => c = 0) /\ (x <= y => y - x + 1 = c)
  OBVIOUS
<1> HIDE DEF x, y
<1>2. IsFiniteSet(x..y) /\ Cardinality(x..y) = IF x > y THEN 0 ELSE y - x + 1
  BY <1>1, FS_Interval
<1>3. Cardinality(x..y) = c
  BY <1>1, <1>2
<1> QED
  BY <1>2, <1>3 DEF x, y

(* The log after c more entries: what was there stays, the rest is new.    *)
LEMMA Appended ==
  ASSUME NEW L \in Seq(EntryType), NEW c \in Nat, NEW e \in EntryType,
         NEW M, M = L \o [i \in 1..c |-> e]
  PROVE  /\ M \in Seq(EntryType)
         /\ Len(M) = Len(L) + c
         /\ \A i \in 1..Len(L) : M[i] = L[i]
         /\ \A i \in (Len(L) + 1)..(Len(L) + c) : M[i] = e
<1> DEFINE N == [i \in 1..c |-> e]
<1>1. N \in Seq(EntryType) /\ Len(N) = c /\ \A i \in 1..c : N[i] = e
  OBVIOUS
<1> HIDE DEF N
<1>2. M = L \o N
  BY DEF N
<1>3. /\ M \in Seq(EntryType) /\ Len(M) = Len(L) + c
      /\ \A i \in 1..(Len(L) + c) : M[i] = IF i <= Len(L) THEN L[i] ELSE N[i - Len(L)]
  BY <1>1, <1>2
<1>4. Len(L) \in Nat
  OBVIOUS
<1> QED
  BY <1>1, <1>3, <1>4

(* What was counted then is counted now.                                   *)
LEMMA CountedStays ==
  ASSUME NEW L, NEW M, NEW n \in Nat, \A i \in 1..n : M[i] = L[i]
  PROVE  CountedIn(M, n) = CountedIn(L, n)
<1>1. CASE n = 0
  BY <1>1 DEF CountedIn
<1>2. CASE n # 0
  <2>1. n \in 1..n
    BY <1>2
  <2> QED
    BY <2>1 DEF CountedIn
<1> QED
  BY <1>1, <1>2

(* How many of n hits pass: no more than fit, and all that fit.            *)
LEMMA AcceptedFits ==
  ASSUME NEW k, Cardinality(Live(k)) \in Nat, NEW limit \in Nat, NEW n \in Nat
  PROVE  LET c == Accepted(k, limit, n)
             live == Cardinality(Live(k))
         IN  /\ c \in Nat /\ c <= n
             /\ c > 0 => live + c <= limit
             /\ c < n => live + c >= limit
BY DEF Accepted

(* The heart: an entry that passes under a limit is counted together with  *)
(* the live part of the deque and what passed with it, no more.            *)
LEMMA PassKeeps ==
  ASSUME NEW L \in Seq(EntryType), NEW Q, NEW t \in Nat, NEW f \in Nat, InLine(L, Q, t, f),
         NEW limit \in Nat \ {0}, NEW c \in Nat,
         c > 0 => Cardinality(LiveIn(L, Q, t)) + c <= limit,
         NEW M, M = L \o [i \in 1..c |-> [at |-> t, rate |-> limit, life |-> f]],
         NEW P, P = LiveIn(L, Q, t) \cup (Len(L) + 1)..(Len(L) + c)
  PROVE  InLine(M, P, t, f)
<1> DEFINE e == [at |-> t, rate |-> limit, life |-> f]
           live == LiveIn(L, Q, t)
           fresh == (Len(L) + 1)..(Len(L) + c)
<1>1. e \in EntryType /\ e.at = t /\ e.rate = limit /\ e.life = f
  BY DEF EntryType
<1>2. Len(L) \in Nat /\ Window \in Nat \ {0}
  BY LimitsAssumption
<1>3. /\ M \in Seq(EntryType) /\ Len(M) = Len(L) + c
      /\ \A i \in 1..Len(L) : M[i] = L[i]
      /\ \A i \in fresh : M[i] = e
  BY <1>1, Appended
<1>4. live \in SUBSET (1..Len(L))
  BY DEF InLine, LiveIn
<1> HIDE DEF e
<1>5. P \subseteq 1..Len(M)
  BY <1>2, <1>3, <1>4
<1>6. \A i \in 1..Len(M) : i \in 1..Len(L) \/ i \in fresh
  BY <1>2, <1>3
<1>7. \A i \in 1..Len(M) : M[i].at <= t /\ M[i].life <= f
  BY <1>1, <1>3, <1>6 DEF InLine
<1>8. ASSUME NEW i \in 1..Len(M), M[i].rate # 0, M[i].life = f, t - M[i].at < Window
      PROVE  i \in P
  <2>1. CASE i \in 1..Len(L)
    BY <1>3, <1>8, <2>1 DEF InLine, LiveIn
  <2>2. CASE i \in fresh
    BY <2>2
  <2> QED
    BY <1>6, <2>1, <2>2
<1>9. ASSUME NEW n \in 1..Len(M), M[n].rate # 0
      PROVE  Cardinality(CountedIn(M, n)) <= M[n].rate
  <2>1. CASE n \in 1..Len(L)
    <3>1. \A i \in 1..n : M[i] = L[i]
      BY <1>2, <1>3, <2>1
    <3>2. CountedIn(M, n) = CountedIn(L, n)
      <4>1. n \in Nat
        BY <1>2, <2>1
      <4> QED
        BY <3>1, <4>1, CountedStays
    <3>3. M[n] = L[n]
      BY <1>3, <2>1
    <3> QED
      BY <1>9, <2>1, <3>2, <3>3 DEF InLine
  <2>2. CASE n \in fresh
    <3>1. M[n].at = t /\ M[n].rate = limit /\ M[n].life = f
      BY <1>1, <1>3, <2>2
    <3>2. CountedIn(M, n) \subseteq P
      <4> SUFFICES ASSUME NEW i \in CountedIn(M, n) PROVE i \in P
        OBVIOUS
      <4>1. /\ i \in 1..n
            /\ M[n].at - M[i].at < Window /\ M[i].rate # 0 /\ M[i].life = M[n].life
        BY DEF CountedIn
      <4>2. i \in 1..Len(M)
        BY <1>3, <4>1
      <4> QED
        BY <1>8, <3>1, <4>1, <4>2
    <3>3. IsFiniteSet(live) /\ Cardinality(live) \in Nat
      BY <1>4, SubsetOfLog
    <3>4. IsFiniteSet(fresh) /\ Cardinality(fresh) = c
      BY <1>2, FreshEntries
    <3>5. live \cap fresh = {}
      BY <1>2, <1>4
    <3> HIDE DEF live, fresh
    <3>6. /\ IsFiniteSet(live \cup fresh)
          /\ Cardinality(live \cup fresh) = Cardinality(live) + Cardinality(fresh) - Cardinality({})
      BY <3>3, <3>4, <3>5, FS_Union
    <3>7. P = live \cup fresh
      BY DEF live, fresh
    <3>8. IsFiniteSet(P) /\ Cardinality(P) = Cardinality(live) + c
      <4>1. Cardinality({}) = 0
        BY FS_EmptySet
      <4>2. Cardinality(live \cup fresh) = Cardinality(live) + c
        BY <3>3, <3>4, <3>6, <4>1
      <4> QED
        BY <3>6, <3>7, <4>2
    <3>9. Cardinality(CountedIn(M, n)) <= Cardinality(P)
      BY <3>2, <3>8, FS_Subset
    <3>10. c > 0
      BY <1>2, <2>2 DEF fresh
    <3>11. Cardinality(live) + c <= limit
      BY <3>10 DEF live
    <3>12. IsFiniteSet(CountedIn(M, n)) /\ Cardinality(CountedIn(M, n)) \in Nat
      <4>1. IsFiniteSet(CountedIn(M, n))
        BY <3>2, <3>8, FS_Subset
      <4> QED
        BY <4>1, FS_CardinalityType
    <3> QED
      BY <3>1, <3>3, <3>8, <3>9, <3>11, <3>12
  <2> QED
    BY <1>6, <2>1, <2>2
<1> QED
  BY <1>5, <1>7, <1>8, <1>9 DEF InLine

(* What passes without a limit is counted nowhere.                         *)
LEMMA UnlimitedKeeps ==
  ASSUME NEW L \in Seq(EntryType), NEW Q, NEW t \in Nat, NEW f \in Nat, InLine(L, Q, t, f),
         NEW c \in Nat, NEW M, M = L \o [i \in 1..c |-> [at |-> t, rate |-> 0, life |-> f]]
  PROVE  InLine(M, Q, t, f)
<1> DEFINE e == [at |-> t, rate |-> 0, life |-> f]
<1>1. e \in EntryType /\ e.at = t /\ e.rate = 0 /\ e.life = f
  BY DEF EntryType
<1>2. Len(L) \in Nat
  OBVIOUS
<1>3. /\ Len(M) = Len(L) + c
      /\ \A i \in 1..Len(L) : M[i] = L[i]
      /\ \A i \in (Len(L) + 1)..(Len(L) + c) : M[i] = e
  BY <1>1, Appended
<1> HIDE DEF e
<1>4. Q \subseteq 1..Len(M)
  BY <1>2, <1>3 DEF InLine
<1>5. \A i \in 1..Len(M) : i \in 1..Len(L) \/ i \in (Len(L) + 1)..(Len(L) + c)
  BY <1>2, <1>3
<1>6. \A i \in 1..Len(M) : M[i].at <= t /\ M[i].life <= f
  BY <1>1, <1>3, <1>5 DEF InLine
<1>7. \A i \in 1..Len(M) : M[i].rate # 0 => i \in 1..Len(L)
  BY <1>1, <1>3, <1>5
<1>8. \A i \in 1..Len(M) :
        M[i].rate # 0 /\ M[i].life = f /\ t - M[i].at < Window => i \in Q
  BY <1>3, <1>7 DEF InLine
<1>9. ASSUME NEW n \in 1..Len(M), M[n].rate # 0
      PROVE  Cardinality(CountedIn(M, n)) <= M[n].rate
  <2>1. n \in 1..Len(L) /\ M[n] = L[n]
    BY <1>3, <1>7, <1>9
  <2>2. \A i \in 1..n : M[i] = L[i]
    BY <1>2, <1>3, <2>1
  <2>3. CountedIn(M, n) = CountedIn(L, n)
    <3>1. n \in Nat
      BY <1>2, <2>1
    <3> QED
      BY <2>2, <3>1, CountedStays
  <2> QED
    BY <1>9, <2>1, <2>3 DEF InLine
<1> QED
  BY <1>4, <1>6, <1>8, <1>9 DEF InLine

(* Time passes.                                                            *)
LEMMA TickKeeps ==
  ASSUME NEW L \in Seq(EntryType), NEW Q, NEW t \in Nat, NEW f, InLine(L, Q, t, f),
         NEW u, u = t + 1
  PROVE  InLine(L, Q, u, f)
<1>1. \A i \in 1..Len(L) : L[i].at \in Nat
  BY EntryTypes
<1>2. \A i \in 1..Len(L) : L[i].at <= u /\ L[i].life <= f
  BY <1>1 DEF InLine
<1>3. ASSUME NEW i \in 1..Len(L), L[i].rate # 0, L[i].life = f, u - L[i].at < Window
      PROVE  i \in Q
  <2>1. t - L[i].at < Window
    BY <1>1, <1>3, LimitsAssumption
  <2> QED
    BY <1>3, <2>1 DEF InLine
<1> QED
  BY <1>2, <1>3 DEF InLine

(* After a restart the deque is empty, and so is the log of that life.     *)
LEMMA RestartKeeps ==
  ASSUME NEW L \in Seq(EntryType), NEW Q, NEW t, NEW f \in Nat, InLine(L, Q, t, f)
  PROVE  InLine(L, {}, t, f + 1)
<1>1. \A i \in 1..Len(L) : L[i].life \in Nat
  BY EntryTypes
<1>2. \A i \in 1..Len(L) : L[i].life <= f + 1 /\ L[i].life # f + 1
  BY <1>1 DEF InLine
<1> QED
  BY <1>2 DEF InLine

(* What a refusal promises holds in the state it leaves: the oldest hit of *)
(* the deque, or the first of those let pass with it, expires in time.     *)
LEMMA RefusalPromises ==
  ASSUME NEW L \in Seq(EntryType), NEW t \in Nat, NEW live \in SUBSET (1..Len(L)),
         NEW c \in Nat, NEW limit \in Nat \ {0},
         c > 0 \/ Cardinality(live) > 0, NEW e \in EntryType, e.at = t,
         NEW M, M = L \o [i \in 1..c |-> e],
         NEW P, P = live \cup (Len(L) + 1)..(Len(L) + c),
         NEW until \in Nat, NEW rest \in Int, t + rest <= until,
         IF live = {} THEN rest = Window
                      ELSE \E i \in live : rest = Window - (t - L[i].at),
         NEW size
  PROVE  Promise(M, P, [until |-> until, size |-> size, held |-> Cardinality(live) + c])
<1> DEFINE fresh == (Len(L) + 1)..(Len(L) + c)
<1>1. Len(L) \in Nat /\ Window \in Nat
  BY LimitsAssumption
<1>2. /\ \A i \in 1..Len(L) : M[i] = L[i]
      /\ \A i \in fresh : M[i] = e
  BY Appended
<1>3. IsFiniteSet(live) /\ Cardinality(live) \in Nat
  BY SubsetOfLog
<1>4. Cardinality(P) <= Cardinality(live) + c
  <2>1. IsFiniteSet(fresh) /\ Cardinality(fresh) = c
    BY <1>1, FreshEntries
  <2>2. live \cap fresh = {}
    BY <1>1
  <2>3. P = live \cup fresh
    OBVIOUS
  <2> HIDE DEF fresh
  <2>4. Cardinality(live \cup fresh) = Cardinality(live) + Cardinality(fresh) - Cardinality({})
    BY <1>3, <2>1, <2>2, FS_Union
  <2>5. Cardinality({}) = 0
    BY FS_EmptySet
  <2>6. Cardinality(live \cup fresh) = Cardinality(live) + c
    BY <1>3, <2>1, <2>4, <2>5
  <2>7. Cardinality(P) = Cardinality(live) + c
    BY <2>3, <2>6
  <2> QED
    BY <1>3, <2>7
<1>5. Cardinality(live) + c > 0
  BY <1>3
<1>6. \E i \in P : M[i].at + Window <= until
  <2>1. CASE live = {}
    <3>1. c > 0
      BY <2>1, FS_EmptySet
    <3>2. Len(L) + 1 \in fresh
      BY <1>1, <3>1
    <3>3. M[Len(L) + 1].at = t
      BY <1>2, <3>2
    <3>4. t + Window <= until
      BY <2>1
    <3> QED
      BY <3>2, <3>3, <3>4
  <2>2. CASE live # {}
    <3>1. PICK i \in live : rest = Window - (t - L[i].at)
      BY <2>2
    <3>2. M[i].at = L[i].at /\ L[i].at \in Nat
      BY <1>2, EntryTypes
    <3>3. L[i].at + Window <= until
      <4> DEFINE a == L[i].at
      <4>1. a \in Nat /\ rest = Window - (t - a)
        BY <3>1, <3>2
      <4> HIDE DEF a
      <4>2. a + Window <= until
        BY <1>1, <4>1
      <4> QED
        BY <4>2 DEF a
    <3> QED
      BY <3>2, <3>3
  <2> QED
    BY <2>1, <2>2
<1> QED
  BY <1>4, <1>5, <1>6 DEF Promise

-----------------------------------------------------------------------------
(* The operations of the limiter.                                          *)

LEMMA RateNat ==
  ASSUME default \in LimitType
  PROVE  /\ \A rate \in Nat : OrDefault(rate) \in Nat
         /\ own \in [Keys -> LimitType] => \A k \in Keys : Rate(k) \in Nat
BY DEF OrDefault, Rate, LimitType

(* Other keys see nothing of a call of hit.                                *)
Elsewhere(k) ==
  \A j \in Keys \ {k} : log'[j] = log[j] /\ queue'[j] = queue[j] /\ told'[j] = told[j]

LimiterTypes ==
  /\ log \in [Keys -> Seq(EntryType)]
  /\ queue \in [Keys -> SUBSET Nat]
  /\ told \in [Keys -> ToldType \cup {None}]

LEMMA LimiterTypesAre == TypeOK => LimiterTypes /\ now \in Nat /\ life \in Nat
BY DEF TypeOK, LimiterTypes

LEMMA KeyKept ==
  ASSUME LimiterTypes, LimiterTypes', Windows, Promises, NEW k \in Keys, Elsewhere(k),
         UNCHANGED <<now, life>>,
         InLine(log'[k], queue'[k], now, life), Promise(log'[k], queue'[k], told'[k])
  PROVE  Windows' /\ Promises'
<1>1. ASSUME NEW j \in Keys
      PROVE  InLine(log'[j], queue'[j], now, life) /\ Promise(log'[j], queue'[j], told'[j])
  <2>1. CASE j = k
    BY <2>1
  <2>2. CASE j # k
    BY <2>2 DEF Windows, Promises, Elsewhere
  <2> QED
    BY <2>1, <2>2
<1> QED
  BY <1>1 DEF Windows, Promises

LEMMA HitsKeep ==
  ASSUME WindowInv, NEW k \in Keys, NEW limit \in Nat \ {0}, NEW n \in Nat,
         Hits(k, limit, n), UNCHANGED <<now, life>>
  PROVE  LimiterTypes' /\ Windows' /\ Promises'
<1> DEFINE L == log[k]
           live == Live(k)
           c == Accepted(k, limit, n)
           e == [at |-> now, rate |-> limit, life |-> life]
           M == L \o [i \in 1..c |-> e]
           P == live \cup (Len(L) + 1)..(Len(L) + c)
<1>1. LimiterTypes /\ now \in Nat /\ life \in Nat /\ L \in Seq(EntryType) /\ Len(L) \in Nat
  <2>1. LimiterTypes /\ now \in Nat /\ life \in Nat
    BY LimiterTypesAre DEF WindowInv
  <2> QED
    BY <2>1 DEF LimiterTypes
<1>2. InLine(L, queue[k], now, life) /\ live = LiveIn(L, queue[k], now)
  BY DEF WindowInv, Windows, Live, LiveIn, Recent
<1>3. live \in SUBSET (1..Len(L))
  BY <1>2 DEF InLine, LiveIn
<1>4. Cardinality(live) \in Nat
  BY <1>1, <1>3, SubsetOfLog
<1>5. /\ c \in Nat /\ c <= n
      /\ c > 0 => Cardinality(live) + c <= limit
      /\ c < n => Cardinality(live) + c >= limit
  BY <1>4, AcceptedFits
<1>6. /\ log' = [log EXCEPT ![k] = M]
      /\ queue' = [queue EXCEPT ![k] = P]
      /\ \/ told' = [told EXCEPT ![k] = None]
         \/ /\ c # n
            /\ \E rest \in Rest(k), h \in 1..(Window + 1) :
                 /\ RetryAfter(rest, h)
                 /\ told' = [told EXCEPT ![k] = [until |-> now + h * Second, size |-> n,
                                                 held |-> Cardinality(live) + c]]
  BY DEF Hits, Logged
<1>7. e \in EntryType /\ e.at = now
  BY <1>1 DEF EntryType
<1> HIDE DEF c, live, L, e
<1>8. M \in Seq(EntryType)
  BY <1>1, <1>5, <1>7, Appended
<1>9. P \in SUBSET Nat
  <2> SUFFICES ASSUME NEW i \in P PROVE i \in Nat
    OBVIOUS
  <2>1. i \in 1..Len(L) \/ i \in (Len(L) + 1)..(Len(L) + c)
    BY <1>3
  <2> QED
    BY <1>1, <1>5, <2>1
<1>10. InLine(M, P, now, life)
  BY <1>1, <1>2, <1>5, PassKeeps DEF e
<1> HIDE DEF M, P
<1>11. log'[k] = M /\ queue'[k] = P
  BY <1>1, <1>6 DEF LimiterTypes
<1>12. log' \in [Keys -> Seq(EntryType)] /\ queue' \in [Keys -> SUBSET Nat]
  BY <1>1, <1>6, <1>8, <1>9 DEF LimiterTypes
<1>13. CASE told' = [told EXCEPT ![k] = None]
  <2>1. told'[k] = None /\ told' \in [Keys -> ToldType \cup {None}]
    BY <1>1, <1>13 DEF LimiterTypes
  <2>2. Elsewhere(k)
    BY <1>1, <1>6, <1>13 DEF LimiterTypes, Elsewhere
  <2>3. Promise(log'[k], queue'[k], told'[k])
    BY <2>1 DEF Promise
  <2>4. LimiterTypes'
    BY <1>12, <2>1 DEF LimiterTypes
  <2> QED
    BY <1>1, <1>10, <1>11, <2>2, <2>3, <2>4, KeyKept DEF WindowInv
<1>14. CASE c # n
  <2>1. CASE told' = [told EXCEPT ![k] = None]
    BY <1>13, <2>1
  <2>2. CASE \E rest \in Rest(k), h \in 1..(Window + 1) :
               /\ RetryAfter(rest, h)
               /\ told' = [told EXCEPT ![k] = [until |-> now + h * Second, size |-> n,
                                               held |-> Cardinality(live) + c]]
    <3>1. PICK rest \in Rest(k), h \in 1..(Window + 1) :
            /\ RetryAfter(rest, h)
            /\ told' = [told EXCEPT ![k] = [until |-> now + h * Second, size |-> n,
                                            held |-> Cardinality(live) + c]]
      BY <2>2
    <3> DEFINE until == now + h * Second
               new == [until |-> until, size |-> n, held |-> Cardinality(live) + c]
    <3>2. until \in Nat /\ h * Second \in Nat
      <4>1. h \in Nat /\ Second \in Nat
        BY LimitsAssumption
      <4>2. h * Second \in Nat
        BY <4>1
      <4> QED
        BY <1>1, <4>2
    <3>3. new \in ToldType
      BY <1>4, <1>5, <3>2 DEF ToldType
    <3>4. told'[k] = new /\ told' \in [Keys -> ToldType \cup {None}]
      BY <1>1, <3>1, <3>3 DEF LimiterTypes
    <3>5. Elsewhere(k)
      BY <1>1, <1>6, <3>1 DEF LimiterTypes, Elsewhere
    <3>6. c > 0 \/ Cardinality(live) > 0
      <4>1. c < n
        BY <1>5, <1>14
      <4> QED
        BY <1>4, <1>5, <4>1
    <3>7. rest \in Int /\ IF live = {} THEN rest = Window
                          ELSE \E i \in live : rest = Window - (now - L[i].at)
      <4>1. CASE live = {}
        BY <4>1, LimitsAssumption DEF Rest, live
      <4>2. CASE live # {}
        <5>1. PICK i \in live : rest = Window - (now - L[i].at)
          BY <4>2 DEF Rest, live, Oldest, L
        <5>2. L[i].at \in Nat
          BY <1>1, <1>3, EntryTypes
        <5>3. Window - (now - L[i].at) \in Int
          BY <1>1, <5>2, LimitsAssumption
        <5> QED
          BY <4>2, <5>1, <5>3
      <4> QED
        BY <4>1, <4>2
    <3>8. now + rest <= until
      <4>1. rest < h * Second
        BY <3>1 DEF RetryAfter
      <4> DEFINE wait == h * Second
      <4>2. wait \in Nat /\ rest < wait /\ rest \in Int
        BY <3>2, <3>7, <4>1
      <4> HIDE DEF wait
      <4>3. now + rest <= now + wait
        BY <1>1, <4>2
      <4> QED
        BY <4>3 DEF wait
    <3> HIDE DEF until
    <3>9. Promise(M, P, new)
      BY <1>1, <1>3, <1>5, <1>7, <3>2, <3>6, <3>7, <3>8, RefusalPromises DEF M, P
    <3>10. LimiterTypes'
      BY <1>12, <3>4 DEF LimiterTypes
    <3> QED
      BY <1>1, <1>10, <1>11, <3>4, <3>5, <3>9, <3>10, KeyKept DEF WindowInv
  <2> QED
    BY <1>6, <2>1, <2>2
<1> QED
  BY <1>6, <1>13, <1>14

LEMMA UnlimitedIsKept ==
  ASSUME WindowInv, NEW k \in Keys, NEW n \in Nat, Unlimited(k, n), UNCHANGED <<now, life>>
  PROVE  LimiterTypes' /\ Windows' /\ Promises'
<1> DEFINE L == log[k]
           e == [at |-> now, rate |-> 0, life |-> life]
           M == L \o [i \in 1..n |-> e]
<1>1. LimiterTypes /\ now \in Nat /\ life \in Nat /\ L \in Seq(EntryType)
  <2>1. LimiterTypes /\ now \in Nat /\ life \in Nat
    BY LimiterTypesAre DEF WindowInv
  <2> QED
    BY <2>1 DEF LimiterTypes
<1>2. /\ InLine(L, queue[k], now, life)
      /\ Promise(L, queue[k], told[k])
      /\ queue[k] \subseteq 1..Len(L)
  BY DEF WindowInv, Windows, Promises, InLine
<1>3. e \in EntryType
  BY <1>1 DEF EntryType
<1>4. log' = [log EXCEPT ![k] = M] /\ UNCHANGED <<queue, told>>
  BY DEF Unlimited, Logged
<1>5. InLine(M, queue[k], now, life)
  BY <1>1, <1>2, UnlimitedKeeps
<1> HIDE DEF L, e
<1>6. M \in Seq(EntryType) /\ \A i \in 1..Len(L) : M[i] = L[i]
  BY <1>1, <1>3, Appended
<1> HIDE DEF M
<1>7. Promise(M, queue[k], told[k])
  BY <1>2, <1>6 DEF Promise
<1>8. log'[k] = M /\ queue'[k] = queue[k] /\ told'[k] = told[k]
  BY <1>1, <1>4 DEF LimiterTypes
<1>9. LimiterTypes' /\ Elsewhere(k)
  BY <1>1, <1>4, <1>6 DEF LimiterTypes, Elsewhere
<1> QED
  BY <1>1, <1>5, <1>7, <1>8, <1>9, KeyKept DEF WindowInv

LEMMA CallsHitKeep ==
  ASSUME WindowInv, NEW k \in Keys, NEW limit \in Nat, NEW n \in Nat, CallsHit(k, limit, n),
         UNCHANGED <<now, life>>
  PROVE  LimiterTypes' /\ Windows' /\ Promises'
<1>1. CASE limit = 0
  BY <1>1, UnlimitedIsKept DEF CallsHit
<1>2. CASE limit # 0
  BY <1>2, HitsKeep DEF CallsHit
<1> QED
  BY <1>1, <1>2

LEMMA NoHitKeeps ==
  ASSUME WindowInv, NoHit, UNCHANGED <<now, life>>
  PROVE  LimiterTypes' /\ Windows' /\ Promises'
BY LimiterTypesAre DEF WindowInv, NoHit, LimiterTypes, Windows, Promises

(* A step that calls hit for one key, or not at all.                       *)
LEMMA LimiterStep ==
  ASSUME WindowInv, UNCHANGED <<now, life, own, default>>,
         active' \in [Callers -> Nat], unlogged' \in BOOLEAN, changes' \in Nat,
         arrived' \in [Requests -> [key : Keys, rate : Nat] \cup {None}],
         NoHit \/ \E k \in Keys, limit \in Nat, n \in Nat : CallsHit(k, limit, n)
  PROVE  WindowInv'
<1>1. LimiterTypes' /\ Windows' /\ Promises'
  BY CallsHitKeep, NoHitKeeps
<1>2. TypeOK'
  BY <1>1 DEF WindowInv, TypeOK, LimiterTypes
<1> QED
  BY <1>1, <1>2 DEF WindowInv

-----------------------------------------------------------------------------
(* The steps.                                                              *)

LEMMA WindowInit == Init => WindowInv
<1> SUFFICES ASSUME Init PROVE WindowInv
  OBVIOUS
<1>1. \A k \in Keys : /\ log[k] = << >> /\ Len(log[k]) = 0
                      /\ queue[k] = {} /\ told[k] = None
  BY DEF Init
<1>2. TypeOK
  <2>1. log \in [Keys -> Seq(EntryType)]
    BY DEF Init
  <2>2. queue \in [Keys -> SUBSET Nat] /\ told \in [Keys -> ToldType \cup {None}]
    BY DEF Init
  <2>3. arrived \in [Requests -> [key : Keys, rate : Nat] \cup {None}]
    BY DEF Init
  <2>4. active \in [Callers -> Nat] /\ now \in Nat /\ life \in Nat /\ changes \in Nat
    BY DEF Init
  <2>5. own \in [Keys -> LimitType] /\ default \in LimitType /\ unlogged \in BOOLEAN
    BY LimitsAssumption DEF Init
  <2> QED
    BY <2>1, <2>2, <2>3, <2>4, <2>5 DEF TypeOK
<1>3. Windows
  <2> SUFFICES ASSUME NEW k \in Keys PROVE InLine(log[k], queue[k], now, life)
    BY DEF Windows
  <2>1. 1..Len(log[k]) = {}
    BY <1>1
  <2> QED
    BY <1>1, <2>1 DEF InLine
<1>4. Promises
  BY <1>1 DEF Promises, Promise
<1> QED
  BY <1>2, <1>3, <1>4 DEF WindowInv

LEMMA EnqueueStep ==
  ASSUME WindowInv, NEW c \in Callers, NEW n \in 1..MaxBatch, Enqueue(c, n),
         UNCHANGED <<now, life, arrived, own, default, changes>>
  PROVE  WindowInv'
<1>1. /\ active \in [Callers -> Nat] /\ unlogged \in BOOLEAN /\ changes \in Nat
      /\ arrived \in [Requests -> [key : Keys, rate : Nat] \cup {None}]
      /\ own \in [Keys -> LimitType] /\ default \in LimitType
  BY DEF WindowInv, TypeOK
<1>2. n \in Nat
  BY LimitsAssumption
<1>3. active' \in [Callers -> Nat]
  <2>1. active' = active \/ active' = [active EXCEPT ![c] = @ + n]
    BY DEF Enqueue
  <2> QED
    BY <1>1, <1>2, <2>1
<1>4. unlogged' \in BOOLEAN
  BY <1>1 DEF Enqueue
<1>5. NoHit \/ \E k \in Keys, limit \in Nat, j \in Nat : CallsHit(k, limit, j)
  <2>1. NoHit \/ (c \in Keys /\ CallsHit(c, Rate(c), n))
    BY DEF Enqueue
  <2>2. c \in Keys => Rate(c) \in Nat
    BY <1>1, RateNat
  <2> QED
    BY <1>2, <2>1, <2>2
<1>6. changes' \in Nat /\ arrived' \in [Requests -> [key : Keys, rate : Nat] \cup {None}]
  BY <1>1
<1> QED
  BY <1>3, <1>4, <1>5, <1>6, LimiterStep

LEMMA WindowStep == WindowInv /\ [Next]_vars => WindowInv'
<1> SUFFICES ASSUME WindowInv, [Next]_vars PROVE WindowInv'
  OBVIOUS
<1> DEFINE Pending == [key : Keys, rate : Nat]
<1>1. TypeOK /\ LimiterTypes
  BY LimiterTypesAre DEF WindowInv
<1>2. /\ active \in [Callers -> Nat] /\ unlogged \in BOOLEAN /\ changes \in Nat
      /\ now \in Nat /\ life \in Nat
      /\ arrived \in [Requests -> Pending \cup {None}]
      /\ own \in [Keys -> LimitType] /\ default \in LimitType
  BY <1>1 DEF TypeOK
<1>3. ASSUME NEW q \in Requests, NEW k \in Keys, Arrive(q, k) PROVE WindowInv'
  <2>1. /\ arrived' = [arrived EXCEPT ![q] = [key |-> k, rate |-> own[k].rate]]
        /\ NoHit /\ UNCHANGED <<now, life, active, own, default, unlogged, changes>>
    BY <1>3 DEF Arrive
  <2>2. [key |-> k, rate |-> own[k].rate] \in Pending
    BY <1>2 DEF LimitType
  <2>3. arrived' \in [Requests -> Pending \cup {None}]
    BY <1>2, <2>1, <2>2
  <2> QED
    BY <1>2, <2>1, <2>3, LimiterStep
<1>4. ASSUME NEW q \in Requests, BodyRead(q) PROVE WindowInv'
  <2>1. /\ arrived[q] # None /\ arrived' = [arrived EXCEPT ![q] = None]
        /\ NoHit \/ CallsHit(arrived[q].key, OrDefault(arrived[q].rate), 1)
        /\ UNCHANGED <<now, life, active, own, default, unlogged, changes>>
    BY <1>4 DEF BodyRead
  <2>2. arrived' \in [Requests -> Pending \cup {None}]
    BY <1>2, <2>1
  <2>3. arrived[q].key \in Keys /\ arrived[q].rate \in Nat
    BY <1>2, <2>1
  <2>4. OrDefault(arrived[q].rate) \in Nat
    BY <1>2, <2>3, RateNat
  <2>5. NoHit \/ \E k \in Keys, limit \in Nat, n \in Nat : CallsHit(k, limit, n)
    BY <2>1, <2>3, <2>4
  <2> QED
    BY <1>2, <2>1, <2>2, <2>5, LimiterStep
<1>5. ASSUME NEW c \in Callers, NEW n \in 1..MaxBatch, Submit(c, n) PROVE WindowInv'
  <2>1. /\ UNCHANGED <<now, life, arrived, own, default, changes>>
        /\ Rejected \/ Enqueue(c, n)
    BY <1>5 DEF Submit
  <2>2. CASE Rejected
    BY <1>2, <2>1, <2>2, LimiterStep DEF Rejected
  <2>3. CASE Enqueue(c, n)
    BY <2>1, <2>3, EnqueueStep
  <2> QED
    BY <2>1, <2>2, <2>3
<1>6. ASSUME NEW c \in Callers, JobEnds(c) PROVE WindowInv'
  <2>1. /\ active' = [active EXCEPT ![c] = @ - 1] /\ active[c] > 0
        /\ NoHit /\ UNCHANGED <<now, life, arrived, own, default, unlogged, changes>>
    BY <1>6 DEF JobEnds
  <2>2. active' \in [Callers -> Nat]
    BY <1>2, <2>1
  <2> QED
    BY <1>2, <2>1, <2>2, LimiterStep
<1>7. CASE Tick
  <2>1. /\ now' = now + 1 /\ NoHit
        /\ UNCHANGED <<life, arrived, active, own, default, unlogged, changes>>
    BY <1>7 DEF Tick
  <2>2. TypeOK'
    BY <1>1, <2>1 DEF TypeOK, NoHit
  <2>3. Windows'
    <3> SUFFICES ASSUME NEW k \in Keys PROVE InLine(log[k], queue[k], now + 1, life)
      BY <2>1 DEF Windows, NoHit
    <3>1. InLine(log[k], queue[k], now, life) /\ log[k] \in Seq(EntryType)
      BY <1>1 DEF WindowInv, Windows, LimiterTypes
    <3> QED
      BY <1>2, <3>1, TickKeeps
  <2>4. Promises'
    BY <2>1 DEF WindowInv, Promises, NoHit
  <2> QED
    BY <2>2, <2>3, <2>4 DEF WindowInv
<1>8. CASE ChangeLimits
  <2>1. /\ NoHit /\ changes' = changes + 1
        /\ UNCHANGED <<now, life, arrived, active, unlogged>>
    BY <1>8 DEF ChangeLimits
  <2>2. own' \in [Keys -> LimitType] /\ default' \in LimitType
    BY <1>2, <1>8, LimitsAssumption DEF ChangeLimits
  <2>3. LimiterTypes' /\ Windows' /\ Promises'
    BY <2>1, NoHitKeeps
  <2>4. TypeOK'
    BY <1>2, <2>1, <2>2, <2>3 DEF TypeOK, LimiterTypes
  <2> QED
    BY <2>3, <2>4 DEF WindowInv
<1>9. CASE Restart
  <2>1. /\ life' = life + 1 /\ queue' = [k \in Keys |-> {}] /\ changes' = changes + 1
        /\ arrived' = [q \in Requests |-> None]
        /\ UNCHANGED <<now, log, active, own, default, told, unlogged>>
    BY <1>9 DEF Restart
  <2>2. TypeOK'
    <3>1. /\ life' \in Nat /\ changes' \in Nat
          /\ queue' \in [Keys -> SUBSET Nat]
          /\ arrived' \in [Requests -> Pending \cup {None}]
      BY <1>2, <2>1
    <3> QED
      BY <1>1, <2>1, <3>1 DEF TypeOK
  <2>3. Windows'
    <3> SUFFICES ASSUME NEW k \in Keys PROVE InLine(log[k], {}, now, life + 1)
      BY <2>1 DEF Windows
    <3>1. InLine(log[k], queue[k], now, life) /\ log[k] \in Seq(EntryType)
      BY <1>1 DEF WindowInv, Windows, LimiterTypes
    <3> QED
      BY <1>2, <3>1, RestartKeeps
  <2>4. Promises'
    <3> SUFFICES ASSUME NEW k \in Keys PROVE Promise(log[k], {}, told[k])
      BY <2>1 DEF Promises
    <3>1. told[k] # None => told[k].held > 0 /\ told[k].held \in Nat
      BY <1>1 DEF WindowInv, Promises, Promise, LimiterTypes, ToldType
    <3>2. Cardinality({}) = 0
      BY FS_EmptySet
    <3> QED
      BY <3>1, <3>2 DEF Promise
  <2> QED
    BY <2>2, <2>3, <2>4 DEF WindowInv
<1>10. CASE UNCHANGED vars
  BY <1>2, <1>10, LimiterStep DEF vars, NoHit
<1> QED
  BY <1>3, <1>4, <1>5, <1>6, <1>7, <1>8, <1>9, <1>10 DEF Next

-----------------------------------------------------------------------------
(* What the invariant implies.                                             *)

LEMMA WindowIsRespected == WindowInv => WindowRespected
<1> SUFFICES ASSUME WindowInv, NEW k \in Keys, NEW n \in 1..Len(log[k]), log[k][n].rate # 0
             PROVE  Cardinality(Counted(k, n)) <= log[k][n].rate
  BY DEF WindowRespected
<1>1. Counted(k, n) = CountedIn(log[k], n)
  BY DEF Counted, Minute, CountedIn
<1>2. InLine(log[k], queue[k], now, life)
  BY DEF WindowInv, Windows
<1> QED
  BY <1>1, <1>2 DEF InLine

(* A promise that has come due finds fewer hits than it was made with.     *)
LEMMA PromiseKept == WindowInv => HintSuffices
<1> SUFFICES ASSUME WindowInv, NEW k \in Keys, told[k] # None, now >= told[k].until
             PROVE  Cardinality(Live(k)) < told[k].held
  BY DEF HintSuffices
<1> DEFINE Q == queue[k]
<1>1. LimiterTypes /\ now \in Nat /\ log[k] \in Seq(EntryType) /\ Len(log[k]) \in Nat
  <2>1. LimiterTypes /\ now \in Nat
    BY LimiterTypesAre DEF WindowInv
  <2> QED
    BY <2>1 DEF LimiterTypes
<1>2. told[k].until \in Nat /\ told[k].held \in Nat
  BY <1>1 DEF LimiterTypes, ToldType
<1>3. /\ told[k].held > 0 /\ Cardinality(Q) <= told[k].held
      /\ Q = {} \/ \E i \in Q : log[k][i].at + Window <= told[k].until
  BY DEF WindowInv, Promises, Promise
<1>4. Q \in SUBSET (1..Len(log[k]))
  BY DEF WindowInv, Windows, InLine
<1>5. IsFiniteSet(Q) /\ Cardinality(Q) \in Nat
  BY <1>1, <1>4, SubsetOfLog
<1>6. CASE Q = {}
  <2>1. Live(k) = {}
    BY <1>6 DEF Live
  <2>2. Cardinality(Live(k)) = 0
    BY <2>1, FS_EmptySet
  <2> QED
    BY <1>2, <1>3, <2>2
<1>7. CASE Q # {}
  <2>1. PICK i \in Q : log[k][i].at + Window <= told[k].until
    BY <1>3, <1>7
  <2>2. i \notin Live(k)
    <3> DEFINE a == log[k][i].at
    <3>1. a \in Nat /\ a + Window <= told[k].until
      BY <1>1, <1>4, <2>1, EntryTypes
    <3> HIDE DEF a
    <3>2. ~(now - a < Window)
      BY <1>1, <1>2, <3>1, LimitsAssumption
    <3> QED
      BY <3>2 DEF a, Live, Recent
  <2>3. Live(k) \in SUBSET (Q \ {i})
    BY <2>2 DEF Live
  <2> HIDE DEF Q
  <2>4. IsFiniteSet(Q \ {i}) /\ Cardinality(Q \ {i}) = Cardinality(Q) - 1
    BY <1>5, <2>1, FS_RemoveElement
  <2>5. IsFiniteSet(Live(k)) /\ Cardinality(Live(k)) <= Cardinality(Q \ {i})
    BY <2>3, <2>4, FS_Subset
  <2>6. Cardinality(Live(k)) \in Nat
    BY <2>5, FS_CardinalityType
  <2> QED
    BY <1>2, <1>3, <1>5, <2>4, <2>5, <2>6
<1> QED
  BY <1>6, <1>7

(* Whenever a key is let through under a limit, it was let through at most *)
(* that often in the minute that ends there, since the start of the proxy, *)
(* and whoever waits for as long as Retry-After says finds fewer hits in   *)
(* his window than when he was refused (RateLimiter.hit, jobs.py 80-95).   *)
THEOREM LimitsSafe == Spec => [](TypeOK /\ WindowRespected /\ HintSuffices)
<1>1. Init => WindowInv
  BY WindowInit
<1>2. WindowInv /\ [Next]_vars => WindowInv'
  BY WindowStep
<1>3. WindowInv => TypeOK /\ WindowRespected /\ HintSuffices
  BY PromiseKept, WindowIsRespected DEF WindowInv
<1> QED
  BY <1>1, <1>2, <1>3, PTL DEF Spec

(* A client that comes back after Retry-After finds at least one hit less  *)
(* in his window, unless his key was let through meanwhile, whatever the   *)
(* limits have become; he is let through when the limit was not lowered to *)
(* less than the window held (hit, jobs.py 88-95).                         *)
THEOREM RetryAfterSuffices == Spec => []HintSuffices
BY LimitsSafe, PTL

-----------------------------------------------------------------------------
(* A batch that is paid for takes a token for every job.                   *)
LEMMA PaidInFull ==
  ASSUME TypeOK, NEW k \in Keys, NEW limit \in Nat \ {0}, NEW n \in Nat,
         CallsHit(k, limit, n), Pays(k, limit, n)
  PROVE  Len(log'[k]) - Len(log[k]) = n
<1> DEFINE e == [at |-> now, rate |-> limit, life |-> life]
           M == log[k] \o [i \in 1..n |-> e]
<1>1. log \in [Keys -> Seq(EntryType)] /\ now \in Nat /\ life \in Nat
  BY DEF TypeOK
<1>2. log' = [log EXCEPT ![k] = M]
  <2>1. limit # 0 /\ Accepted(k, limit, n) = n
    BY DEF Pays
  <2>2. Logged(k, limit, Accepted(k, limit, n))
    BY <2>1 DEF CallsHit, Hits
  <2>3. Logged(k, limit, n)
    BY <2>1, <2>2
  <2> QED
    BY <2>3 DEF Logged
<1>3. e \in EntryType
  BY <1>1 DEF EntryType
<1> HIDE DEF e
<1>4. log[k] \in Seq(EntryType)
  BY <1>1
<1>5. Len(M) = Len(log[k]) + n
  BY <1>3, <1>4, Appended
<1> HIDE DEF M
<1>6. log'[k] = M /\ Len(log[k]) \in Nat
  BY <1>1, <1>2, <1>4
<1> QED
  BY <1>5, <1>6

(* The queue of a caller grows only within his cap, and a key that is rate *)
(* limited has a token taken for every job that enters, not for fewer: the *)
(* all-or-nothing of a batch does not let unpaid jobs in (_enqueue).       *)
THEOREM QueueGrowsPaidAndCapped == Spec => GrowsPaidAndCapped
<1> DEFINE Grows == \A c \in Callers : active'[c] > active[c] =>
                      /\ Cap(c) # 0 => active'[c] <= Cap(c)
                      /\ c \in Keys /\ Rate(c) # 0 =>
                           Len(log'[c]) - Len(log[c]) = active'[c] - active[c]
<1>1. TypeOK /\ [Next]_vars => [Grows]_vars
  <2> SUFFICES ASSUME TypeOK, Next, NEW c \in Callers, active'[c] > active[c]
               PROVE  /\ Cap(c) # 0 => active'[c] <= Cap(c)
                      /\ c \in Keys /\ Rate(c) # 0 =>
                           Len(log'[c]) - Len(log[c]) = active'[c] - active[c]
    OBVIOUS
  <2>1. active \in [Callers -> Nat] /\ active[c] \in Nat
    BY DEF TypeOK
  <2>2. PICK d \in Callers, n \in 1..MaxBatch : Submit(d, n)
    <3>1. active' # active
      BY <2>1
    <3>2. ASSUME NEW d \in Callers, JobEnds(d) PROVE FALSE
      BY <2>1, <3>2 DEF JobEnds
    <3> QED
      BY <3>1, <3>2 DEF Next, Arrive, BodyRead, Tick, ChangeLimits, Restart
  <2>3. /\ Enqueue(d, n) /\ ~OverCap(d, n) /\ n \in Nat
        /\ active' = [active EXCEPT ![d] = @ + n]
    <3>1. active' # active /\ n \in Nat
      BY <2>1, LimitsAssumption
    <3> QED
      BY <2>2, <3>1 DEF Submit, Rejected, Enqueue
  <2>4. d = c /\ active'[c] = active[c] + n
    BY <2>1, <2>3
  <2>5. Cap(c) # 0 => active'[c] <= Cap(c)
    <3>1. Cap(c) \in Nat
      BY DEF Cap, TypeOK, LimitType
    <3> QED
      BY <2>1, <2>3, <2>4, <3>1 DEF OverCap
  <2>6. c \in Keys => CallsHit(c, Rate(c), n) /\ Pays(c, Rate(c), n)
    <3>1. active' # active
      BY <2>1
    <3>2. Enqueue(c, n) /\ ~OverCap(c, n)
      BY <2>3, <2>4
    <3> QED
      BY <3>1, <3>2 DEF Enqueue
  <2>7. c \in Keys /\ Rate(c) # 0 => Len(log'[c]) - Len(log[c]) = n
    <3>1. c \in Keys => Rate(c) \in Nat
      BY RateNat DEF TypeOK
    <3> QED
      BY <2>3, <2>6, <3>1, PaidInFull
  <2>8. active'[c] - active[c] = n
    BY <2>1, <2>3, <2>4
  <2> QED
    BY <2>5, <2>7, <2>8
<1>2. WindowInv => TypeOK
  BY DEF WindowInv
<1> QED
  BY <1>1, <1>2, WindowInit, WindowStep, PTL DEF Spec, GrowsPaidAndCapped
=============================================================================
