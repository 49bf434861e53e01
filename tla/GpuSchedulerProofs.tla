-------------------------- MODULE GpuSchedulerProofs --------------------------
(* Proofs about GpuScheduler, for every set of callers and models.         *)
EXTENDS GpuScheduler, FiniteSetTheorems, TLAPS

-----------------------------------------------------------------------------
(* Every method of the scheduler turns a scheduler into a scheduler. *)

(* Sets of callers are finite, so they can be counted. *)
LEMMA Finite == \A S \in SUBSET Req : IsFiniteSet(S) /\ Cardinality(S) \in Nat
  BY RequestsAssumption, FS_Subset, FS_CardinalityType

(* The two ways a counter changes (scheduler.py 174-178, 193, 277). *)
LEMMA CounterTypes ==
  ASSUME NEW f \in [Models -> Nat], NEW m \in Models
  PROVE  /\ \A n \in Nat : Add(f, m, n) \in [Models -> Nat]
         /\ f[m] > 0 => Add(f, m, -1) \in [Models -> Nat]
         /\ Less(f, m) \in [Models -> Nat]
  BY DEF Add, Less

(* _start keeps the types of the fields (scheduler.py 191-195). *)
LEMMA StartType ==
  ASSUME NEW s \in SchedType, NEW r \in Req
  PROVE  Start(s, r) \in SchedType
<1> DEFINE counts == Add(s.inFlight, ReqModel[r], 1)
           n == s.interactiveRunning + One(r \in Interactive)
<1>1. counts \in [Models -> Nat]
  BY RequestsAssumption, CounterTypes DEF SchedType
<1>2. n \in Nat
  BY DEF SchedType, One
<1>3. Start(s, r) = [s EXCEPT !.inFlight = counts, !.interactiveRunning = n]
  BY DEF Start
<1> HIDE DEF counts, n
<1> QED
  BY <1>1, <1>2, <1>3 DEF SchedType

(* So does release (scheduler.py 170-182). *)
LEMMA FreeSlotType ==
  ASSUME NEW s \in SchedType, NEW r \in Req
  PROVE  FreeSlot(s, r) \in SchedType
<1> DEFINE counts == Less(s.inFlight, ReqModel[r])
           n == IF s.interactiveRunning > 0
                THEN s.interactiveRunning - One(r \in Interactive) ELSE 0
           held == s.hold \/ r \in Interactive
<1>1. counts \in [Models -> Nat]
  BY RequestsAssumption, CounterTypes DEF SchedType
<1>2. n \in Nat
  BY DEF SchedType, One
<1>3. held \in BOOLEAN
  BY Zenon
<1>4. FreeSlot(s, r) = [s EXCEPT !.inFlight = counts, !.interactiveRunning = n,
                                 !.hold = held, !.event = s.event \ {r}]
  BY DEF FreeSlot
<1> HIDE DEF counts, n, held
<1> QED
  BY <1>1, <1>2, <1>3, <1>4 DEF SchedType

(* So does a new waiter (scheduler.py 146-147). *)
LEMMA JoinType ==
  ASSUME NEW s \in SchedType, NEW r \in Req, NEW aged
  PROVE  Join(s, r, aged) \in SchedType
<1> DEFINE old == IF aged THEN s.starved \cup {r} ELSE s.starved
           queue == s.waiting \cup {r}
<1>1. old \in SUBSET Req /\ queue \in SUBSET Req
  BY DEF SchedType
<1>2. Join(s, r, aged) = [s EXCEPT !.waiting = queue, !.starved = old]
  BY DEF Join
<1> HIDE DEF old, queue
<1> QED
  BY <1>1, <1>2 DEF SchedType

(* A caller that arrives only takes its place (scheduler.py 142).          *)
LEMMA ArriveType ==
  ASSUME sched \in SchedType, NEW r \in Req, NEW ahead \in Places(r)
  PROVE  /\ Arrive(r, ahead) \in SchedType
         /\ Arrive(r, ahead) = [sched EXCEPT !.older = Arrive(r, ahead).older]
<1>1. Line \in SUBSET Req
  BY DEF Line, SchedType
<1>2. ahead \in SUBSET Req
  BY <1>1 DEF Places
<1> DEFINE order == [w \in Req |-> IF w = r THEN ahead
                                   ELSE IF w \in Line \ ahead THEN sched.older[w] \cup {r}
                                   ELSE sched.older[w]]
<1>3. order \in [Req -> SUBSET Req]
  BY <1>2 DEF SchedType
<1>4. Arrive(r, ahead) = [sched EXCEPT !.older = order]
  BY DEF Arrive
<1> HIDE DEF order
<1> QED
  BY <1>3, <1>4 DEF SchedType

(* So does a waiter's leaving (scheduler.py 165-167). *)
LEMMA LeaveType ==
  ASSUME NEW s \in SchedType, NEW gone \in SUBSET Req
  PROVE  Leave(s, gone) \in SchedType
<1> DEFINE order == [w \in Req |-> IF w \in gone THEN {} ELSE s.older[w] \ gone]
<1>1. order \in [Req -> SUBSET Req]
  BY DEF SchedType
<1>2. Leave(s, gone) = [s EXCEPT !.waiting = s.waiting \ gone,
                                 !.starved = s.starved \ gone, !.older = order]
  BY DEF Leave
<1> HIDE DEF order
<1> QED
  BY <1>1, <1>2 DEF SchedType

(* So does a switch (scheduler.py 269-280). *)
LEMMA SwitchToType ==
  ASSUME NEW s \in SchedType, NEW m \in Models
  PROVE  SwitchTo(s, m) \in SchedType
<1> DEFINE released == {w \in s.waiting : ReqModel[w] = m}
           left == Leave(s, released)
           counts == Add(s.inFlight, m, Cardinality(released))
           n == s.interactiveRunning + Cardinality(released \cap Interactive)
<1>1. released \in SUBSET Req /\ released \cap Interactive \in SUBSET Req
  BY DEF SchedType
<1>2. Cardinality(released) \in Nat /\ Cardinality(released \cap Interactive) \in Nat
  BY <1>1, Finite
<1>. s.inFlight \in [Models -> Nat] /\ s.interactiveRunning \in Nat
  BY DEF SchedType
<1>4. left \in SchedType
  BY <1>1, LeaveType
<1>3. counts \in [Models -> Nat] /\ n \in Nat
  <2> HIDE DEF released
  <2>1. counts \in [Models -> Nat]
    BY <1>2, CounterTypes
  <2>2. n \in Nat
    BY <1>2
  <2> QED
    BY <2>1, <2>2
<1>5. s.event \cup released \in SUBSET Req
  BY <1>1 DEF SchedType
<1>6. SwitchTo(s, m) = [left EXCEPT !.admitted = m, !.draining = FALSE,
                                    !.inFlight = counts,
                                    !.interactiveRunning = n,
                                    !.event = s.event \cup released]
  BY DEF SwitchTo
<1> HIDE DEF released, left, counts, n
<1> QED
  BY <1>3, <1>4, <1>5, <1>6 DEF SchedType

-----------------------------------------------------------------------------
(* Slots. A caller that holds one was started, or is a waiter whose event  *)
(* is set.                                                                 *)

Of(S, m) == {x \in S : ReqModel[x] = m}

SlotHolders(s, asleep, started) == started \cup (asleep \cap s.event)

(* The scheduler s agrees with its callers: asleep in acquire, or started. *)
Consistent(s, asleep, started) ==
  /\ s \in SchedType
  /\ asleep \in SUBSET Req
  /\ started \in SUBSET Req
  /\ asleep \cap started = {}
  /\ s.waiting = asleep \ s.event
  /\ s.event \subseteq asleep \cup started
  /\ \A m \in Models :
       s.inFlight[m] = Cardinality(Of(SlotHolders(s, asleep, started), m))
  /\ s.interactiveRunning =
       Cardinality(SlotHolders(s, asleep, started) \cap Interactive)

(* One more holder adds one to its model's count, and one to the people's  *)
(* if it is interactive (scheduler.py 193-195).                            *)
LEMMA CountAdd ==
  ASSUME NEW S \in SUBSET Req, NEW r \in Req \ S
  PROVE  /\ \A m \in Models :
              Cardinality(Of(S \cup {r}, m)) =
              Cardinality(Of(S, m)) + One(ReqModel[r] = m)
         /\ Cardinality((S \cup {r}) \cap Interactive) =
            Cardinality(S \cap Interactive) + One(r \in Interactive)
<1>1. ASSUME NEW m \in Models
      PROVE  Cardinality(Of(S \cup {r}, m)) =
             Cardinality(Of(S, m)) + One(ReqModel[r] = m)
  <2>1. Of(S, m) \in SUBSET Req /\ r \notin Of(S, m)
    BY DEF Of
  <2>2. IsFiniteSet(Of(S, m)) /\ Cardinality(Of(S, m)) \in Nat
    BY <2>1, Finite
  <2>3. CASE ReqModel[r] = m
    <3>1. Of(S \cup {r}, m) = Of(S, m) \cup {r}
      BY <2>3 DEF Of
    <3>2. Cardinality(Of(S, m) \cup {r}) = Cardinality(Of(S, m)) + 1
      BY <2>1, <2>2, FS_AddElement
    <3> QED
      BY <2>3, <3>1, <3>2 DEF One
  <2>4. CASE ReqModel[r] # m
    <3>1. Of(S \cup {r}, m) = Of(S, m)
      BY <2>4 DEF Of
    <3> QED
      BY <2>2, <2>4, <3>1 DEF One
  <2> QED
    BY <2>3, <2>4
<1>2. Cardinality((S \cup {r}) \cap Interactive) =
      Cardinality(S \cap Interactive) + One(r \in Interactive)
  <2> DEFINE P == S \cap Interactive
  <2>1. P \in SUBSET Req /\ r \notin P
    OBVIOUS
  <2>2. IsFiniteSet(P) /\ Cardinality(P) \in Nat
    BY <2>1, Finite
  <2>3. CASE r \in Interactive
    <3>1. (S \cup {r}) \cap Interactive = P \cup {r}
      BY <2>3
    <3>2. Cardinality(P \cup {r}) = Cardinality(P) + 1
      BY <2>1, <2>2, FS_AddElement
    <3> QED
      BY <2>3, <3>1, <3>2 DEF One
  <2>4. CASE r \notin Interactive
    <3>1. (S \cup {r}) \cap Interactive = P
      BY <2>4
    <3> HIDE DEF P
    <3>2. Cardinality(P) = Cardinality(P) + One(r \in Interactive)
      BY <2>2, <2>4 DEF One
    <3> QED
      BY <3>1, <3>2 DEF P
  <2> QED
    BY <2>3, <2>4
<1> QED
  BY <1>1, <1>2

(* A batch of holders of one model adds its size (scheduler.py 276-278).   *)
LEMMA CountBatch ==
  ASSUME NEW S \in SUBSET Req, NEW T \in SUBSET Req, S \cap T = {},
         NEW k \in Models, \A x \in T : ReqModel[x] = k
  PROVE  /\ Cardinality(Of(S \cup T, k)) = Cardinality(Of(S, k)) + Cardinality(T)
         /\ \A m \in Models : m # k => Of(S \cup T, m) = Of(S, m)
         /\ Cardinality((S \cup T) \cap Interactive) =
            Cardinality(S \cap Interactive) + Cardinality(T \cap Interactive)
<1>1. /\ Of(S \cup T, k) = Of(S, k) \cup T
      /\ Of(S, k) \cap T = {}
      /\ Of(S, k) \in SUBSET Req
  BY DEF Of
<1>2. /\ (S \cup T) \cap Interactive = (S \cap Interactive) \cup (T \cap Interactive)
      /\ (S \cap Interactive) \cap (T \cap Interactive) = {}
  OBVIOUS
<1>3. ASSUME NEW A \in SUBSET Req, NEW B \in SUBSET Req, A \cap B = {}
      PROVE  Cardinality(A \cup B) = Cardinality(A) + Cardinality(B)
  <2>1. /\ IsFiniteSet(A) /\ IsFiniteSet(B)
        /\ Cardinality(A) \in Nat /\ Cardinality(B) \in Nat
    BY Finite
  <2>2. Cardinality(A \cup B) =
        Cardinality(A) + Cardinality(B) - Cardinality(A \cap B)
    BY <2>1, FS_Union
  <2>3. Cardinality(A \cap B) = 0
    BY <1>3, FS_EmptySet
  <2> QED
    BY <2>1, <2>2, <2>3
<1>4. Cardinality(Of(S, k) \cup T) = Cardinality(Of(S, k)) + Cardinality(T)
  BY <1>1, <1>3
<1>5. /\ S \cap Interactive \in SUBSET Req
      /\ T \cap Interactive \in SUBSET Req
  OBVIOUS
<1>6. Cardinality((S \cap Interactive) \cup (T \cap Interactive)) =
      Cardinality(S \cap Interactive) + Cardinality(T \cap Interactive)
  BY <1>2, <1>3, <1>5
<1>7. \A m \in Models : m # k => Of(S \cup T, m) = Of(S, m)
  BY DEF Of
<1> QED
  BY <1>1, <1>2, <1>4, <1>6, <1>7

(* Starting a caller that neither sleeps nor runs (scheduler.py 143-145).  *)
LEMMA StartConsistent ==
  ASSUME NEW s, NEW asleep, NEW started, Consistent(s, asleep, started),
         NEW r \in Req, r \notin asleep, r \notin started
  PROVE  Consistent(Start(s, r), asleep, started \cup {r})
<1> DEFINE t == Start(s, r)
           H == SlotHolders(s, asleep, started)
           G == SlotHolders(t, asleep, started \cup {r})
<1>1. s \in SchedType /\ t \in SchedType
  BY StartType DEF Consistent
<1>2. /\ t.waiting = s.waiting
      /\ t.event = s.event
      /\ t.inFlight = Add(s.inFlight, ReqModel[r], 1)
      /\ t.interactiveRunning = s.interactiveRunning + One(r \in Interactive)
  BY <1>1 DEF Start, SchedType
<1>3. H \in SUBSET Req /\ r \in Req \ H /\ G = H \cup {r}
  BY <1>2 DEF SlotHolders, Consistent
<1>4. ASSUME NEW m \in Models
      PROVE  t.inFlight[m] = Cardinality(Of(G, m))
  <2> HIDE DEF H, G, t
  <2>1. Cardinality(Of(G, m)) = Cardinality(Of(H, m)) + One(ReqModel[r] = m)
    BY <1>3, CountAdd
  <2>2. s.inFlight[m] = Cardinality(Of(H, m)) /\ s.inFlight[m] \in Nat
    BY DEF Consistent, SchedType, H
  <2>3. t.inFlight[m] = s.inFlight[m] + One(ReqModel[r] = m)
    BY <1>1, <1>2, <2>2 DEF Add, One, SchedType
  <2> QED
    BY <2>1, <2>2, <2>3
<1>5. t.interactiveRunning = Cardinality(G \cap Interactive)
  <2> HIDE DEF H, G, t
  <2>1. Cardinality(G \cap Interactive) =
        Cardinality(H \cap Interactive) + One(r \in Interactive)
    BY <1>3, CountAdd
  <2> QED
    BY <1>2, <2>1 DEF Consistent, H
<1>8. /\ asleep \in SUBSET Req
      /\ started \cup {r} \in SUBSET Req
      /\ asleep \cap (started \cup {r}) = {}
      /\ t.waiting = asleep \ t.event
      /\ t.event \subseteq asleep \cup (started \cup {r})
  BY <1>2 DEF Consistent, SlotHolders
<1> QED
  BY <1>1, <1>4, <1>5, <1>8, Zenon DEF Consistent

(* release by a caller that holds a slot (scheduler.py 170-182).           *)
LEMMA FreeSlotConsistent ==
  ASSUME NEW s, NEW asleep, NEW started, Consistent(s, asleep, started),
         NEW r \in SlotHolders(s, asleep, started)
  PROVE  Consistent(FreeSlot(s, r), asleep \ {r}, started \ {r})
<1> DEFINE t == FreeSlot(s, r)
           H == SlotHolders(s, asleep, started)
           G == SlotHolders(t, asleep \ {r}, started \ {r})
<1>0. r \in Req
  BY DEF Consistent, SlotHolders
<1>1. s \in SchedType /\ t \in SchedType
  BY <1>0, FreeSlotType DEF Consistent
<1>2. /\ t.waiting = s.waiting
      /\ t.event = s.event \ {r}
      /\ t.inFlight = Less(s.inFlight, ReqModel[r])
      /\ t.interactiveRunning = IF s.interactiveRunning > 0
                                THEN s.interactiveRunning - One(r \in Interactive)
                                ELSE 0
  BY <1>1 DEF FreeSlot, SchedType
<1>3. G \in SUBSET Req /\ r \notin G /\ H = G \cup {r}
  BY <1>0, <1>2 DEF SlotHolders, Consistent
<1>4. ASSUME NEW m \in Models
      PROVE  t.inFlight[m] = Cardinality(Of(G, m))
  <2> HIDE DEF H, G, t
  <2>1. Cardinality(Of(H, m)) = Cardinality(Of(G, m)) + One(ReqModel[r] = m)
    BY <1>0, <1>3, CountAdd
  <2>2. s.inFlight[m] = Cardinality(Of(H, m)) /\ s.inFlight[m] \in Nat
    BY DEF Consistent, SchedType, H
  <2>3. Cardinality(Of(G, m)) \in Nat
    BY <1>3, Finite DEF Of
  <2>4. CASE ReqModel[r] = m
    <3>1. s.inFlight[m] = Cardinality(Of(G, m)) + 1
      BY <2>1, <2>2, <2>4 DEF One
    <3>2. t.inFlight[m] = IF s.inFlight[m] > 0 THEN s.inFlight[m] - 1 ELSE 0
      BY <1>1, <1>2, <2>4 DEF Less, SchedType
    <3> QED
      BY <2>3, <3>1, <3>2
  <2>5. CASE ReqModel[r] # m
    <3>1. s.inFlight[m] = Cardinality(Of(G, m))
      BY <2>1, <2>2, <2>3, <2>5 DEF One
    <3>2. t.inFlight[m] = s.inFlight[m]
      BY <1>1, <1>2, <2>5 DEF Less, SchedType
    <3> QED
      BY <3>1, <3>2
  <2> QED
    BY <2>4, <2>5
<1>5. t.interactiveRunning = Cardinality(G \cap Interactive)
  <2> HIDE DEF H, G, t
  <2>1. Cardinality(H \cap Interactive) =
        Cardinality(G \cap Interactive) + One(r \in Interactive)
    BY <1>0, <1>3, CountAdd
  <2>2. Cardinality(G \cap Interactive) \in Nat
    BY <1>3, Finite
  <2>3. s.interactiveRunning = Cardinality(H \cap Interactive)
    BY DEF Consistent, H
  <2> QED
    BY <1>2, <2>1, <2>2, <2>3 DEF One
<1>6. s.waiting = (asleep \ {r}) \ t.event
  BY <1>2 DEF Consistent, SlotHolders
<1>8. /\ asleep \ {r} \in SUBSET Req
      /\ started \ {r} \in SUBSET Req
      /\ (asleep \ {r}) \cap (started \ {r}) = {}
      /\ t.waiting = (asleep \ {r}) \ t.event
      /\ t.event \subseteq (asleep \ {r}) \cup (started \ {r})
  BY <1>2, <1>6 DEF Consistent, SlotHolders
<1> QED
  BY <1>1, <1>4, <1>5, <1>8, Zenon DEF Consistent

(* A caller becomes a waiter (scheduler.py 146-147).                       *)
LEMMA JoinConsistent ==
  ASSUME NEW s, NEW asleep, NEW started, Consistent(s, asleep, started),
         NEW r \in Req, r \notin asleep, r \notin started, NEW aged
  PROVE  Consistent(Join(s, r, aged), asleep \cup {r}, started)
<1> DEFINE t == Join(s, r, aged)
<1>1. s \in SchedType /\ t \in SchedType
  BY JoinType DEF Consistent
<1>2. /\ t.waiting = s.waiting \cup {r}
      /\ t.event = s.event
      /\ t.inFlight = s.inFlight
      /\ t.interactiveRunning = s.interactiveRunning
  BY <1>1 DEF Join, SchedType
<1>3. r \notin s.event
  BY DEF Consistent
<1>4. SlotHolders(t, asleep \cup {r}, started) = SlotHolders(s, asleep, started)
  BY <1>2, <1>3 DEF SlotHolders
<1>8. /\ asleep \cup {r} \in SUBSET Req
      /\ started \in SUBSET Req
      /\ (asleep \cup {r}) \cap started = {}
      /\ t.waiting = (asleep \cup {r}) \ t.event
      /\ t.event \subseteq (asleep \cup {r}) \cup started
  BY <1>2, <1>3 DEF Consistent, SlotHolders
<1>9. /\ \A m \in Models : t.inFlight[m] =
           Cardinality(Of(SlotHolders(t, asleep \cup {r}, started), m))
      /\ t.interactiveRunning =
           Cardinality(SlotHolders(t, asleep \cup {r}, started) \cap Interactive)
  BY <1>2, <1>4 DEF Consistent
<1> QED
  BY <1>1, <1>9, <1>8, Zenon DEF Consistent

(* A waiter that was not released leaves (scheduler.py 165-167).           *)
LEMMA LeaveConsistent ==
  ASSUME NEW s, NEW asleep, NEW started, Consistent(s, asleep, started),
         NEW r \in Req, r \notin s.event
  PROVE  Consistent(Leave(s, {r}), asleep \ {r}, started)
<1> DEFINE t == Leave(s, {r})
<1>1. s \in SchedType /\ t \in SchedType
  BY LeaveType DEF Consistent
<1>2. /\ t.waiting = s.waiting \ {r}
      /\ t.event = s.event
      /\ t.inFlight = s.inFlight
      /\ t.interactiveRunning = s.interactiveRunning
  BY <1>1 DEF Leave, SchedType
<1>3. SlotHolders(t, asleep \ {r}, started) = SlotHolders(s, asleep, started)
  BY <1>2 DEF SlotHolders
<1>8. /\ asleep \ {r} \in SUBSET Req
      /\ started \in SUBSET Req
      /\ (asleep \ {r}) \cap started = {}
      /\ t.waiting = (asleep \ {r}) \ t.event
      /\ t.event \subseteq (asleep \ {r}) \cup started
  BY <1>2 DEF Consistent, SlotHolders
<1>9. /\ \A m \in Models : t.inFlight[m] =
           Cardinality(Of(SlotHolders(t, asleep \ {r}, started), m))
      /\ t.interactiveRunning =
           Cardinality(SlotHolders(t, asleep \ {r}, started) \cap Interactive)
  BY <1>2, <1>3 DEF Consistent
<1> QED
  BY <1>1, <1>9, <1>8, Zenon DEF Consistent

(* A waiter whose event is set runs on (scheduler.py 151-152, 168).        *)
LEMMA WakeConsistent ==
  ASSUME NEW s, NEW asleep, NEW started, Consistent(s, asleep, started),
         NEW r \in asleep, r \in s.event
  PROVE  Consistent(s, asleep \ {r}, started \cup {r})
<1>1. SlotHolders(s, asleep \ {r}, started \cup {r}) =
      SlotHolders(s, asleep, started)
  BY DEF SlotHolders
<1> QED
  BY <1>1 DEF Consistent

(* A switch counts the whole batch it releases (scheduler.py 269-280).     *)
LEMMA SwitchToConsistent ==
  ASSUME NEW s, NEW asleep, NEW started, Consistent(s, asleep, started),
         NEW m \in Models
  PROVE  Consistent(SwitchTo(s, m), asleep, started)
<1> DEFINE t == SwitchTo(s, m)
           T == {w \in s.waiting : ReqModel[w] = m}
           H == SlotHolders(s, asleep, started)
           G == SlotHolders(t, asleep, started)
<1>1. s \in SchedType /\ t \in SchedType /\ T \in SUBSET Req
  BY SwitchToType DEF Consistent, SchedType
<1>2. /\ t.waiting = s.waiting \ T
      /\ t.event = s.event \cup T
      /\ t.inFlight = Add(s.inFlight, m, Cardinality(T))
      /\ t.interactiveRunning =
           s.interactiveRunning + Cardinality(T \cap Interactive)
  <2> HIDE DEF T
  <2>1. Leave(s, T).waiting = s.waiting \ T /\ Leave(s, T) \in SchedType
    BY <1>1, LeaveType DEF Leave, SchedType
  <2>2. t = [Leave(s, T) EXCEPT !.admitted = m, !.draining = FALSE,
               !.inFlight = Add(s.inFlight, m, Cardinality(T)),
               !.interactiveRunning =
                  s.interactiveRunning + Cardinality(T \cap Interactive),
               !.event = s.event \cup T]
    BY DEF SwitchTo, T
  <2> HIDE DEF t
  <2> QED
    BY <2>1, <2>2 DEF SchedType
<1>3. /\ H \in SUBSET Req
      /\ H \cap T = {}
      /\ G = H \cup T
      /\ \A x \in T : ReqModel[x] = m
  BY <1>2 DEF SlotHolders, Consistent
<1>4. /\ Cardinality(Of(G, m)) = Cardinality(Of(H, m)) + Cardinality(T)
      /\ \A k \in Models : k # m => Of(G, k) = Of(H, k)
      /\ Cardinality(G \cap Interactive) =
         Cardinality(H \cap Interactive) + Cardinality(T \cap Interactive)
  <2> HIDE DEF H, G, T, t
  <2> QED
    BY <1>1, <1>3, CountBatch
<1>5. ASSUME NEW k \in Models
      PROVE  t.inFlight[k] = Cardinality(Of(G, k))
  <2>1. s.inFlight[k] = Cardinality(Of(H, k)) /\ s.inFlight \in [Models -> Nat]
    BY DEF Consistent, SchedType
  <2> HIDE DEF H, G, T, t
  <2> QED
    BY <1>2, <1>4, <2>1 DEF Add
<1>6. t.interactiveRunning = Cardinality(G \cap Interactive)
  BY <1>2, <1>4 DEF Consistent
<1>7. /\ t.waiting = asleep \ t.event
      /\ t.event \subseteq asleep \cup started
  BY <1>2 DEF Consistent
<1>8. /\ asleep \in SUBSET Req
      /\ started \in SUBSET Req
      /\ asleep \cap started = {}
      /\ t.waiting = asleep \ t.event
      /\ t.event \subseteq asleep \cup started
  BY <1>7 DEF Consistent, SlotHolders
<1> QED
  BY <1>1, <1>5, <1>6, <1>8, Zenon DEF Consistent


(* The fields of a scheduler that are not about slots may change freely.   *)
LEMMA SameSlots ==
  ASSUME NEW s, NEW asleep, NEW started, Consistent(s, asleep, started),
         NEW t \in SchedType,
         t.waiting = s.waiting, t.event = s.event, t.inFlight = s.inFlight,
         t.interactiveRunning = s.interactiveRunning
  PROVE  Consistent(t, asleep, started)
<1>1. SlotHolders(t, asleep, started) = SlotHolders(s, asleep, started)
  BY DEF SlotHolders
<1> QED
  BY <1>1, Zenon DEF Consistent

(* The start of a switch, at once or by way of an eviction (244-252).      *)
LEMMA BeginSwitchConsistent ==
  ASSUME NEW s, NEW asleep, NEW started, Consistent(s, asleep, started),
         NEW m \in Models
  PROVE  Consistent(BeginSwitch(s, m), asleep, started)
<1>1. CASE CrossesBackends(s, m)
  <2> DEFINE tasks == Add(s.evictTasks, m, 1)
             t == [s EXCEPT !.evicting = m, !.evictTasks = tasks]
  <2>1. s \in SchedType
    BY DEF Consistent
  <2>2. tasks \in [Models -> Nat]
    BY <2>1, CounterTypes DEF SchedType
  <2> HIDE DEF tasks
  <2>3. t \in SchedType
    BY <2>1, <2>2 DEF SchedType
  <2>4. /\ t.waiting = s.waiting /\ t.event = s.event /\ t.inFlight = s.inFlight
        /\ t.interactiveRunning = s.interactiveRunning
    BY <2>1 DEF SchedType
  <2>5. BeginSwitch(s, m) = t
    BY <1>1 DEF BeginSwitch, tasks
  <2> HIDE DEF t
  <2> QED
    BY <2>3, <2>4, <2>5, SameSlots
<1>2. CASE ~CrossesBackends(s, m)
  BY <1>2, SwitchToConsistent DEF BeginSwitch
<1> QED
  BY <1>1, <1>2

(* The end of an eviction (254-267).                                       *)
LEMMA EvictedConsistent ==
  ASSUME NEW s, NEW asleep, NEW started, Consistent(s, asleep, started),
         NEW m \in Models, s.evictTasks[m] > 0
  PROVE  Consistent(Evicted(s, m), asleep, started)
<1> DEFINE tasks == Add(s.evictTasks, m, -1)
           t == [s EXCEPT !.evicting = None, !.evictTasks = tasks]
<1>1. s \in SchedType
  BY DEF Consistent
<1>2. tasks \in [Models -> Nat]
  BY <1>1, CounterTypes DEF SchedType
<1> HIDE DEF tasks
<1>3. t \in SchedType
  BY <1>1, <1>2 DEF SchedType
<1>4. /\ t.waiting = s.waiting /\ t.event = s.event /\ t.inFlight = s.inFlight
      /\ t.interactiveRunning = s.interactiveRunning
  BY <1>1 DEF SchedType
<1>5. Evicted(s, m) = SwitchTo(t, m)
  BY DEF Evicted, tasks
<1> HIDE DEF t
<1>6. Consistent(t, asleep, started)
  BY <1>3, <1>4, SameSlots
<1> QED
  BY <1>5, <1>6, SwitchToConsistent

(* Everything a call of _maybe_switch can leave behind (225-242).          *)
LEMMA MaybeSwitchConsistent ==
  ASSUME NEW s, NEW asleep, NEW started, Consistent(s, asleep, started),
         NEW t \in MaybeSwitch(s)
  PROVE  Consistent(t, asleep, started)
<1>1. s \in SchedType
  BY DEF Consistent
<1>2. CASE t = s
  BY <1>2
<1>3. CASE \E w \in Oldest(s) : t = [s EXCEPT !.draining = s.draining \/ w \in s.starved]
  <2>1. PICK w \in Oldest(s) :
          t = [s EXCEPT !.draining = s.draining \/ w \in s.starved]
    BY <1>3
  <2> DEFINE d == s.draining \/ w \in s.starved
  <2>2. d \in BOOLEAN
    BY Zenon
  <2>3. t = [s EXCEPT !.draining = d]
    BY <2>1
  <2> HIDE DEF d
  <2>4. /\ t \in SchedType
        /\ t.waiting = s.waiting /\ t.event = s.event /\ t.inFlight = s.inFlight
        /\ t.interactiveRunning = s.interactiveRunning
    BY <1>1, <2>2, <2>3 DEF SchedType
  <2> QED
    BY <2>4, SameSlots
<1>4. CASE \E w \in Oldest(s) : t = BeginSwitch(s, ReqModel[w])
  <2>1. PICK w \in Oldest(s) : t = BeginSwitch(s, ReqModel[w])
    BY <1>4
  <2>2. ReqModel[w] \in Models
    BY <1>1, <2>1, RequestsAssumption DEF Oldest, Pool, SchedType
  <2> QED
    BY <2>1, <2>2, BeginSwitchConsistent
<1> QED
  BY <1>2, <1>3, <1>4 DEF MaybeSwitch, PassFor

-----------------------------------------------------------------------------
(* The invariant: the counters of the scheduler agree with the program     *)
(* counters of its callers.                                                *)

Asleep == {r \in Req : pc[r] \in {"wait", "hold"}}
Started == {r \in Req : pc[r] \in {"run", "bypass"}}

SlotInv == /\ TypeOK
           /\ Consistent(sched, Asleep, Started)

(* What SlotInv says is what the runs check.                               *)
LEMMA SlotInvImplies == SlotInv => TypeOK /\ SlotAccounting /\ QueueConsistent
<1> SUFFICES ASSUME SlotInv PROVE SlotAccounting /\ QueueConsistent
  BY DEF SlotInv
<1>1. Holders = SlotHolders(sched, Asleep, Started)
  BY DEF Holders, Scheduled, Granted, SlotHolders, Asleep, Started
<1>2. \A m \in Models :
        HoldersOf(m) = Of(SlotHolders(sched, Asleep, Started), m)
  BY <1>1 DEF HoldersOf, Of
<1>3. SlotAccounting
  BY <1>1, <1>2 DEF SlotAccounting, SlotInv, Consistent
<1>4. QueueConsistent
  BY DEF QueueConsistent, SlotInv, Consistent, Asleep, Started
<1> QED
  BY <1>3, <1>4

(* Nobody holds a slot in the initial state.                               *)
LEMMA InitSlotInv == Init => SlotInv
<1> SUFFICES ASSUME Init PROVE SlotInv
  OBVIOUS
<1>1. TypeOK
  BY DEF Init, TypeOK, SchedType, PC
<1>2. Asleep = {} /\ Started = {}
  BY DEF Init, Asleep, Started
<1>3. /\ sched.waiting = {} /\ sched.event = {}
      /\ \A m \in Models : sched.inFlight[m] = 0
      /\ sched.interactiveRunning = 0
  BY DEF Init
<1>4. SlotHolders(sched, Asleep, Started) = {}
  BY <1>2 DEF SlotHolders
<1>5. \A m \in Models : Of(SlotHolders(sched, Asleep, Started), m) = {}
  BY <1>4 DEF Of
<1>6. Cardinality({}) = 0
  BY FS_EmptySet
<1>7. SlotHolders(sched, Asleep, Started) \cap Interactive = {}
  BY <1>4
<1> QED
  BY <1>1, <1>2, <1>3, <1>5, <1>6, <1>7 DEF SlotInv, Consistent, TypeOK

(* A caller falls asleep as a waiter.                                      *)
LEMMA Sleeps ==
  ASSUME TypeOK, NEW r \in Req, r \notin Started,
         \E where \in {"wait", "hold"} : pc' = [pc EXCEPT ![r] = where]
  PROVE  /\ pc' \in [Req -> PC]
         /\ Asleep' = Asleep \cup {r}
         /\ Started' = Started
  BY DEF TypeOK, PC, Asleep, Started

(* A caller is started.                                                    *)
LEMMA Runs ==
  ASSUME TypeOK, NEW r \in Req,
         \E where \in {"run", "bypass"} : pc' = [pc EXCEPT ![r] = where]
  PROVE  /\ pc' \in [Req -> PC]
         /\ Asleep' = Asleep \ {r}
         /\ Started' = Started \cup {r}
  BY DEF TypeOK, PC, Asleep, Started

(* A caller is neither asleep nor started.                                 *)
LEMMA StandsApart ==
  ASSUME TypeOK, NEW r \in Req,
         \E where \in {"idle", "foreign", "beside"} : pc' = [pc EXCEPT ![r] = where]
  PROVE  /\ pc' \in [Req -> PC]
         /\ Asleep' = Asleep \ {r}
         /\ Started' = Started \ {r}
  BY DEF TypeOK, PC, Asleep, Started

(* A caller outside the scheduler is started (191-195).                    *)
LEMMA BeginStep ==
  ASSUME TypeOK, NEW r \in Req, r \notin Asleep, r \notin Started,
         NEW s, Consistent(s, Asleep, Started), Begin(r, s)
  PROVE  /\ Consistent(sched', Asleep', Started')
         /\ pc' \in [Req -> PC]
         /\ UNCHANGED probes
<1>0. Asleep \ {r} = Asleep
  OBVIOUS
<1>1. /\ Asleep' = Asleep /\ Started' = Started \cup {r}
      /\ pc' \in [Req -> PC]
  BY <1>0, Runs DEF Begin
<1>2. r \notin s.event
  BY DEF Consistent
<1>3. Consistent(Leave(s, {r}), Asleep, Started)
  BY <1>0, <1>2, LeaveConsistent
<1>4. Consistent(Start(Leave(s, {r}), r), Asleep, Started \cup {r})
  BY <1>3, StartConsistent
<1> QED
  BY <1>1, <1>4 DEF Begin

(* A waiter after its call of _maybe_switch (151-160).                     *)
LEMMA SettleStep ==
  ASSUME TypeOK, NEW r \in Req, r \notin Started,
         NEW s, Consistent(s, Asleep \cup {r}, Started), Settle(r, s)
  PROVE  Consistent(sched', Asleep', Started') /\ pc' \in [Req -> PC]
<1>1. CASE r \in s.event /\ sched' = s /\ pc' = [pc EXCEPT ![r] = "run"]
  <2>0. Asleep \ {r} = (Asleep \cup {r}) \ {r}
    OBVIOUS
  <2>1. /\ Asleep' = (Asleep \cup {r}) \ {r} /\ Started' = Started \cup {r}
        /\ pc' \in [Req -> PC]
    BY <1>1, <2>0, Runs
  <2>2. Consistent(s, (Asleep \cup {r}) \ {r}, Started \cup {r})
    BY <1>1, WakeConsistent
  <2> QED
    BY <1>1, <2>1, <2>2
<1>2. CASE r \notin s.event /\ sched' = Leave(s, {r}) /\ pc' = [pc EXCEPT ![r] = "idle"]
  <2>0. Asleep \ {r} = (Asleep \cup {r}) \ {r} /\ Started \ {r} = Started
    OBVIOUS
  <2>1. /\ Asleep' = (Asleep \cup {r}) \ {r} /\ Started' = Started
        /\ pc' \in [Req -> PC]
    BY <1>2, <2>0, StandsApart
  <2>2. Consistent(Leave(s, {r}), (Asleep \cup {r}) \ {r}, Started)
    BY <1>2, LeaveConsistent
  <2> QED
    BY <1>2, <2>1, <2>2
<1>3. CASE sched' = s /\ pc' = [pc EXCEPT ![r] = "wait"]
  <2>1. /\ Asleep' = Asleep \cup {r} /\ Started' = Started
        /\ pc' \in [Req -> PC]
    BY <1>3, Sleeps
  <2> QED
    BY <1>3, <2>1
<1> QED
  BY <1>1, <1>2, <1>3 DEF Settle

(* A turn of the waiter's loop, up to its next suspension (149-160).       *)
LEMMA PollStep ==
  ASSUME TypeOK, NEW r \in Req, r \notin Started,
         NEW s, Consistent(s, Asleep \cup {r}, Started), Poll(r, s)
  PROVE  /\ Consistent(sched', Asleep', Started')
         /\ pc' \in [Req -> PC]
         /\ probes' \subseteq [by: Req \cup {None}, target: Models]
<1>1. CASE \E t \in MaybeSwitch(s) : Settle(r, t) /\ UNCHANGED probes
  <2>1. PICK t \in MaybeSwitch(s) : Settle(r, t) /\ UNCHANGED probes
    BY <1>1
  <2>2. Consistent(t, Asleep \cup {r}, Started)
    BY MaybeSwitchConsistent
  <2> QED
    BY <2>1, <2>2, SettleStep DEF TypeOK
<1>2. CASE \E m \in HoldTargets(s) :
             /\ sched' = s
             /\ pc' = [pc EXCEPT ![r] = "hold"]
             /\ probes' = probes \cup {[by |-> r, target |-> m]}
  <2>1. PICK m \in HoldTargets(s) :
             /\ sched' = s
             /\ pc' = [pc EXCEPT ![r] = "hold"]
             /\ probes' = probes \cup {[by |-> r, target |-> m]}
    BY <1>2
  <2>2. m \in Models
    BY RequestsAssumption DEF HoldTargets, Oldest, Pool, Consistent, SchedType
  <2>3. /\ Asleep' = Asleep \cup {r} /\ Started' = Started
        /\ pc' \in [Req -> PC]
    BY <2>1, Sleeps
  <2>4. probes' \subseteq [by: Req \cup {None}, target: Models]
    BY <2>1, <2>2 DEF TypeOK
  <2> QED
    BY <2>1, <2>3, <2>4
<1> QED
  BY <1>1, <1>2 DEF Poll

(* A caller queues and polls for the first time (146-160).                 *)
LEMMA EnqueueStep ==
  ASSUME TypeOK, NEW r \in Req, r \notin Asleep, r \notin Started,
         NEW s, Consistent(s, Asleep, Started), Enqueue(r, s)
  PROVE  /\ Consistent(sched', Asleep', Started')
         /\ pc' \in [Req -> PC]
         /\ probes' \subseteq [by: Req \cup {None}, target: Models]
<1>1. PICK aged \in Ages(s, r) : Poll(r, Join(s, r, aged))
  BY DEF Enqueue
<1>2. Consistent(Join(s, r, aged), Asleep \cup {r}, Started)
  BY JoinConsistent
<1> QED
  BY <1>1, <1>2, PollStep

(* _can_run after the probe for foreign models (209-214).                  *)
LEMMA ForeignStep ==
  ASSUME TypeOK, NEW r \in Req, r \notin Asleep, r \notin Started,
         NEW s, Consistent(s, Asleep, Started), ForeignVerdict(r, s)
  PROVE  /\ Consistent(sched', Asleep', Started')
         /\ pc' \in [Req -> PC]
         /\ probes' \subseteq [by: Req \cup {None}, target: Models]
<1>1. ASSUME NEW m \in Models
      PROVE  Consistent([s EXCEPT !.admitted = m], Asleep, Started)
  <2> DEFINE t == [s EXCEPT !.admitted = m]
  <2>1. /\ t \in SchedType /\ t.waiting = s.waiting /\ t.event = s.event
        /\ t.inFlight = s.inFlight
        /\ t.interactiveRunning = s.interactiveRunning
    BY DEF Consistent, SchedType
  <2> HIDE DEF t
  <2>2. Consistent(t, Asleep, Started)
    BY <2>1, SameSlots
  <2> QED
    BY <2>2 DEF t
<1>2. ReqModel[r] \in Models
  BY RequestsAssumption
<1>3. CASE Begin(r, [s EXCEPT !.admitted = ReqModel[r]])
  BY <1>1, <1>2, <1>3, BeginStep DEF TypeOK
<1>4. CASE \E f \in Models : Enqueue(r, [s EXCEPT !.admitted = f])
  <2>1. PICK f \in Models : Enqueue(r, [s EXCEPT !.admitted = f])
    BY <1>4
  <2> QED
    BY <1>1, <2>1, EnqueueStep
<1> QED
  BY <1>3, <1>4 DEF ForeignVerdict

(* A caller that starts, or queues (143-160).                              *)
LEMMA StartsOrQueues ==
  ASSUME TypeOK, NEW r \in Req, r \notin Asleep, r \notin Started,
         NEW s, Consistent(s, Asleep, Started), Begin(r, s) \/ Enqueue(r, s)
  PROVE  /\ Consistent(sched', Asleep', Started')
         /\ pc' \in [Req -> PC]
         /\ probes' \subseteq [by: Req \cup {None}, target: Models]
<1>1. CASE Begin(r, s)
  BY <1>1, BeginStep DEF TypeOK
<1>2. CASE Enqueue(r, s)
  BY <1>2, EnqueueStep
<1> QED
  BY <1>1, <1>2

(* release and the task it creates (170-187).                              *)
LEMMA FreeAndKickStep ==
  ASSUME SlotInv, NEW r \in SlotHolders(sched, Asleep, Started), FreeAndKick(r)
  PROVE  Consistent(sched', Asleep \ {r}, Started \ {r}) /\ kicks' \in Nat
<1>1. Consistent(FreeSlot(sched, r), Asleep \ {r}, Started \ {r})
  BY FreeSlotConsistent DEF SlotInv
<1>2. kicks' \in Nat
  BY DEF FreeAndKick, One, SlotInv, TypeOK
<1> QED
  BY <1>1, <1>2 DEF FreeAndKick

(* Every step says whether it was late.                                    *)
LEMMA StaleType == stale \in BOOLEAN /\ [Next]_vars => stale' \in BOOLEAN
<1>1. ASSUME NEW late, Remember(late) PROVE stale' \in BOOLEAN
  BY <1>1 DEF Remember
<1>2. ASSUME NEW r \in Req, CallerNext(r) PROVE stale' \in BOOLEAN
  BY <1>1, <1>2 DEF CallerNext, AcquireDisabled, Acquire, ForeignAnswer, BesideAnswer,
     Wake, HoldAnswer, Release, Cancel, Starve
<1>3. ASSUME Kick \/ KickAnswer \/ EvictDone \/ Refresh \/ HoldExpires
      PROVE  stale' \in BOOLEAN
  BY <1>1, <1>3 DEF Kick, KickAnswer, EvictDone, Refresh, HoldExpires
<1> QED
  BY <1>2, <1>3 DEF Next, vars

(* Every step of the scheduler and its callers keeps the slots in order.   *)
LEMMA NextSlotInv == SlotInv /\ [Next]_vars => SlotInv'
<1> SUFFICES ASSUME SlotInv, [Next]_vars PROVE SlotInv'
  OBVIOUS
<1> DEFINE Probes == [by: Req \cup {None}, target: Models]
<1>1. /\ TypeOK
      /\ Consistent(sched, Asleep, Started)
      /\ sched \in SchedType /\ probes \subseteq Probes /\ kicks \in Nat
  BY DEF SlotInv, TypeOK
<1>0. stale' \in BOOLEAN
  BY StaleType DEF SlotInv, TypeOK
<1>2. ASSUME /\ Consistent(sched', Asleep', Started')
             /\ pc' \in [Req -> PC]
             /\ probes' \subseteq Probes
             /\ kicks' \in Nat
      PROVE  SlotInv'
  BY <1>0, <1>2, Zenon DEF SlotInv, TypeOK, Consistent
<1>3. ASSUME UNCHANGED vars
      PROVE  SlotInv'
  BY <1>1, <1>3 DEF SlotInv, TypeOK, vars, Consistent, Asleep, Started, Of, SlotHolders
<1>4. ASSUME sched' \in SchedType,
             sched'.waiting = sched.waiting, sched'.event = sched.event,
             sched'.inFlight = sched.inFlight,
             sched'.interactiveRunning = sched.interactiveRunning,
             UNCHANGED pc
      PROVE  Consistent(sched', Asleep', Started')
  <2>1. Asleep' = Asleep /\ Started' = Started
    BY <1>4 DEF Asleep, Started
  <2> QED
    BY <1>1, <1>4, <2>1, SameSlots
<1>5. ASSUME NEW r \in Req, pc[r] \in {"idle", "foreign", "beside"}
      PROVE  r \notin Asleep /\ r \notin Started
  BY <1>5 DEF Asleep, Started
<1>6. ASSUME NEW r \in Req, AcquireDisabled(r)
      PROVE  SlotInv'
  <2>1. r \notin Asleep /\ r \notin Started
    BY <1>5, <1>6 DEF AcquireDisabled
  <2>2. /\ pc' \in [Req -> PC]
        /\ Asleep' = Asleep \ {r}
        /\ Started' = Started \cup {r}
    BY <1>1, <1>6, Runs DEF AcquireDisabled
  <2>3. Asleep \ {r} = Asleep
    BY <2>1
  <2>4. Consistent(Start(sched, r), Asleep, Started \cup {r})
    BY <1>1, <2>1, StartConsistent
  <2> QED
    BY <1>1, <1>2, <1>6, <2>2, <2>3, <2>4 DEF AcquireDisabled
<1>7. ASSUME NEW r \in Req, Acquire(r)
      PROVE  SlotInv'
  <2>1. r \notin Asleep /\ r \notin Started /\ kicks' = kicks
    BY <1>5, <1>7 DEF Acquire
  <2>2. PICK ahead \in Places(r) : CanRun(r, Arrive(r, ahead))
    BY <1>7 DEF Acquire
  <2> DEFINE s == Arrive(r, ahead)
  <2>3. /\ s \in SchedType
        /\ s.waiting = sched.waiting /\ s.event = sched.event
        /\ s.inFlight = sched.inFlight
        /\ s.interactiveRunning = sched.interactiveRunning
    BY <1>1, ArriveType DEF SchedType
  <2>4. CanRun(r, s)
    BY <2>2
  <2> HIDE DEF s
  <2>5. Consistent(s, Asleep, Started)
    BY <1>1, <2>3, SameSlots
  <2>6. CASE ForeignVerdict(r, s)
    BY <1>1, <1>2, <2>1, <2>5, <2>6, ForeignStep
  <2>7. CASE Begin(r, s) \/ Enqueue(r, s)
    BY <1>1, <1>2, <2>1, <2>5, <2>7, StartsOrQueues
  <2>8. CASE Suspend(r, s, "foreign") \/ Suspend(r, s, "beside")
    <3>1. /\ pc' \in [Req -> PC]
          /\ Asleep' = Asleep \ {r} /\ Started' = Started \ {r}
      BY <1>1, <2>8, StandsApart DEF Suspend
    <3>2. Asleep \ {r} = Asleep /\ Started \ {r} = Started
      BY <2>1
    <3> QED
      BY <1>1, <1>2, <2>1, <2>5, <2>8, <3>1, <3>2 DEF Suspend
  <2> QED
    BY <2>4, <2>6, <2>7, <2>8 DEF CanRun, BesideVerdict
<1>8. ASSUME NEW r \in Req, ForeignAnswer(r)
      PROVE  SlotInv'
  BY <1>1, <1>2, <1>5, <1>8, ForeignStep DEF ForeignAnswer
<1>9. ASSUME NEW r \in Req, BesideAnswer(r)
      PROVE  SlotInv'
  <2>1. /\ Begin(r, sched) \/ Enqueue(r, sched)
        /\ kicks' = kicks /\ r \notin Asleep /\ r \notin Started
    BY <1>5, <1>9 DEF BesideAnswer
  <2> QED
    BY <1>1, <1>2, <2>1, StartsOrQueues
<1>10. ASSUME NEW r \in Asleep
       PROVE  r \in Req /\ r \notin Started /\ Asleep \cup {r} = Asleep
  BY <1>10 DEF Asleep, Started
<1>11. ASSUME NEW r \in Req, Wake(r)
       PROVE  SlotInv'
  <2>1. r \in Asleep
    BY <1>11 DEF Wake, Asleep
  <2> QED
    BY <1>1, <1>2, <1>10, <1>11, <2>1, PollStep DEF Wake
<1>12. ASSUME NEW p \in probes
       PROVE  \A t \in Switches(p.target) \cup {sched} : Consistent(t, Asleep, Started)
  <2>1. p.target \in Models
    BY <1>1
  <2> QED
    BY <1>1, <2>1, BeginSwitchConsistent DEF Switches
<1>13. ASSUME NEW r \in Req, HoldAnswer(r)
       PROVE  SlotInv'
  <2>1. PICK p \in probes :
          /\ p.by = r
          /\ pc[r] = "hold"
          /\ \E t \in Switches(p.target) \cup {sched} : Settle(r, t)
          /\ probes' = probes \ {p}
          /\ UNCHANGED kicks
    BY <1>13 DEF HoldAnswer
  <2>2. PICK t \in Switches(p.target) \cup {sched} : Settle(r, t)
    BY <2>1
  <2>3. r \in Asleep
    BY <2>1 DEF Asleep
  <2>4. Consistent(t, Asleep \cup {r}, Started)
    BY <1>10, <1>12, <2>3
  <2>5. Consistent(sched', Asleep', Started') /\ pc' \in [Req -> PC]
    BY <1>1, <1>10, <2>2, <2>3, <2>4, SettleStep
  <2> QED
    BY <1>1, <1>2, <2>1, <2>5
<1>14. ASSUME NEW r \in Req, Release(r)
       PROVE  SlotInv'
  <2>1. r \in SlotHolders(sched, Asleep, Started)
    BY <1>14 DEF Release, SlotHolders, Started
  <2>2. Consistent(sched', Asleep \ {r}, Started \ {r}) /\ kicks' \in Nat
    BY <1>14, <2>1, FreeAndKickStep DEF Release
  <2>3. /\ pc' \in [Req -> PC]
        /\ Asleep' = Asleep \ {r} /\ Started' = Started \ {r}
    BY <1>1, <1>14, StandsApart DEF Release
  <2> QED
    BY <1>1, <1>2, <1>14, <2>2, <2>3 DEF Release
<1>15. ASSUME NEW r \in Req, Cancel(r)
       PROVE  SlotInv'
  <2>1. /\ pc' \in [Req -> PC]
        /\ Asleep' = Asleep \ {r} /\ Started' = Started \ {r}
    BY <1>1, <1>15, StandsApart DEF Cancel
  <2>2. r \notin Started /\ Started \ {r} = Started
    BY <1>15 DEF Cancel, Started
  <2>3. probes' \subseteq Probes
    BY <1>1, <1>15 DEF Cancel
  <2>4. CASE r \in sched.event
    <3>1. r \in Asleep
      BY <1>1, <2>2, <2>4 DEF Consistent
    <3>2. r \in SlotHolders(sched, Asleep, Started)
      BY <2>4, <3>1 DEF SlotHolders
    <3>3. Consistent(sched', Asleep \ {r}, Started \ {r}) /\ kicks' \in Nat
      BY <1>15, <2>4, <3>2, FreeAndKickStep DEF Cancel
    <3> QED
      BY <1>2, <2>1, <2>3, <3>3
  <2>5. CASE r \notin sched.event
    <3>1. Consistent(Leave(sched, {r}), Asleep \ {r}, Started)
      BY <1>1, <2>5, LeaveConsistent
    <3> QED
      BY <1>1, <1>2, <1>15, <2>1, <2>2, <2>3, <2>5, <3>1 DEF Cancel
  <2> QED
    BY <2>4, <2>5
<1>16. ASSUME NEW r \in Req, Starve(r)
       PROVE  SlotInv'
  <2>1. /\ sched' \in SchedType
        /\ sched'.waiting = sched.waiting /\ sched'.event = sched.event
        /\ sched'.inFlight = sched.inFlight
        /\ sched'.interactiveRunning = sched.interactiveRunning
    BY <1>1, <1>16 DEF Starve, SchedType
  <2> QED
    BY <1>1, <1>2, <1>4, <1>16, <2>1 DEF Starve, TypeOK
<1>17. ASSUME UNCHANGED pc
       PROVE  Asleep' = Asleep /\ Started' = Started /\ pc' \in [Req -> PC]
  BY <1>1, <1>17 DEF Asleep, Started, TypeOK
<1>18. ASSUME Kick
       PROVE  SlotInv'
  <2>1. kicks' \in Nat /\ UNCHANGED pc
    BY <1>1, <1>18 DEF Kick
  <2>2. CASE sched' \in MaybeSwitch(sched) /\ UNCHANGED probes
    <3>1. Consistent(sched', Asleep, Started)
      BY <1>1, <2>2, MaybeSwitchConsistent
    <3> QED
      BY <1>1, <1>2, <1>17, <2>1, <2>2, <3>1
  <2>3. CASE \E m \in HoldTargets(sched) :
               probes' = probes \cup {[by |-> None, target |-> m]} /\ UNCHANGED sched
    <3>1. HoldTargets(sched) \subseteq Models
      BY <1>1, RequestsAssumption DEF HoldTargets, Oldest, Pool, SchedType
    <3>2. probes' \subseteq Probes
      BY <1>1, <2>3, <3>1
    <3> QED
      BY <1>1, <1>2, <1>17, <2>1, <2>3, <3>2
  <2> QED
    BY <1>18, <2>2, <2>3 DEF Kick
<1>19. ASSUME KickAnswer
       PROVE  SlotInv'
  <2>1. PICK p \in KickProbes :
          /\ sched' \in Switches(p.target) \cup {sched}
          /\ probes' = probes \ {p}
          /\ UNCHANGED <<pc, kicks>>
    BY <1>19 DEF KickAnswer
  <2>2. Consistent(sched', Asleep, Started)
    BY <1>12, <2>1 DEF KickProbes
  <2> QED
    BY <1>1, <1>2, <1>17, <2>1, <2>2
<1>20. ASSUME EvictDone
       PROVE  SlotInv'
  <2>1. PICK m \in Models :
          /\ sched.evictTasks[m] > 0
          /\ sched' = Evicted(sched, m)
          /\ UNCHANGED <<pc, probes, kicks>>
    BY <1>20 DEF EvictDone
  <2>2. Consistent(sched', Asleep, Started)
    BY <1>1, <2>1, EvictedConsistent
  <2> QED
    BY <1>1, <1>2, <1>17, <2>1, <2>2
<1>21. ASSUME Refresh \/ HoldExpires
       PROVE  SlotInv'
  <2>1. /\ sched' \in SchedType
        /\ sched'.waiting = sched.waiting /\ sched'.event = sched.event
        /\ sched'.inFlight = sched.inFlight
        /\ sched'.interactiveRunning = sched.interactiveRunning
    <3>1. CASE Refresh
      BY <1>1, <3>1 DEF Refresh, SchedType
    <3>2. CASE HoldExpires
      BY <1>1, <3>2 DEF HoldExpires, SchedType
    <3> QED
      BY <1>21, <3>1, <3>2
  <2> QED
    BY <1>1, <1>2, <1>4, <1>17, <1>21, <2>1 DEF Refresh, HoldExpires
<1> QED
  BY <1>3, <1>6, <1>7, <1>8, <1>9, <1>11, <1>13, <1>14, <1>15, <1>16, <1>18,
     <1>19, <1>20, <1>21 DEF Next, CallerNext

(* The fields of the scheduler always have their types, and the slots it   *)
(* counts are exactly the requests that hold one, whoever was released,    *)
(* timed out or cancelled, with a probe that suspends or one that does not *)
(* (acquire, release, _start, _switch_to).                                 *)
THEOREM SlotsSafe == Spec => [](TypeOK /\ SlotAccounting /\ QueueConsistent)
<1>1. Spec => []SlotInv
  BY InitSlotInv, NextSlotInv, PTL DEF Spec
<1> QED
  BY <1>1, SlotInvImplies, PTL

(* No waiter is lost: a caller asleep in acquire is in the queue or has    *)
(* been woken, and nobody else is in the queue, for any set of callers     *)
(* (acquire 146-167, _switch_to 273-280).                                  *)
THEOREM NobodyIsLost == Spec => []QueueConsistent
BY SlotsSafe, PTL

(* The fields of the scheduler keep their types; the counters of running   *)
(* requests never go below zero (release 170-178).                         *)
THEOREM SchedulerTyped == Spec => []TypeOK
BY SlotsSafe, PTL

-----------------------------------------------------------------------------
(* What every step keeps, late answers included: the task that evicting    *)
(* calls for, and an admitted model.                                       *)

Owed(s) == s.evicting # None => s.evictTasks[s.evicting] > 0

Kept(s, t) == /\ Owed(s) => Owed(t)
              /\ s.admitted # None => t.admitted # None

(* The fields that concern the card.                                       *)
SameCard(s, t) ==
  /\ t.admitted = s.admitted /\ t.draining = s.draining
  /\ t.evicting = s.evicting /\ t.evictTasks = s.evictTasks

LEMMA SameIsKept == \A s, t : SameCard(s, t) => Kept(s, t)
  BY DEF SameCard, Kept, Owed

LEMMA KeptOn == \A s, t, u : Kept(s, t) /\ Kept(t, u) => Kept(s, u)
  BY DEF Kept

(* The methods that leave the card alone: a start, a slot given back, a    *)
(* waiter that comes or leaves (146-147, 165-167, 170-195).                *)
LEMMA OtherMethods ==
  ASSUME NEW s \in SchedType, NEW r \in Req
  PROVE  /\ SameCard(s, Start(s, r)) /\ Start(s, r).waiting = s.waiting
         /\ Start(s, r).event = s.event
         /\ SameCard(s, FreeSlot(s, r)) /\ FreeSlot(s, r).waiting = s.waiting
         /\ FreeSlot(s, r).event = s.event \ {r}
         /\ Leave(s, {r}) \in SchedType
         /\ SameCard(s, Leave(s, {r})) /\ Leave(s, {r}).waiting = s.waiting \ {r}
         /\ Leave(s, {r}).event = s.event
         /\ \A aged : /\ SameCard(s, Join(s, r, aged))
                      /\ Join(s, r, aged).event = s.event
<1>1. FreeSlot(s, r) \in SchedType /\ Leave(s, {r}) \in SchedType
  BY FreeSlotType, LeaveType
<1>2. /\ SameCard(s, Start(s, r)) /\ Start(s, r).waiting = s.waiting
      /\ Start(s, r).event = s.event
  BY DEF SchedType, SameCard, Start
<1>3. /\ SameCard(s, FreeSlot(s, r)) /\ FreeSlot(s, r).waiting = s.waiting
      /\ FreeSlot(s, r).event = s.event \ {r}
      /\ SameCard(s, Leave(s, {r})) /\ Leave(s, {r}).waiting = s.waiting \ {r}
      /\ Leave(s, {r}).event = s.event
  BY <1>1 DEF SchedType, SameCard, FreeSlot, Leave
<1>4. ASSUME NEW aged PROVE /\ SameCard(s, Join(s, r, aged))
                            /\ Join(s, r, aged).event = s.event
  BY DEF SchedType, SameCard, Join
<1> QED
  BY <1>1, <1>2, <1>3, <1>4

(* A caller that starts, and one that has settled after its call of        *)
(* _maybe_switch.                                                          *)
LEMMA StartedOrSettled ==
  ASSUME NEW s \in SchedType, NEW r \in Req
  PROVE  /\ SameCard(s, Start(Leave(s, {r}), r))
         /\ Start(Leave(s, {r}), r).event = s.event
         /\ Start(Leave(s, {r}), r).waiting = s.waiting \ {r}
         /\ Settle(r, s) => SameCard(s, sched')
<1> DEFINE t == Leave(s, {r})
<1>1. t \in SchedType /\ SameCard(s, t) /\ t.event = s.event /\ t.waiting = s.waiting \ {r}
  BY OtherMethods
<1> HIDE DEF t
<1>2. /\ SameCard(t, Start(t, r)) /\ Start(t, r).event = t.event
      /\ Start(t, r).waiting = t.waiting
  BY <1>1, OtherMethods
<1>3. ASSUME Settle(r, s) PROVE SameCard(s, sched')
  <2>1. sched' = s \/ sched' = t
    BY <1>3 DEF Settle, t
  <2> QED
    BY <1>1, <2>1 DEF SameCard
<1>4. /\ SameCard(s, Start(t, r))
      /\ Start(t, r).event = s.event
      /\ Start(t, r).waiting = s.waiting \ {r}
  BY <1>1, <1>2 DEF SameCard
<1> QED
  BY <1>3, <1>4 DEF t

(* What a switch leaves in the fields that concern the card (269-280).     *)
LEMMA SwitchToFields ==
  ASSUME NEW s \in SchedType, NEW m \in Models
  PROVE  /\ SwitchTo(s, m) \in SchedType
         /\ SwitchTo(s, m).admitted = m
         /\ ~SwitchTo(s, m).draining
         /\ SwitchTo(s, m).evicting = s.evicting
         /\ SwitchTo(s, m).evictTasks = s.evictTasks
         /\ SwitchTo(s, m).event = s.event \cup {w \in s.waiting : ReqModel[w] = m}
<1> DEFINE T == {w \in s.waiting : ReqModel[w] = m}
           counts == Add(s.inFlight, m, Cardinality(T))
           n == s.interactiveRunning + Cardinality(T \cap Interactive)
<1>1. SwitchTo(s, m) = [Leave(s, T) EXCEPT !.admitted = m, !.draining = FALSE,
               !.inFlight = counts, !.interactiveRunning = n,
               !.event = s.event \cup T]
  BY DEF SwitchTo
<1>2. T \in SUBSET Req
  BY DEF SchedType
<1> HIDE DEF T, counts, n
<1>3. /\ Leave(s, T) \in SchedType
      /\ Leave(s, T).evicting = s.evicting
      /\ Leave(s, T).evictTasks = s.evictTasks
  BY <1>2, LeaveType DEF Leave, SchedType
<1>4. SwitchTo(s, m) \in SchedType
  BY SwitchToType
<1>5. /\ SwitchTo(s, m).admitted = m
      /\ ~SwitchTo(s, m).draining
      /\ SwitchTo(s, m).evicting = s.evicting
      /\ SwitchTo(s, m).evictTasks = s.evictTasks
      /\ SwitchTo(s, m).event = s.event \cup T
  BY <1>1, <1>3 DEF SchedType
<1> QED
  BY <1>4, <1>5 DEF T

(* _begin_switch creates the task when it sets evicting (244-252).         *)
LEMMA BeginSwitchKept ==
  ASSUME NEW s \in SchedType, NEW m \in Models
  PROVE  Kept(s, BeginSwitch(s, m)) /\ BeginSwitch(s, m).admitted # None
<1> DEFINE tasks == Add(s.evictTasks, m, 1)
<1>1. CASE CrossesBackends(s, m)
  <2>1. BeginSwitch(s, m) = [s EXCEPT !.evicting = m, !.evictTasks = tasks]
    BY <1>1 DEF BeginSwitch
  <2>2. tasks[m] > 0
    BY DEF Add, SchedType
  <2> HIDE DEF tasks
  <2>3. /\ BeginSwitch(s, m).evicting = m /\ BeginSwitch(s, m).evictTasks = tasks
        /\ BeginSwitch(s, m).admitted = s.admitted
    BY <2>1 DEF SchedType
  <2> QED
    BY <1>1, <2>2, <2>3 DEF Owed, Kept, CrossesBackends
<1>2. CASE ~CrossesBackends(s, m)
  <2>1. BeginSwitch(s, m) = SwitchTo(s, m)
    BY <1>2 DEF BeginSwitch
  <2>2. m # None
    BY NoneAssumption
  <2> QED
    BY <2>1, <2>2, SwitchToFields DEF Owed, Kept
<1> QED
  BY <1>1, <1>2

LEMMA MaybeSwitchKept ==
  ASSUME NEW s \in SchedType, NEW t \in MaybeSwitch(s)
  PROVE  Kept(s, t)
<1>1. CASE t = s
  BY <1>1 DEF Kept
<1>2. ASSUME NEW w \in Oldest(s), t \in PassFor(s, w)
      PROVE  Kept(s, t)
  <2>1. ReqModel[w] \in Models
    BY RequestsAssumption DEF Oldest, Pool, SchedType
  <2>2. CASE t = BeginSwitch(s, ReqModel[w])
    BY <2>1, <2>2, BeginSwitchKept
  <2>3. CASE t = [s EXCEPT !.draining = s.draining \/ w \in s.starved]
    <3> DEFINE d == s.draining \/ w \in s.starved
    <3>1. t = [s EXCEPT !.draining = d]
      BY <2>3
    <3> HIDE DEF d
    <3> QED
      BY <3>1 DEF Kept, Owed, SchedType
  <2> QED
    BY <1>1, <1>2, <2>2, <2>3 DEF PassFor
<1> QED
  BY <1>1, <1>2 DEF MaybeSwitch

(* A turn of the waiter's loop (149-160), and the queue before it.         *)
LEMMA PollKept ==
  ASSUME NEW r \in Req, NEW s, NEW asleep, NEW started,
         Consistent(s, asleep, started), Poll(r, s)
  PROVE  Kept(s, sched')
<1>1. CASE sched' = s
  BY <1>1 DEF Kept
<1>2. CASE \E t \in MaybeSwitch(s) : Settle(r, t)
  <2>1. PICK t \in MaybeSwitch(s) : Settle(r, t)
    BY <1>2
  <2>2. Consistent(t, asleep, started)
    BY MaybeSwitchConsistent
  <2>3. s \in SchedType /\ t \in SchedType
    BY <2>2 DEF Consistent
  <2>4. Kept(s, t)
    BY <2>3, MaybeSwitchKept
  <2>5. SameCard(t, sched')
    BY <2>1, <2>3, StartedOrSettled
  <2> QED
    BY <2>4, <2>5, SameIsKept, KeptOn
<1> QED
  BY <1>1, <1>2 DEF Poll

LEMMA EnqueueKept ==
  ASSUME NEW r \in Req, r \notin Asleep, r \notin Started,
         NEW s, Consistent(s, Asleep, Started), Enqueue(r, s)
  PROVE  Kept(s, sched')
<1>1. PICK aged \in BOOLEAN : Poll(r, Join(s, r, aged))
  BY DEF Enqueue, Ages
<1> DEFINE t == Join(s, r, aged)
<1>2. s \in SchedType
  BY DEF Consistent
<1>3. Consistent(t, Asleep \cup {r}, Started)
  BY JoinConsistent
<1>4. SameCard(s, t)
  BY <1>2, OtherMethods
<1>5. Poll(r, t)
  BY <1>1
<1> HIDE DEF t
<1>6. Kept(t, sched')
  BY <1>3, <1>5, PollKept
<1> QED
  BY <1>4, <1>6, SameIsKept, KeptOn

LEMMA BeginKept ==
  ASSUME NEW r \in Req, NEW s \in SchedType, Begin(r, s)
  PROVE  Kept(s, sched')
  BY StartedOrSettled, SameIsKept DEF Begin

(* A card that is found to hold models gets an owner (209-214).            *)
LEMMA Admits ==
  ASSUME NEW s, NEW asleep, NEW started, Consistent(s, asleep, started), NEW m \in Models
  PROVE  LET t == [s EXCEPT !.admitted = m]
         IN  /\ t \in SchedType /\ Consistent(t, asleep, started) /\ Kept(s, t)
             /\ t.admitted = m /\ t.admitted # None
             /\ t.waiting = s.waiting /\ t.event = s.event
             /\ t.evicting = s.evicting /\ t.draining = s.draining
<1> DEFINE t == [s EXCEPT !.admitted = m]
<1>1. /\ t \in SchedType /\ t.waiting = s.waiting /\ t.event = s.event
      /\ t.inFlight = s.inFlight
      /\ t.interactiveRunning = s.interactiveRunning
      /\ t.evicting = s.evicting /\ t.evictTasks = s.evictTasks
      /\ t.admitted = m /\ t.draining = s.draining
  BY DEF Consistent, SchedType
<1> HIDE DEF t
<1>2. Consistent(t, asleep, started)
  BY <1>1, SameSlots
<1>3. m # None
  BY NoneAssumption
<1>4. Kept(s, t)
  BY <1>1, <1>3 DEF Kept, Owed
<1> QED
  BY <1>1, <1>2, <1>3, <1>4 DEF t

LEMMA ForeignKept ==
  ASSUME NEW r \in Req, r \notin Asleep, r \notin Started,
         NEW s, Consistent(s, Asleep, Started), ForeignVerdict(r, s)
  PROVE  Kept(s, sched') /\ sched'.admitted # None
<1>1. PICK m \in Models : \/ Begin(r, [s EXCEPT !.admitted = m])
                          \/ Enqueue(r, [s EXCEPT !.admitted = m])
  BY RequestsAssumption DEF ForeignVerdict
<1> DEFINE t == [s EXCEPT !.admitted = m]
<1>2. t \in SchedType /\ Consistent(t, Asleep, Started) /\ Kept(s, t) /\ t.admitted # None
  BY Admits
<1>3. Begin(r, t) \/ Enqueue(r, t)
  BY <1>1
<1> HIDE DEF t
<1>4. Kept(t, sched')
  BY <1>2, <1>3, BeginKept, EnqueueKept
<1>5. sched'.admitted # None
  BY <1>2, <1>4 DEF Kept
<1> QED
  BY <1>2, <1>4, <1>5, KeptOn

(* A caller that arrives takes its place and leaves the rest alone (142).  *)
LEMMA Arrives ==
  ASSUME SlotInv, NEW r \in Req, NEW ahead \in Places(r)
  PROVE  LET s == Arrive(r, ahead)
         IN  /\ s \in SchedType /\ Consistent(s, Asleep, Started)
             /\ SameCard(sched, s) /\ s.waiting = sched.waiting /\ s.event = sched.event
<1> DEFINE s == Arrive(r, ahead)
<1>0. sched \in SchedType /\ Consistent(sched, Asleep, Started)
  BY DEF SlotInv, TypeOK
<1>1. s \in SchedType /\ s = [sched EXCEPT !.older = s.older]
  BY <1>0, ArriveType
<1> HIDE DEF s
<1>2. /\ s.waiting = sched.waiting /\ s.event = sched.event
      /\ s.inFlight = sched.inFlight
      /\ s.interactiveRunning = sched.interactiveRunning
      /\ SameCard(sched, s)
  <2> DEFINE o == s.older
  <2>1. s = [sched EXCEPT !.older = o]
    BY <1>1
  <2> HIDE DEF o
  <2> QED
    BY <1>0, <2>1 DEF SchedType, SameCard
<1>3. Consistent(s, Asleep, Started)
  BY <1>0, <1>1, <1>2, SameSlots
<1> QED
  BY <1>1, <1>2, <1>3 DEF s

LEMMA AcquireKept ==
  ASSUME SlotInv, NEW r \in Req, r \notin Asleep, r \notin Started, Acquire(r)
  PROVE  Kept(sched, sched')
<1>1. PICK ahead \in Places(r) : CanRun(r, Arrive(r, ahead))
  BY DEF Acquire
<1> DEFINE s == Arrive(r, ahead)
<1>2. s \in SchedType /\ Consistent(s, Asleep, Started) /\ SameCard(sched, s)
  BY Arrives
<1>3. CanRun(r, s)
  BY <1>1
<1> HIDE DEF s
<1>4. Kept(s, sched')
  <2>1. CASE ForeignVerdict(r, s)
    BY <1>2, <2>1, ForeignKept
  <2>2. CASE Begin(r, s)
    BY <1>2, <2>2, BeginKept
  <2>3. CASE Enqueue(r, s)
    BY <1>2, <2>3, EnqueueKept
  <2>4. CASE sched' = s
    BY <2>4 DEF Kept
  <2> QED
    BY <1>3, <2>1, <2>2, <2>3, <2>4 DEF CanRun, BesideVerdict, Suspend
<1> QED
  BY <1>2, <1>4, SameIsKept, KeptOn

(* A suspended probe that answers, and the switch it may lead to.          *)
LEMMA SwitchesKept ==
  ASSUME SlotInv, NEW p \in probes, NEW t \in Switches(p.target)
  PROVE  /\ p.target \in Models /\ t = BeginSwitch(sched, p.target)
         /\ t \in SchedType /\ Kept(sched, t) /\ t.admitted # None
<1>1. p.target \in Models /\ sched \in SchedType /\ Consistent(sched, Asleep, Started)
  BY DEF SlotInv, TypeOK
<1>2. t = BeginSwitch(sched, p.target)
  BY DEF Switches
<1>3. Consistent(t, Asleep, Started)
  BY <1>1, <1>2, BeginSwitchConsistent
<1>4. t \in SchedType
  BY <1>3 DEF Consistent
<1> QED
  BY <1>1, <1>2, <1>4, BeginSwitchKept

(* Every step keeps the task that evicting calls for: an eviction that     *)
(* ends clears evicting, whoever had set it.                               *)
LEMMA NextKept ==
  ASSUME SlotInv, [Next]_vars
  PROVE  Kept(sched, sched')
<1>1. Consistent(sched, Asleep, Started) /\ sched \in SchedType
  BY DEF SlotInv, TypeOK
<1>2. CASE UNCHANGED sched
  BY <1>2 DEF Kept
<1>4. ASSUME NEW r \in Req, \/ AcquireDisabled(r) \/ Release(r)
                            \/ Cancel(r) \/ Starve(r)
      PROVE  Kept(sched, sched')
  <2>1. CASE sched' \in {Start(sched, r), FreeSlot(sched, r), Leave(sched, {r})}
    BY <1>1, <2>1, OtherMethods, SameIsKept
  <2>2. CASE Starve(r)
    BY <1>1, <2>2 DEF Starve, Kept, Owed, SchedType
  <2> QED
    BY <1>4, <2>1, <2>2 DEF AcquireDisabled, Release, Cancel, FreeAndKick
<1>5. ASSUME NEW r \in Req, Acquire(r) \/ ForeignAnswer(r) \/ BesideAnswer(r)
      PROVE  Kept(sched, sched')
  <2>1. r \notin Asleep /\ r \notin Started
    BY <1>5 DEF Acquire, ForeignAnswer, BesideAnswer, Asleep, Started
  <2>2. CASE Acquire(r)
    BY <2>1, <2>2, AcquireKept
  <2>3. CASE ForeignAnswer(r)
    BY <1>1, <2>1, <2>3, ForeignKept DEF ForeignAnswer
  <2>4. CASE BesideAnswer(r)
    <3>1. Begin(r, sched) \/ Enqueue(r, sched)
      BY <2>4 DEF BesideAnswer
    <3> QED
      BY <1>1, <2>1, <3>1, BeginKept, EnqueueKept
  <2> QED
    BY <1>5, <2>2, <2>3, <2>4
<1>6. ASSUME NEW r \in Req, Wake(r) PROVE Kept(sched, sched')
  BY <1>1, <1>6, PollKept DEF Wake
<1>8. ASSUME NEW r \in Req, HoldAnswer(r) PROVE Kept(sched, sched')
  <2>1. PICK p \in probes : \E t \in Switches(p.target) \cup {sched} : Settle(r, t)
    BY <1>8 DEF HoldAnswer
  <2>2. PICK t \in Switches(p.target) \cup {sched} : Settle(r, t)
    BY <2>1
  <2>3. t \in SchedType /\ Kept(sched, t)
    BY <1>1, SwitchesKept DEF Kept
  <2>4. SameCard(t, sched')
    BY <2>2, <2>3, StartedOrSettled
  <2> QED
    BY <2>3, <2>4, SameIsKept, KeptOn
<1>9. CASE Kick
  BY <1>1, <1>2, <1>9, MaybeSwitchKept DEF Kick
<1>10. CASE KickAnswer
  BY <1>2, <1>10, SwitchesKept DEF KickAnswer, KickProbes
<1>11. CASE EvictDone
  <2>1. PICK m \in Models : sched.evictTasks[m] > 0 /\ sched' = Evicted(sched, m)
    BY <1>11 DEF EvictDone
  <2> DEFINE tasks == Add(sched.evictTasks, m, -1)
             s == [sched EXCEPT !.evicting = None, !.evictTasks = tasks]
  <2>2. tasks \in [Models -> Nat]
    BY <1>1, <2>1, CounterTypes DEF SchedType
  <2>3. sched' = SwitchTo(s, m)
    BY <2>1 DEF Evicted
  <2> HIDE DEF tasks
  <2>4. s \in SchedType /\ s.evicting = None
    BY <1>1, <2>2 DEF SchedType
  <2> HIDE DEF s
  <2> QED
    BY <2>3, <2>4, SwitchToFields, NoneAssumption DEF Owed, Kept
<1>12. CASE Refresh
  BY <1>1, <1>12 DEF Refresh, Kept, Owed, SchedType
<1>13. CASE HoldExpires
  BY <1>1, <1>13 DEF HoldExpires, Kept, Owed, SchedType
<1> QED
  BY <1>2, <1>4, <1>5, <1>6, <1>8, <1>9, <1>10, <1>11, <1>12, <1>13
  DEF Next, CallerNext, vars

(* evicting is never left set without the task that clears it, not even    *)
(* when stale probes begin evictions that overlap (_begin_switch 249-250,  *)
(* _evict_and_switch 263-267): the card cannot stay closed for ever.       *)
THEOREM EvictionEnds == Spec => []EvictingHasTask
<1>1. Init => SlotInv /\ Owed(sched)
  BY InitSlotInv DEF Init, Owed
<1>2. SlotInv /\ Owed(sched) /\ [Next]_vars => (SlotInv /\ Owed(sched))'
  BY NextSlotInv, NextKept DEF Kept
<1>3. Owed(sched) => EvictingHasTask
  BY DEF Owed, EvictingHasTask
<1> QED
  BY <1>1, <1>2, <1>3, PTL DEF Spec

-----------------------------------------------------------------------------
(* Who uses the card.  A probe may suspend, and its answer may come too    *)
(* late: then the card is out of order until it is empty.  The invariant   *)
(* says what holds of it in the meantime, CardStep what a step in order    *)
(* does.                                                                   *)

Running == {r \in Req : pc[r] = "run"}

Owner(s) == IF s.admitted = None THEN None ELSE Backend[s.admitted]

(* What holds of the card between two steps: S are the requests that the   *)
(* scheduler let through.                                                  *)
Exclusive(s, S) ==
  /\ \A r \in S : s.admitted # None /\ Backend[ReqModel[r]] = Backend[s.admitted]
  /\ s.evicting # None => S = {} /\ s.admitted # None
  /\ \A m \in Models : s.evictTasks[m] = One(s.evicting = m)
  /\ s.admitted = None => s.waiting = {} /\ ~s.draining

(* What a step does to it. *)
CardStep(s, S, t, T) ==
  /\ \/ Owner(t) = Owner(s)
     \/ s.admitted = None
     \/ s.evicting # None /\ t.evicting = None
  /\ s.evicting = None /\ t.evicting # None => S = {}
  /\ S \subseteq T \/ T \subseteq S
  /\ t.admitted # s.admitted => S = {}
  /\ s.draining /\ t.draining => T \subseteq S
  /\ s.admitted # None => t.admitted # None

(* Who is suspended in the last probe of _can_run met an admitted model.   *)
Asked == sched.admitted = None => \A r \in Req : pc[r] # "beside"

CardInv ==
  /\ SlotInv /\ Asked
  /\ IF stale THEN sched.admitted # None ELSE Exclusive(sched, Scheduled)

(* The requests let through are those that run and the waiters released.   *)
LEMMA ScheduledAre == Scheduled = Running \cup (Asleep \cap sched.event)
  BY DEF Scheduled, Granted, Running, Asleep

(* A card that is not busy has no holders of slots (scheduler.py 233).     *)
LEMMA IdleCard ==
  ASSUME NEW s, NEW asleep, NEW started, Consistent(s, asleep, started), ~Busy(s)
  PROVE  SlotHolders(s, asleep, started) = {}
<1> DEFINE H == SlotHolders(s, asleep, started)
<1> SUFFICES ASSUME NEW r \in H PROVE FALSE
  OBVIOUS
<1>1. r \in Req /\ H \in SUBSET Req
  BY DEF Consistent, SlotHolders
<1>2. ReqModel[r] \in Models
  BY <1>1, RequestsAssumption
<1> DEFINE O == Of(H, ReqModel[r])
<1>3. O \in SUBSET Req /\ r \in O
  BY <1>1 DEF Of
<1>4. s.inFlight[ReqModel[r]] = Cardinality(O) /\ s.inFlight[ReqModel[r]] \in Nat
  BY <1>2 DEF Consistent, SchedType
<1>5. ~(s.inFlight[ReqModel[r]] > 0)
  BY <1>2 DEF Busy
<1>6. Cardinality(O) = 0
  BY <1>4, <1>5
<1>7. O = {}
  <2> HIDE DEF O
  <2>1. IsFiniteSet(O)
    BY <1>3, Finite
  <2> QED
    BY <1>6, <2>1, FS_EmptySet
<1> QED
  BY <1>3, <1>7

(* A switch with nobody on the card lets one model's waiters in.           *)
LEMMA SwitchToCard ==
  ASSUME NEW s, NEW asleep, NEW started, Consistent(s, asleep, started),
         NEW running \in SUBSET started,
         Exclusive(s, running \cup (asleep \cap s.event)),
         running \cup (asleep \cap s.event) = {}, s.evicting = None,
         NEW m \in Models
  PROVE  Exclusive(SwitchTo(s, m), running \cup (asleep \cap SwitchTo(s, m).event))
<1> DEFINE t == SwitchTo(s, m)
           T == running \cup (asleep \cap t.event)
<1>1. s \in SchedType
  BY DEF Consistent
<1>2. /\ t.admitted = m /\ ~t.draining
      /\ t.evicting = s.evicting /\ t.evictTasks = s.evictTasks
      /\ t.event = s.event \cup {w \in s.waiting : ReqModel[w] = m}
  BY <1>1, SwitchToFields
<1>3. \A r \in T : ReqModel[r] = m
  BY <1>2
<1>4. m # None
  BY NoneAssumption
<1> HIDE DEF t, T
<1>5. /\ \A r \in T : t.admitted # None /\ Backend[ReqModel[r]] = Backend[t.admitted]
      /\ t.evicting = None
      /\ \A k \in Models : t.evictTasks[k] = One(t.evicting = k)
      /\ t.admitted # None
  BY <1>2, <1>3, <1>4 DEF Exclusive
<1>6. Exclusive(t, T)
  BY <1>5, Zenon DEF Exclusive
<1> QED
  BY <1>6 DEF t, T

(* _begin_switch, for a card in order that nobody uses (244-252).          *)
LEMMA BeginSwitchCard ==
  ASSUME NEW s, NEW asleep, NEW started, Consistent(s, asleep, started),
         NEW running \in SUBSET started,
         Exclusive(s, running \cup (asleep \cap s.event)),
         ~Busy(s), s.evicting = None, NEW m \in Models, NEW t, t = BeginSwitch(s, m)
  PROVE  /\ Exclusive(t, running \cup (asleep \cap t.event))
         /\ CardStep(s, running \cup (asleep \cap s.event),
                     t, running \cup (asleep \cap t.event))
<1> DEFINE S == running \cup (asleep \cap s.event)
           T == running \cup (asleep \cap t.event)
<1>0. s \in SchedType
  BY DEF Consistent
<1>3. S \subseteq SlotHolders(s, asleep, started)
  BY DEF SlotHolders
<1>4. S = {}
  BY <1>3, IdleCard
<1>5. CASE CrossesBackends(s, m)
  <2> DEFINE tasks == Add(s.evictTasks, m, 1)
  <2>0. s.admitted # None
    BY <1>5 DEF CrossesBackends
  <2>1. t = [s EXCEPT !.evicting = m, !.evictTasks = tasks]
    BY <1>5 DEF BeginSwitch
  <2>2. \A k \in Models : tasks[k] = One(m = k)
    <3>1. \A k \in Models : s.evictTasks[k] = One(s.evicting = k)
      BY DEF Exclusive
    <3>2. \A k \in Models : s.evictTasks[k] = 0
      BY <3>1, NoneAssumption DEF One
    <3> QED
      BY <1>0, <3>2 DEF Add, One, SchedType
  <2> HIDE DEF tasks
  <2>3. /\ t.admitted = s.admitted /\ t.evicting = m
        /\ t.evictTasks = tasks /\ t.event = s.event
    BY <1>0, <2>1 DEF SchedType
  <2>4. T = {}
    BY <1>4, <2>3
  <2> HIDE DEF T, S
  <2>5. Exclusive(t, T)
    BY <2>0, <2>2, <2>3, <2>4 DEF Exclusive
  <2>6. CardStep(s, S, t, T)
    BY <2>0, <1>4, <2>3, <2>4 DEF CardStep, Owner
  <2> QED
    BY <2>5, <2>6, Zenon DEF S, T
<1>6. CASE ~CrossesBackends(s, m)
  <2>1. t = SwitchTo(s, m)
    BY <1>6 DEF BeginSwitch
  <2>2. Exclusive(t, T)
    <3>1. Exclusive(SwitchTo(s, m), running \cup (asleep \cap SwitchTo(s, m).event))
      BY <1>4, SwitchToCard
    <3> QED
      BY <2>1, <3>1, Zenon
  <2>3. t.admitted = m /\ ~t.draining /\ t.evicting = s.evicting
    BY <1>0, <2>1, SwitchToFields
  <2>4. Owner(t) = Owner(s) \/ s.admitted = None
    BY <1>6, <2>3, NoneAssumption DEF CrossesBackends, Owner
  <2>5. m # None
    BY NoneAssumption
  <2> HIDE DEF T, S
  <2>6. CardStep(s, S, t, T)
    BY <1>4, <2>3, <2>4, <2>5 DEF CardStep
  <2> QED
    BY <2>2, <2>6, Zenon DEF S, T
<1> QED
  BY <1>5, <1>6

(* _maybe_switch, for a card that is in order (225-252).                   *)
LEMMA MaybeSwitchCard ==
  ASSUME NEW s, NEW asleep, NEW started, Consistent(s, asleep, started),
         NEW running \in SUBSET started,
         Exclusive(s, running \cup (asleep \cap s.event)),
         NEW t \in MaybeSwitch(s)
  PROVE  /\ Exclusive(t, running \cup (asleep \cap t.event))
         /\ CardStep(s, running \cup (asleep \cap s.event),
                     t, running \cup (asleep \cap t.event))
<1> DEFINE S == running \cup (asleep \cap s.event)
           T == running \cup (asleep \cap t.event)
<1>0. s \in SchedType
  BY DEF Consistent
<1>1. CASE t = s
  BY <1>1 DEF CardStep
<1>2. ASSUME t # s PROVE /\ s.waiting # {} /\ s.evicting = None
                        /\ \E w \in Oldest(s) : t \in PassFor(s, w)
  BY <1>2 DEF MaybeSwitch, Quiet
<1>3. ASSUME t # s PROVE s.admitted # None
  BY <1>2, <1>3 DEF Exclusive
<1>4. ASSUME NEW w \in Oldest(s), Busy(s), t \in PassFor(s, w), t # s
      PROVE  Exclusive(t, T) /\ CardStep(s, S, t, T)
  <2> DEFINE d == s.draining \/ w \in s.starved
  <2>1. t = [s EXCEPT !.draining = d]
    BY <1>4 DEF PassFor
  <2> HIDE DEF d
  <2>2. /\ t.admitted = s.admitted /\ t.evicting = s.evicting
        /\ t.evictTasks = s.evictTasks /\ t.event = s.event
    BY <1>0, <2>1 DEF SchedType
  <2>3. T = S
    BY <2>2
  <2> HIDE DEF T, S
  <2>4. Exclusive(s, S)
    BY DEF S
  <2>5. Exclusive(t, T)
    BY <1>3, <1>4, <2>2, <2>3, <2>4 DEF Exclusive
  <2>6. CardStep(s, S, t, T)
    BY <1>3, <2>2, <2>3 DEF CardStep, Owner
  <2> QED
    BY <2>5, <2>6
<1>5. ASSUME NEW w \in Oldest(s), ~Busy(s), t \in PassFor(s, w), t # s
      PROVE  Exclusive(t, T) /\ CardStep(s, S, t, T)
  <2> DEFINE m == ReqModel[w]
  <2>1. m \in Models
    BY <1>0, RequestsAssumption DEF Oldest, Pool, SchedType
  <2>2. t = BeginSwitch(s, m)
    BY <1>5 DEF PassFor
  <2> HIDE DEF m
  <2> QED
    BY <1>2, <1>5, <2>1, <2>2, BeginSwitchCard
<1> QED
  BY <1>1, <1>2, <1>4, <1>5

-----------------------------------------------------------------------------
(* The callers. *)

LetThrough(s, asleep) == Running \cup (asleep \cap s.event)

(* Who is let through decides, not how the rest of the scheduler looks.    *)
LEMMA SameCardStep ==
  ASSUME NEW s, NEW S, NEW t, NEW T, NEW u, Exclusive(t, T), CardStep(s, S, t, T),
         SameCard(t, u), u.waiting \subseteq t.waiting
  PROVE  Exclusive(u, T) /\ CardStep(s, S, u, T)
<1>1. Exclusive(u, T)
  BY DEF Exclusive, SameCard
<1>2. CardStep(s, S, u, T)
  BY DEF CardStep, SameCard, Owner
<1> QED
  BY <1>1, <1>2

(* A card that stays as it is takes a step, and so does one that is left.  *)
LEMMA LeavingCard ==
  ASSUME NEW s, NEW S, NEW t, NEW T, Exclusive(s, S), SameCard(s, t), T \subseteq S,
         t.waiting \subseteq s.waiting \/ s.admitted # None
  PROVE  Exclusive(t, T) /\ CardStep(s, S, t, T)
<1>1. Exclusive(t, T)
  BY DEF Exclusive, SameCard
<1>2. CardStep(s, S, t, T)
  BY DEF CardStep, SameCard, Owner
<1> QED
  BY <1>1, <1>2

(* A caller that sleeps as a waiter, released or not.                      *)
LEMMA FallsAsleep ==
  ASSUME TypeOK, NEW r \in Req, r \notin Started, NEW s, sched' = s,
         \E where \in {"wait", "hold"} : pc' = [pc EXCEPT ![r] = where]
  PROVE  Scheduled' = LetThrough(s, Asleep \cup {r})
<1>1. /\ Asleep' = Asleep \cup {r}
      /\ Running' = Running
  BY DEF TypeOK, Asleep, Running, Started
<1>2. Scheduled' = Running' \cup (Asleep' \cap s.event)
  BY DEF Scheduled, Granted, Running, Asleep
<1> QED
  BY <1>1, <1>2 DEF LetThrough

(* A waiter after its call of _maybe_switch (151-160).                     *)
LEMMA SettleCard ==
  ASSUME TypeOK, NEW r \in Req, r \notin Started, NEW s \in SchedType,
         Settle(r, s)
  PROVE  /\ Scheduled' = LetThrough(s, Asleep \cup {r})
         /\ SameCard(s, sched') /\ sched'.waiting \subseteq s.waiting
<1>1. CASE r \in s.event /\ sched' = s /\ pc' = [pc EXCEPT ![r] = "run"]
  <2>1. /\ Asleep' = Asleep \ {r}
        /\ Running' = Running \cup {r}
    BY <1>1 DEF TypeOK, Asleep, Running
  <2>2. Scheduled' = Running' \cup (Asleep' \cap s.event)
    BY <1>1 DEF Scheduled, Granted, Running, Asleep
  <2> QED
    BY <1>1, <2>1, <2>2 DEF LetThrough, SameCard
<1>2. CASE r \notin s.event /\ sched' = Leave(s, {r}) /\ pc' = [pc EXCEPT ![r] = "idle"]
  <2>1. /\ Asleep' = Asleep \ {r}
        /\ Running' = Running
    BY <1>2 DEF TypeOK, Asleep, Running, Started
  <2>2. /\ sched'.event = s.event
        /\ sched'.waiting = s.waiting \ {r}
        /\ SameCard(s, sched')
    BY <1>2, OtherMethods
  <2>3. Scheduled' = Running' \cup (Asleep' \cap s.event)
    BY <2>2 DEF Scheduled, Granted, Running, Asleep
  <2> QED
    BY <1>2, <2>1, <2>2, <2>3 DEF LetThrough
<1>3. CASE sched' = s /\ \E where \in {"wait", "hold"} : pc' = [pc EXCEPT ![r] = where]
  BY <1>3, FallsAsleep DEF SameCard
<1> QED
  BY <1>1, <1>2, <1>3 DEF Settle

(* A turn of the waiter's loop (149-160).                                  *)
LEMMA PollCard ==
  ASSUME TypeOK, NEW r \in Req, r \notin Started,
         NEW s, Consistent(s, Asleep \cup {r}, Started),
         Exclusive(s, LetThrough(s, Asleep \cup {r})), Poll(r, s)
  PROVE  /\ Exclusive(sched', Scheduled')
         /\ CardStep(s, LetThrough(s, Asleep \cup {r}), sched', Scheduled')
<1>1. CASE sched' = s /\ pc' = [pc EXCEPT ![r] = "hold"]
  <2>1. Scheduled' = LetThrough(s, Asleep \cup {r})
    BY <1>1, FallsAsleep
  <2> QED
    BY <1>1, <2>1, LeavingCard DEF SameCard
<1>2. CASE \E t \in MaybeSwitch(s) : Settle(r, t)
  <2>2. PICK t \in MaybeSwitch(s) : Settle(r, t)
    BY <1>2
  <2>3. Running \in SUBSET Started
    BY DEF Running, Started
  <2>4. /\ Exclusive(t, LetThrough(t, Asleep \cup {r}))
        /\ CardStep(s, LetThrough(s, Asleep \cup {r}), t, LetThrough(t, Asleep \cup {r}))
    BY <2>3, MaybeSwitchCard DEF LetThrough
  <2>5. Consistent(t, Asleep \cup {r}, Started)
    BY MaybeSwitchConsistent
  <2>6. t \in SchedType
    BY <2>5 DEF Consistent
  <2>7. /\ Scheduled' = LetThrough(t, Asleep \cup {r})
        /\ SameCard(t, sched') /\ sched'.waiting \subseteq t.waiting
    BY <2>2, <2>6, SettleCard
  <2> QED
    BY <2>4, <2>7, SameCardStep
<1> QED
  BY <1>1, <1>2 DEF Poll

(* A caller queues, at a card that has an owner (146-160).                 *)
LEMMA EnqueueCard ==
  ASSUME TypeOK, NEW r \in Req, r \notin Asleep, r \notin Started,
         NEW s, Consistent(s, Asleep, Started), s.admitted # None,
         Exclusive(s, LetThrough(s, Asleep)), Enqueue(r, s)
  PROVE  /\ Exclusive(sched', Scheduled')
         /\ CardStep(s, LetThrough(s, Asleep), sched', Scheduled')
<1>1. PICK aged \in BOOLEAN : Poll(r, Join(s, r, aged))
  BY DEF Enqueue, Ages
<1> DEFINE t == Join(s, r, aged)
<1>2. s \in SchedType
  BY DEF Consistent
<1>3. Consistent(t, Asleep \cup {r}, Started)
  BY JoinConsistent
<1>4. SameCard(s, t) /\ t.event = s.event
  <2>1. \A any : SameCard(s, Join(s, r, any)) /\ Join(s, r, any).event = s.event
    BY <1>2, OtherMethods
  <2> QED
    BY <2>1, Zenon
<1>5. r \notin s.event
  BY DEF Consistent
<1> HIDE DEF t
<1>6. LetThrough(t, Asleep \cup {r}) = LetThrough(s, Asleep)
  BY <1>4, <1>5 DEF LetThrough
<1>7. Exclusive(t, LetThrough(t, Asleep \cup {r}))
  BY <1>4, <1>6 DEF Exclusive, SameCard
<1>8. /\ Exclusive(sched', Scheduled')
      /\ CardStep(t, LetThrough(s, Asleep), sched', Scheduled')
  BY <1>1, <1>3, <1>6, <1>7, PollCard DEF t
<1>9. CardStep(s, LetThrough(s, Asleep), sched', Scheduled')
  BY <1>4, <1>8 DEF CardStep, SameCard, Owner
<1> QED
  BY <1>8, <1>9

(* A caller goes straight to a card of its own backend (143-145).          *)
LEMMA BeginCard ==
  ASSUME TypeOK, NEW r \in Req, r \notin Asleep,
         NEW s \in SchedType, Exclusive(s, LetThrough(s, Asleep)),
         s.evicting = None, ~s.draining, s.admitted # None,
         Backend[ReqModel[r]] = Backend[s.admitted], Begin(r, s)
  PROVE  /\ Exclusive(sched', Scheduled')
         /\ CardStep(s, LetThrough(s, Asleep), sched', Scheduled')
<1>1. /\ SameCard(s, sched') /\ sched'.event = s.event
      /\ sched'.waiting = s.waiting \ {r}
  BY StartedOrSettled DEF Begin
<1>2. /\ Asleep' = Asleep
      /\ Running' = Running \cup {r}
  BY DEF Begin, TypeOK, Asleep, Running
<1>3. Scheduled' = Running' \cup (Asleep' \cap sched'.event)
  BY DEF Scheduled, Granted, Running, Asleep
<1>4. Scheduled' = LetThrough(s, Asleep) \cup {r}
  BY <1>1, <1>2, <1>3 DEF LetThrough
<1>5. Exclusive(sched', Scheduled')
  BY <1>1, <1>4 DEF Exclusive, SameCard
<1>6. CardStep(s, LetThrough(s, Asleep), sched', Scheduled')
  BY <1>1, <1>4 DEF CardStep, SameCard, Owner
<1> QED
  BY <1>5, <1>6

-----------------------------------------------------------------------------
(* The steps of the scheduler and its callers, for a card in order. *)

CardGoesOn == /\ Exclusive(sched', Scheduled')
              /\ CardStep(sched, Scheduled, sched', Scheduled')

InOrder == SlotInv /\ Asked /\ ~stale /\ Exclusive(sched, Scheduled)

LEMMA CardFacts ==
  ASSUME InOrder
  PROVE  /\ SlotInv /\ TypeOK /\ Consistent(sched, Asleep, Started) /\ sched \in SchedType
         /\ Scheduled = LetThrough(sched, Asleep)
         /\ Exclusive(sched, LetThrough(sched, Asleep))
<1>1. Scheduled = LetThrough(sched, Asleep)
  BY ScheduledAre DEF LetThrough
<1> QED
  BY <1>1 DEF InOrder, SlotInv, TypeOK

(* The first model of an idle card (211-214): whatever follows is a step   *)
(* of the card nobody had.                                                 *)
LEMMA FirstUse ==
  ASSUME NEW s \in SchedType, NEW S, Exclusive(s, S), s.admitted = None,
         s.evicting = None, NEW m \in Models
  PROVE  LET t == [s EXCEPT !.admitted = m]
         IN  /\ Exclusive(t, S)
             /\ t.admitted = m /\ t.evicting = None /\ ~t.draining
             /\ t.event = s.event
             /\ \A u, U : CardStep(t, S, u, U) => CardStep(s, S, u, U)
<1> DEFINE t == [s EXCEPT !.admitted = m]
<1>1. /\ t.admitted = m /\ t.evicting = None /\ t.draining = s.draining
      /\ t.event = s.event /\ t.evictTasks = s.evictTasks /\ t.waiting = s.waiting
  BY DEF SchedType
<1> HIDE DEF t
<1>2. S = {} /\ ~s.draining /\ m # None
  BY NoneAssumption DEF Exclusive
<1>3. Exclusive(t, S)
  BY <1>1, <1>2 DEF Exclusive
<1>4. ASSUME NEW u, NEW U, CardStep(t, S, u, U) PROVE CardStep(s, S, u, U)
  BY <1>1, <1>2, <1>4 DEF CardStep
<1> QED
  BY <1>1, <1>2, <1>3, <1>4 DEF t

(* _can_run after the probe for foreign models, in time (209-214).         *)
LEMMA ForeignCard ==
  ASSUME TypeOK, NEW r \in Req, r \notin Asleep, r \notin Started,
         NEW s, Consistent(s, Asleep, Started), Exclusive(s, LetThrough(s, Asleep)),
         NeedsForeignProbe(s), ForeignVerdict(r, s)
  PROVE  /\ Exclusive(sched', Scheduled')
         /\ CardStep(s, LetThrough(s, Asleep), sched', Scheduled')
<1>1. s.admitted = None /\ s.evicting = None /\ s \in SchedType
  BY DEF NeedsForeignProbe, Consistent
<1>2. ASSUME NEW m \in Models
      PROVE  LET t == [s EXCEPT !.admitted = m]
             IN /\ t \in SchedType /\ Consistent(t, Asleep, Started)
                /\ Exclusive(t, LetThrough(t, Asleep))
                /\ t.evicting = None /\ ~t.draining /\ t.admitted = m
                /\ t.admitted # None
                /\ \A u, U : CardStep(t, LetThrough(t, Asleep), u, U) =>
                            CardStep(s, LetThrough(s, Asleep), u, U)
  <2> DEFINE t == [s EXCEPT !.admitted = m]
             S == LetThrough(s, Asleep)
  <2>1. /\ t \in SchedType /\ Consistent(t, Asleep, Started)
        /\ t.admitted # None /\ t.event = s.event
    BY Admits
  <2> HIDE DEF S
  <2>2. /\ Exclusive(t, S) /\ t.admitted = m
        /\ t.evicting = None /\ ~t.draining
        /\ \A u, U : CardStep(t, S, u, U) => CardStep(s, S, u, U)
    BY <1>1, FirstUse DEF S
  <2> HIDE DEF t
  <2>3. LetThrough(t, Asleep) = S
    BY <2>1 DEF LetThrough, S
  <2>4. /\ t \in SchedType /\ Consistent(t, Asleep, Started)
        /\ Exclusive(t, LetThrough(t, Asleep))
        /\ t.evicting = None /\ ~t.draining /\ t.admitted = m
        /\ t.admitted # None
        /\ \A u, U : CardStep(t, LetThrough(t, Asleep), u, U) =>
                    CardStep(s, S, u, U)
    BY <2>1, <2>2, <2>3, Zenon
  <2> QED
    BY <2>4 DEF t, S
<1>3. CASE Begin(r, [s EXCEPT !.admitted = ReqModel[r]])
  <2> DEFINE t == [s EXCEPT !.admitted = ReqModel[r]]
  <2>0. ReqModel[r] \in Models
    BY RequestsAssumption
  <2>1. /\ t \in SchedType
        /\ Exclusive(t, LetThrough(t, Asleep))
        /\ t.evicting = None /\ ~t.draining /\ t.admitted = ReqModel[r]
        /\ t.admitted # None
        /\ \A u, U : CardStep(t, LetThrough(t, Asleep), u, U) =>
                    CardStep(s, LetThrough(s, Asleep), u, U)
    BY <1>2, <2>0
  <2>2. Begin(r, t)
    BY <1>3
  <2> HIDE DEF t
  <2>3. Backend[ReqModel[r]] = Backend[t.admitted]
    BY <2>1
  <2>4. /\ Exclusive(sched', Scheduled')
        /\ CardStep(t, LetThrough(t, Asleep), sched', Scheduled')
    BY <2>1, <2>2, <2>3, BeginCard
  <2> QED
    BY <2>1, <2>4
<1>4. CASE \E f \in Models : Enqueue(r, [s EXCEPT !.admitted = f])
  <2>1. PICK f \in Models : Enqueue(r, [s EXCEPT !.admitted = f])
    BY <1>4
  <2> DEFINE t == [s EXCEPT !.admitted = f]
  <2>2. /\ Consistent(t, Asleep, Started)
        /\ Exclusive(t, LetThrough(t, Asleep))
        /\ t.admitted # None
        /\ \A u, U : CardStep(t, LetThrough(t, Asleep), u, U) =>
                    CardStep(s, LetThrough(s, Asleep), u, U)
    BY <1>2
  <2>3. Enqueue(r, t)
    BY <2>1
  <2> HIDE DEF t
  <2>4. /\ Exclusive(sched', Scheduled')
        /\ CardStep(t, LetThrough(t, Asleep), sched', Scheduled')
    BY <2>2, <2>3, EnqueueCard
  <2> QED
    BY <2>2, <2>4
<1> QED
  BY <1>3, <1>4 DEF ForeignVerdict

(* Beside the admitted model, in time (215-223).                           *)
LEMMA BesideCard ==
  ASSUME TypeOK, NEW r \in Req, r \notin Asleep, r \notin Started,
         NEW s, Consistent(s, Asleep, Started), Exclusive(s, LetThrough(s, Asleep)),
         \/ Begin(r, s) /\ (NeedsBesideProbe(s, r) \/ GoesStraight(s, r))
         \/ Enqueue(r, s) /\ s.admitted # None
  PROVE  /\ Exclusive(sched', Scheduled')
         /\ CardStep(s, LetThrough(s, Asleep), sched', Scheduled')
<1>1. s \in SchedType /\ ReqModel[r] # None
  BY RequestsAssumption, NoneAssumption DEF Consistent
<1>2. CASE Enqueue(r, s) /\ s.admitted # None
  BY <1>2, EnqueueCard
<1>3. CASE Begin(r, s) /\ (NeedsBesideProbe(s, r) \/ GoesStraight(s, r))
  <2>1. /\ s.evicting = None /\ ~s.draining /\ s.admitted # None
        /\ Backend[ReqModel[r]] = Backend[s.admitted]
    BY <1>1, <1>3 DEF NeedsBesideProbe, GoesStraight
  <2> QED
    BY <1>1, <1>3, <2>1, BeginCard
<1> QED
  BY <1>2, <1>3

(* acquire while the scheduler is on (141-160).                            *)
LEMMA AcquireCard ==
  ASSUME InOrder, NEW r \in Req, Acquire(r)
  PROVE  CardGoesOn
<1>1. /\ SlotInv /\ TypeOK /\ sched \in SchedType
      /\ Scheduled = LetThrough(sched, Asleep)
      /\ Exclusive(sched, LetThrough(sched, Asleep))
  BY CardFacts
<1>2. r \notin Asleep /\ r \notin Started
  BY DEF Acquire, Asleep, Started
<1>3. PICK ahead \in Places(r) : CanRun(r, Arrive(r, ahead))
  BY DEF Acquire
<1> DEFINE s == Arrive(r, ahead)
<1>4. /\ s \in SchedType /\ Consistent(s, Asleep, Started)
      /\ SameCard(sched, s) /\ s.waiting = sched.waiting /\ s.event = sched.event
  BY <1>1, Arrives
<1>5. CanRun(r, s)
  BY <1>3
<1> HIDE DEF s
<1>6. LetThrough(s, Asleep) = Scheduled
  BY <1>1, <1>4 DEF LetThrough
<1>7. Exclusive(s, Scheduled)
  BY <1>1, <1>4 DEF Exclusive, SameCard
<1>8. /\ Exclusive(sched', Scheduled')
      /\ CardStep(s, Scheduled, sched', Scheduled')
  <2>1. CASE NeedsForeignProbe(s) /\ ForeignVerdict(r, s)
    BY <1>1, <1>2, <1>4, <1>6, <1>7, <2>1, ForeignCard
  <2>2. CASE Suspend(r, s, "foreign") \/ Suspend(r, s, "beside")
    <3>1. sched' = s /\ Scheduled' = Scheduled
      BY <1>1, <1>2, <1>4, <2>2
      DEF Suspend, Scheduled, Granted, TypeOK, Asleep, Started
    <3>2. SameCard(s, sched') /\ sched'.waiting \subseteq s.waiting
      BY <3>1 DEF SameCard
    <3> QED
      BY <1>7, <3>1, <3>2, LeavingCard
  <2>3. CASE \/ GoesStraight(s, r) /\ Begin(r, s)
             \/ NeedsBesideProbe(s, r) /\ BesideVerdict(r, s)
             \/ /\ ~NeedsForeignProbe(s)
                /\ Enqueue(r, s)
    <3>1. \/ Begin(r, s) /\ (NeedsBesideProbe(s, r) \/ GoesStraight(s, r))
          \/ Enqueue(r, s) /\ s.admitted # None
      BY <1>7, <2>3 DEF BesideVerdict, NeedsBesideProbe, NeedsForeignProbe, Exclusive
    <3> QED
      BY <1>1, <1>2, <1>4, <1>6, <1>7, <3>1, BesideCard
  <2> QED
    BY <1>5, <2>1, <2>2, <2>3 DEF CanRun
<1> QED
  BY <1>4, <1>8 DEF CardGoesOn, CardStep, SameCard, Owner

(* A card left alone, or left by somebody, while nobody changes it.        *)
LEMMA StaysCard ==
  ASSUME InOrder, SameCard(sched, sched'), sched'.waiting \subseteq sched.waiting,
         Scheduled' \subseteq Scheduled
  PROVE  CardGoesOn
  BY LeavingCard DEF InOrder, CardGoesOn

(* A switch that comes in time after the hold probe (239-242).             *)
LEMMA InTimeCard ==
  ASSUME InOrder, NEW p \in probes, NEW t \in Switches(p.target), ~TooLateToSwitch
  PROVE  /\ t \in SchedType
         /\ Exclusive(t, LetThrough(t, Asleep))
         /\ CardStep(sched, Scheduled, t, LetThrough(t, Asleep))
<1>1. /\ SlotInv /\ Consistent(sched, Asleep, Started)
      /\ Scheduled = LetThrough(sched, Asleep)
      /\ Exclusive(sched, LetThrough(sched, Asleep))
  BY CardFacts
<1>2. /\ p.target \in Models /\ t = BeginSwitch(sched, p.target)
      /\ t \in SchedType
  BY <1>1, SwitchesKept
<1>3. Running \in SUBSET Started
  BY DEF Running, Started
<1>4. ~Busy(sched) /\ sched.evicting = None
  BY DEF TooLateToSwitch
<1> QED
  BY <1>1, <1>2, <1>3, <1>4, BeginSwitchCard DEF LetThrough

(* The callers' steps that are not late.                                   *)
LEMMA CallerCard ==
  ASSUME InOrder, ~stale', NEW r \in Req, CallerNext(r)
  PROVE  CardGoesOn
<1>1. /\ SlotInv /\ TypeOK /\ Consistent(sched, Asleep, Started) /\ sched \in SchedType
      /\ Scheduled = LetThrough(sched, Asleep)
      /\ Exclusive(sched, LetThrough(sched, Asleep))
  BY CardFacts
<1>2. CASE AcquireDisabled(r)
  <2>1. /\ sched' = Start(sched, r)
        /\ pc[r] = "idle" /\ pc' = [pc EXCEPT ![r] = "bypass"]
    BY <1>2 DEF AcquireDisabled
  <2>2. SameCard(sched, sched') /\ sched'.waiting = sched.waiting
        /\ sched'.event = sched.event
    BY <1>1, <2>1, OtherMethods
  <2>3. Scheduled' \subseteq Scheduled
    BY <1>1, <2>1, <2>2 DEF Scheduled, Granted, TypeOK
  <2> QED
    BY <2>2, <2>3, StaysCard
<1>3. CASE Acquire(r)
  BY <1>3, AcquireCard
<1>4. CASE ForeignAnswer(r)
  <2>1. NeedsForeignProbe(sched) /\ ForeignVerdict(r, sched)
    BY <1>4 DEF ForeignAnswer, Remember
  <2>2. r \notin Asleep /\ r \notin Started
    BY <1>4 DEF ForeignAnswer, Asleep, Started
  <2> QED
    BY <1>1, <2>1, <2>2, ForeignCard DEF CardGoesOn
<1>5. CASE BesideAnswer(r)
  <2>1. r \notin Asleep /\ r \notin Started /\ pc[r] = "beside"
    BY <1>5 DEF BesideAnswer, Asleep, Started
  <2>2. CASE Begin(r, sched) /\ (NeedsBesideProbe(sched, r) \/ GoesStraight(sched, r))
    BY <1>1, <2>1, <2>2, BesideCard DEF CardGoesOn
  <2>3. CASE Enqueue(r, sched)
    <3>1. sched.admitted # None
      BY <2>1 DEF InOrder, Asked
    <3> QED
      BY <1>1, <2>1, <2>3, <3>1, BesideCard DEF CardGoesOn
  <2> QED
    BY <1>5, <2>2, <2>3 DEF BesideAnswer, Remember
<1>6. CASE Wake(r)
  <2>1. /\ r \in Asleep /\ r \notin Started /\ Asleep \cup {r} = Asleep
        /\ Poll(r, sched)
    BY <1>6 DEF Wake, Asleep, Started
  <2> QED
    BY <1>1, <2>1, PollCard DEF CardGoesOn
<1>7. CASE HoldAnswer(r)
  <2>0. r \in Asleep /\ r \notin Started /\ Asleep \cup {r} = Asleep
    BY <1>7 DEF HoldAnswer, Asleep, Started
  <2>1. CASE Settle(r, sched)
    <3>1. /\ Scheduled' = Scheduled
          /\ SameCard(sched, sched') /\ sched'.waiting \subseteq sched.waiting
      BY <1>1, <2>0, <2>1, SettleCard
    <3> QED
      BY <3>1, StaysCard
  <2>2. CASE \E p \in probes : \E t \in Switches(p.target) :
               Settle(r, t) /\ ~TooLateToSwitch
    <3>0. PICK p \in probes :
            \E t \in Switches(p.target) : Settle(r, t) /\ ~TooLateToSwitch
      BY <2>2
    <3>1. PICK t \in Switches(p.target) : Settle(r, t) /\ ~TooLateToSwitch
      BY <3>0
    <3>2. /\ Exclusive(t, LetThrough(t, Asleep)) /\ t \in SchedType
          /\ CardStep(sched, Scheduled, t, LetThrough(t, Asleep))
      BY <3>1, InTimeCard
    <3>3. /\ Scheduled' = LetThrough(t, Asleep)
          /\ SameCard(t, sched') /\ sched'.waiting \subseteq t.waiting
      BY <1>1, <2>0, <3>1, <3>2, SettleCard
    <3> QED
      BY <3>2, <3>3, SameCardStep DEF CardGoesOn
  <2> QED
    BY <1>7, <2>1, <2>2 DEF HoldAnswer, Remember
<1>8. ASSUME sched' = FreeSlot(sched, r) \/ sched' = Leave(sched, {r}),
             pc' = [pc EXCEPT ![r] = "idle"]
      PROVE  CardGoesOn
  <2>1. /\ SameCard(sched, sched') /\ sched'.waiting \subseteq sched.waiting
        /\ sched'.event \subseteq sched.event
    <3>1. CASE sched' = FreeSlot(sched, r)
      BY <1>1, <3>1, OtherMethods
    <3>2. CASE sched' = Leave(sched, {r})
      BY <1>1, <3>2, OtherMethods
    <3> QED
      BY <1>8, <3>1, <3>2
  <2>2. Scheduled' \subseteq Scheduled
    BY <1>1, <1>8, <2>1 DEF Scheduled, Granted, TypeOK
  <2> QED
    BY <2>1, <2>2, StaysCard
<1>9. CASE Release(r)
  BY <1>8, <1>9 DEF Release, FreeAndKick
<1>10. CASE Cancel(r)
  BY <1>8, <1>10 DEF Cancel, FreeAndKick
<1>11. CASE Starve(r)
  <2>1. /\ SameCard(sched, sched') /\ sched'.waiting = sched.waiting
        /\ sched'.event = sched.event /\ pc' = pc
    BY <1>1, <1>11 DEF Starve, SchedType, SameCard
  <2>2. Scheduled' = Scheduled
    BY <2>1 DEF Scheduled, Granted
  <2> QED
    BY <2>1, <2>2, StaysCard
<1> QED
  BY <1>2, <1>3, <1>4, <1>5, <1>6, <1>7, <1>9, <1>10, <1>11 DEF CallerNext

(* The eviction of a backend ends: the card, still empty, changes hands    *)
(* (254-267).                                                              *)
LEMMA EvictDoneCard ==
  ASSUME InOrder, EvictDone
  PROVE  CardGoesOn
<1>1. /\ TypeOK /\ Consistent(sched, Asleep, Started) /\ sched \in SchedType
      /\ Scheduled = LetThrough(sched, Asleep)
      /\ Exclusive(sched, LetThrough(sched, Asleep))
  BY CardFacts
<1>2. PICK m \in Models : /\ sched.evictTasks[m] > 0
                         /\ sched' = Evicted(sched, m)
                         /\ UNCHANGED <<pc, probes, kicks>>
  BY DEF EvictDone
<1> DEFINE tasks == Add(sched.evictTasks, m, -1)
           s == [sched EXCEPT !.evicting = None, !.evictTasks = tasks]
<1>3. sched.evicting = m
  BY <1>1, <1>2 DEF Exclusive, One
<1>4. Scheduled = {} /\ sched.admitted # None /\ m # None
  BY <1>1, <1>3, NoneAssumption DEF Exclusive
<1>5. tasks \in [Models -> Nat]
  BY <1>1, <1>2, CounterTypes DEF SchedType
<1>6. \A k \in Models : tasks[k] = 0
  <2>1. \A k \in Models : sched.evictTasks[k] = One(m = k)
    BY <1>1, <1>3 DEF Exclusive
  <2> QED
    BY <1>1, <2>1 DEF Add, One, SchedType
<1>7. sched' = SwitchTo(s, m)
  BY <1>2 DEF Evicted
<1> HIDE DEF tasks
<1>8. /\ s \in SchedType /\ s.waiting = sched.waiting /\ s.event = sched.event
      /\ s.inFlight = sched.inFlight
      /\ s.interactiveRunning = sched.interactiveRunning
      /\ s.evicting = None /\ s.evictTasks = tasks
      /\ s.admitted = sched.admitted
  BY <1>1, <1>5 DEF SchedType
<1> HIDE DEF s
<1>9. Consistent(s, Asleep, Started)
  BY <1>1, <1>8, SameSlots
<1>10. Running \cup (Asleep \cap s.event) = {}
  BY <1>1, <1>4, <1>8 DEF LetThrough
<1>11. \A k \in Models : s.evictTasks[k] = One(s.evicting = k)
  BY <1>6, <1>8, NoneAssumption DEF One
<1>12. Exclusive(s, Running \cup (Asleep \cap s.event))
  BY <1>4, <1>8, <1>10, <1>11 DEF Exclusive
<1>13. Running \in SUBSET Started
  BY DEF Running, Started
<1>14. Exclusive(sched', Running \cup (Asleep \cap sched'.event))
  BY <1>7, <1>8, <1>9, <1>10, <1>12, <1>13, SwitchToCard
<1>15. Scheduled' = Running \cup (Asleep \cap sched'.event)
  BY <1>2 DEF Scheduled, Granted, Running, Asleep
<1>16. /\ sched'.admitted = m /\ ~sched'.draining /\ sched'.evicting = None
  BY <1>7, <1>8, SwitchToFields
<1>17. CardStep(sched, Scheduled, sched', Scheduled')
  BY <1>3, <1>4, <1>16 DEF CardStep
<1> QED
  BY <1>14, <1>15, <1>17 DEF CardGoesOn

(* Every step that is not late is one of the card.                         *)
LEMMA NextCard ==
  ASSUME InOrder, ~stale', Next
  PROVE  CardGoesOn
<1>1. /\ SlotInv /\ TypeOK /\ Consistent(sched, Asleep, Started) /\ sched \in SchedType
      /\ Scheduled = LetThrough(sched, Asleep)
      /\ Exclusive(sched, LetThrough(sched, Asleep))
  BY CardFacts
<1>2. ASSUME pc' = pc PROVE Scheduled' = LetThrough(sched', Asleep)
  BY <1>2 DEF Scheduled, Granted, Running, Asleep, LetThrough
<1>3. ASSUME SameCard(sched, sched'), sched'.waiting = sched.waiting,
             sched'.event = sched.event, pc' = pc
      PROVE  CardGoesOn
  <2>1. Scheduled' = Scheduled
    BY <1>3 DEF Scheduled, Granted
  <2> QED
    BY <1>3, <2>1, StaysCard
<1>4. CASE Kick
  <2>1. CASE sched' \in MaybeSwitch(sched)
    <3>1. Running \in SUBSET Started
      BY DEF Running, Started
    <3>2. /\ Exclusive(sched', LetThrough(sched', Asleep))
          /\ CardStep(sched, LetThrough(sched, Asleep),
                      sched', LetThrough(sched', Asleep))
      BY <1>1, <2>1, <3>1, MaybeSwitchCard DEF LetThrough
    <3> QED
      BY <1>1, <1>2, <1>4, <3>2 DEF CardGoesOn, Kick
  <2>2. CASE sched' = sched
    BY <1>3, <1>4, <2>2 DEF Kick, SameCard
  <2> QED
    BY <1>4, <2>1, <2>2 DEF Kick
<1>5. CASE KickAnswer
  <2>1. CASE sched' = sched
    BY <1>3, <1>5, <2>1 DEF KickAnswer, SameCard
  <2>2. CASE \E p \in probes : sched' \in Switches(p.target) /\ ~TooLateToSwitch
    <3>1. PICK p \in probes : sched' \in Switches(p.target) /\ ~TooLateToSwitch
      BY <2>2
    <3>2. /\ Exclusive(sched', LetThrough(sched', Asleep))
          /\ CardStep(sched, Scheduled, sched', LetThrough(sched', Asleep))
      BY <3>1, InTimeCard
    <3> QED
      BY <1>2, <1>5, <3>2 DEF CardGoesOn, KickAnswer
  <2> QED
    BY <1>5, <2>1, <2>2 DEF KickAnswer, KickProbes, Remember
<1>6. CASE Refresh
  BY <1>1, <1>3, <1>6 DEF Refresh, SchedType, SameCard
<1>7. CASE HoldExpires
  BY <1>1, <1>3, <1>7 DEF HoldExpires, SchedType, SameCard
<1> QED
  BY <1>4, <1>5, <1>6, <1>7, CallerCard, EvictDoneCard DEF Next

-----------------------------------------------------------------------------
(* Late answers, and the way back. *)

(* Whoever comes to stand in the last probe of _can_run met an admitted    *)
(* model, and a model once admitted is only followed by another.           *)
LEMMA NextAsked ==
  ASSUME SlotInv, Asked, [Next]_vars
  PROVE  Asked'
<1> SUFFICES ASSUME sched'.admitted = None, NEW x \in Req, pc'[x] = "beside"
             PROVE  FALSE
  BY DEF Asked
<1>1. sched.admitted = None /\ TypeOK
  BY NextKept DEF Kept, SlotInv
<1>2. pc[x] # "beside"
  BY <1>1 DEF Asked
<1>3. ASSUME NEW r \in Req, NEW where \in PC \ {"beside"}, pc' = [pc EXCEPT ![r] = where]
      PROVE  FALSE
  BY <1>1, <1>2, <1>3 DEF TypeOK
<1>4. ASSUME NEW r \in Req, NEW s, Settle(r, s) PROVE FALSE
  BY <1>3, <1>4 DEF Settle, PC
<1>5. ASSUME NEW r \in Req, NEW s, Begin(r, s) \/ Enqueue(r, s) \/ Poll(r, s) PROVE FALSE
  <2>1. CASE Begin(r, s)
    BY <1>3, <2>1 DEF Begin, PC
  <2>2. ASSUME NEW u, Poll(r, u) PROVE FALSE
    BY <1>3, <1>4, <2>2 DEF Poll, PC
  <2> QED
    BY <1>5, <2>1, <2>2 DEF Enqueue
<1>6. ASSUME NEW r \in Req, NEW s, ForeignVerdict(r, s) PROVE FALSE
  BY <1>5, <1>6 DEF ForeignVerdict
<1>7. ASSUME NEW r \in Req, Acquire(r) PROVE FALSE
  <2>1. PICK ahead \in Places(r) : CanRun(r, Arrive(r, ahead))
    BY <1>7 DEF Acquire
  <2> DEFINE s == Arrive(r, ahead)
  <2>2. s.admitted = None
    BY <1>1, Arrives DEF SameCard
  <2>3. CanRun(r, s)
    BY <2>1
  <2> HIDE DEF s
  <2>4. ~Suspend(r, s, "foreign")
    BY <1>3 DEF Suspend, PC
  <2> QED
    BY <1>5, <1>6, <2>2, <2>3, <2>4 DEF CanRun, NeedsBesideProbe
<1>8. ASSUME NEW r \in Req, CallerNext(r) PROVE FALSE
  <2>1. ~AcquireDisabled(r) /\ ~Release(r) /\ ~Cancel(r)
    BY <1>3 DEF AcquireDisabled, Release, Cancel, PC
  <2>2. ~Starve(r)
    BY <1>2 DEF Starve
  <2>3. ~ForeignAnswer(r) /\ ~BesideAnswer(r) /\ ~Wake(r)
    BY <1>5, <1>6 DEF ForeignAnswer, BesideAnswer, Wake
  <2>4. ~HoldAnswer(r)
    BY <1>4 DEF HoldAnswer
  <2> QED
    BY <1>7, <1>8, <2>1, <2>2, <2>3, <2>4 DEF CallerNext
<1>9. pc' # pc
  BY <1>2
<1> QED
  BY <1>8, <1>9 DEF Next, vars, Kick, KickAnswer, EvictDone, Refresh, HoldExpires

(* A late answer leaves a card with an admitted model.                     *)
LEMMA LateKept ==
  ASSUME InOrder, stale', Next
  PROVE  sched'.admitted # None
<1>1. ASSUME sched.admitted # None PROVE sched'.admitted # None
  BY <1>1, NextKept DEF InOrder, Kept
<1>2. ASSUME Remember(FALSE) PROVE FALSE
  BY <1>2 DEF Remember, InOrder
<1>3. ASSUME NEW r \in Req, ForeignAnswer(r) PROVE sched'.admitted # None
  <2>1. r \notin Asleep /\ r \notin Started /\ Consistent(sched, Asleep, Started)
    BY <1>3 DEF ForeignAnswer, Asleep, Started, InOrder, SlotInv
  <2> QED
    BY <1>3, <2>1, ForeignKept DEF ForeignAnswer
<1>4. ASSUME NEW r \in Req, BesideAnswer(r) PROVE sched'.admitted # None
  BY <1>1, <1>4 DEF BesideAnswer, InOrder, Asked
<1>5. ASSUME NEW r \in Req, HoldAnswer(r) PROVE sched'.admitted # None
  <2>0. PICK p \in probes : \E t \in Switches(p.target) : Settle(r, t)
    BY <1>2, <1>5 DEF HoldAnswer
  <2>1. PICK t \in Switches(p.target) : Settle(r, t)
    BY <2>0
  <2>2. t \in SchedType /\ t.admitted # None
    BY SwitchesKept DEF InOrder
  <2> QED
    BY <2>1, <2>2, StartedOrSettled DEF SameCard
<1>6. ASSUME KickAnswer PROVE sched'.admitted # None
  BY <1>2, <1>6, SwitchesKept DEF KickAnswer, KickProbes, InOrder
<1>7. ASSUME NEW r \in Req, CallerNext(r) PROVE sched'.admitted # None
  BY <1>2, <1>3, <1>4, <1>5, <1>7
  DEF CallerNext, AcquireDisabled, Acquire, Wake, Release, Cancel, Starve
<1> QED
  BY <1>2, <1>6, <1>7 DEF Next, Kick, EvictDone, Refresh, HoldExpires

(* A card that was out of order is in order again when it is empty.        *)
LEMMA RecoversEmpty == stale /\ ~stale' /\ Next => CardEmpty'
<1> SUFFICES ASSUME stale, ~stale', Next PROVE CardEmpty'
  OBVIOUS
<1>1. ASSUME NEW late, Remember(late) PROVE CardEmpty'
  BY <1>1 DEF Remember
<1>2. ASSUME NEW r \in Req, CallerNext(r) PROVE CardEmpty'
  BY <1>1, <1>2 DEF CallerNext, AcquireDisabled, Acquire, ForeignAnswer, BesideAnswer,
     Wake, HoldAnswer, Release, Cancel, Starve
<1>3. ASSUME Kick \/ KickAnswer \/ EvictDone \/ Refresh \/ HoldExpires
      PROVE  CardEmpty'
  BY <1>1, <1>3 DEF Kick, KickAnswer, EvictDone, Refresh, HoldExpires
<1> QED
  BY <1>2, <1>3 DEF Next

LEMMA InitCardInv == Init => CardInv
<1> SUFFICES ASSUME Init PROVE CardInv
  OBVIOUS
<1>1. SlotInv
  BY InitSlotInv
<1>2. Asked /\ Scheduled = {} /\ ~stale
  BY DEF Init, Asked, Scheduled, Granted
<1>3. Exclusive(sched, {})
  BY NoneAssumption DEF Init, Exclusive, One
<1> QED
  BY <1>1, <1>2, <1>3 DEF CardInv

LEMMA StepCardInv == CardInv /\ [Next]_vars => CardInv'
<1> SUFFICES ASSUME CardInv, [Next]_vars PROVE CardInv'
  OBVIOUS
<1>1. SlotInv' /\ Asked'
  BY NextSlotInv, NextAsked DEF CardInv
<1>2. CASE UNCHANGED vars
  <2>1. sched' = sched /\ stale' = stale /\ Scheduled' = Scheduled
    BY <1>2 DEF vars, Scheduled, Granted
  <2> QED
    BY <1>1, <2>1 DEF CardInv
<1>3. CASE Next /\ stale /\ stale'
  BY <1>1, <1>3, NextKept DEF CardInv, Kept
<1>4. CASE Next /\ stale /\ ~stale'
  <2>1. Scheduled' = {} /\ sched'.evicting = None
        /\ \A m \in Models : sched'.evictTasks[m] = 0
    BY <1>4, RecoversEmpty DEF CardEmpty
  <2>2. sched'.admitted # None
    BY <1>4, NextKept DEF CardInv, Kept
  <2>3. Exclusive(sched', Scheduled')
    BY <2>1, <2>2, NoneAssumption DEF Exclusive, One
  <2> QED
    BY <1>1, <1>4, <2>3 DEF CardInv
<1>5. CASE Next /\ ~stale
  <2>1. InOrder
    BY <1>5 DEF CardInv, InOrder
  <2> QED
    BY <1>1, <1>5, <2>1, LateKept, NextCard DEF CardInv, CardGoesOn
<1> QED
  BY <1>2, <1>3, <1>4, <1>5

LEMMA CardInvariant == Spec => []CardInv
  BY InitCardInv, StepCardInv, PTL DEF Spec

-----------------------------------------------------------------------------
(* Models of different backends run side by side, and something is let     *)
(* through while a backend is being emptied, only after an answer that     *)
(* came too late and only until the card is empty (_can_run 208-223,       *)
(* _maybe_switch 225-242, _begin_switch).                                  *)
THEOREM CardSafe == Spec => [](OneBackend /\ NothingDuringEviction)
<1>1. CardInv => OneBackend /\ NothingDuringEviction
  BY DEF CardInv, Exclusive, OneBackend, NeverSideBySide, NothingDuringEviction
<1> QED
  BY <1>1, CardInvariant, PTL

(* Nothing the scheduler let through is on the card while it is emptied,   *)
(* unless an answer came too late (the evicting tests of _can_run and      *)
(* _maybe_switch).                                                         *)
THEOREM EvictionIsAlone == Spec => []NothingDuringEviction
BY CardSafe, PTL

(* The admitted model changes only while nothing it let through runs, and  *)
(* a drained card lets nobody new in (_maybe_switch 233-242, _can_run      *)
(* 215-218), for every interleaving of waiters, releases, settings and     *)
(* evictions in which no answer comes too late.                            *)
THEOREM CardStepsSafe == Spec => SwitchOnlyWhenIdle /\ DrainAdmitsNobody
<1>1. ASSUME CardInv, [Next]_vars
      PROVE  /\ [~stale /\ ~stale' /\ sched'.admitted # sched.admitted
                   => Scheduled = {}]_vars
             /\ [~stale /\ ~stale' /\ sched.draining /\ sched'.draining =>
                   Scheduled' \subseteq Scheduled]_vars
  <2>1. CASE Next /\ ~stale /\ ~stale'
    <3>1. CardGoesOn
      BY <1>1, <2>1, NextCard DEF CardInv, InOrder
    <3> QED
      BY <3>1 DEF CardGoesOn, CardStep
  <2> QED
    BY <1>1, <2>1
<1>2. CardInv /\ [Next]_vars =>
        /\ [~stale /\ ~stale' /\ sched'.admitted # sched.admitted
              => Scheduled = {}]_vars
        /\ [~stale /\ ~stale' /\ sched.draining /\ sched'.draining =>
              Scheduled' \subseteq Scheduled]_vars
  BY <1>1
<1> QED
  BY <1>2, CardInvariant, PTL DEF Spec, SwitchOnlyWhenIdle, DrainAdmitsNobody

(* While somebody starves nobody new of the admitted model gets in, unless *)
(* an answer came too late (_can_run 215-218).                             *)
THEOREM DrainHolds == Spec => DrainAdmitsNobody
BY CardStepsSafe, PTL

-----------------------------------------------------------------------------
(* The scheduler implements the abstract card: a step is one of the card's *)
(* or a stutter.                                                           *)
LEMMA CardRefinesInit == Init => Card!CardInit
  BY DEF Init, Card!CardInit, Scheduled, Granted

LEMMA CardRefinesStep ==
  ASSUME InOrder, CardInv', ~stale', Next
  PROVE  Card!CardStep
<1> DEFINE owner == IF sched.admitted = None THEN None ELSE Backend[sched.admitted]
           closed == sched.evicting # None
<1>1. CardStep(sched, Scheduled, sched', Scheduled')
  BY NextCard DEF CardGoesOn
<1>2. /\ Exclusive(sched, Scheduled) /\ Exclusive(sched', Scheduled')
      /\ sched \in SchedType /\ sched' \in SchedType
      /\ Scheduled \in SUBSET Req /\ Scheduled' \in SUBSET Req
  <2>1. Exclusive(sched, Scheduled) /\ Exclusive(sched', Scheduled')
    BY DEF InOrder, CardInv
  <2>2. sched \in SchedType /\ sched' \in SchedType
    BY DEF InOrder, CardInv, SlotInv, TypeOK
  <2>3. Scheduled \in SUBSET Req /\ Scheduled' \in SUBSET Req
    BY DEF Scheduled, Granted
  <2> QED
    BY <2>1, <2>2, <2>3
<1>3. /\ owner = Owner(sched) /\ owner' = Owner(sched')
      /\ Owner(sched) \in Backends \cup {None}
      /\ Owner(sched') \in Backends \cup {None}
      /\ sched.admitted # None => Owner(sched) # None
      /\ sched'.admitted # None => Owner(sched') # None
  BY <1>2, ModelsAssumption, NoneAssumption DEF Owner, SchedType
<1>4. /\ Scheduled \in SUBSET Card!CallersOf(Owner(sched))
      /\ Scheduled' \in SUBSET Card!CallersOf(Owner(sched'))
  BY <1>2 DEF Exclusive, Owner, Card!CallersOf
<1>5. CASE sched.admitted = None
  <2>1. Scheduled = {} /\ sched.evicting = None /\ owner = None
    BY <1>2, <1>5 DEF Exclusive
  <2>2. CASE sched'.admitted = None
    <3>1. Scheduled' = {} /\ sched'.evicting = None
      BY <1>2, <2>2 DEF Exclusive
    <3> QED
      BY <1>5, <2>1, <2>2, <3>1 DEF Card!CardStep
  <2>3. CASE sched'.admitted # None
    <3>1. /\ Owner(sched') \in Backends
          /\ closed' => Scheduled' = {}
      BY <1>2, <1>3, <2>3 DEF Exclusive
    <3>2. Card!Take(Owner(sched'), Scheduled')
      BY <1>3, <2>1, <3>1 DEF Card!Take
    <3> QED
      BY <1>4, <3>1, <3>2 DEF Card!CardStep
  <2> QED
    BY <2>2, <2>3
<1>6. CASE sched.admitted # None /\ sched.evicting # None
  <2>1. Scheduled = {} /\ sched'.admitted # None /\ Owner(sched') \in Backends
    BY <1>1, <1>2, <1>3, <1>6 DEF Exclusive, CardStep
  <2>2. CASE sched'.evicting = None
    <3>1. Card!HandOver(Owner(sched'), Scheduled')
      BY <1>3, <1>6, <2>1, <2>2 DEF Card!HandOver
    <3> QED
      BY <1>4, <2>1, <3>1 DEF Card!CardStep
  <2>3. CASE sched'.evicting # None
    <3>1. Scheduled' = {} /\ Owner(sched') = Owner(sched)
      BY <1>1, <1>2, <1>6, <2>3 DEF Exclusive, CardStep
    <3> QED
      BY <1>3, <1>6, <2>1, <2>3, <3>1 DEF Card!CardStep
  <2> QED
    BY <2>2, <2>3
<1>7. CASE sched.admitted # None /\ sched.evicting = None
  <2>1. Owner(sched') = Owner(sched) /\ Owner(sched) # None
    BY <1>1, <1>3, <1>7 DEF CardStep
  <2>2. CASE sched'.evicting # None
    <3>1. Scheduled = {} /\ Scheduled' = {}
      BY <1>1, <1>2, <1>7, <2>2 DEF Exclusive, CardStep
    <3>2. Card!Close
      BY <1>3, <2>1, <2>2, <3>1 DEF Card!Close
    <3> QED
      BY <3>2 DEF Card!CardStep
  <2>3. CASE sched'.evicting = None /\ Scheduled \subseteq Scheduled'
    <3>1. Scheduled' = Scheduled \cup Scheduled'
      BY <2>3
    <3>2. Card!Enter(Scheduled')
      BY <1>3, <1>4, <1>7, <2>1, <2>3, <3>1 DEF Card!Enter
    <3> QED
      BY <1>2, <3>2 DEF Card!CardStep
  <2>4. CASE sched'.evicting = None /\ Scheduled' \subseteq Scheduled
    <3>1. Scheduled' = Scheduled \ (Scheduled \ Scheduled')
      BY <2>4
    <3>2. Card!Exit(Scheduled \ Scheduled')
      BY <1>3, <1>7, <2>1, <2>4, <3>1 DEF Card!Exit
    <3>3. Scheduled \ Scheduled' \in SUBSET Req
      BY <1>2
    <3> QED
      BY <3>2, <3>3 DEF Card!CardStep
  <2> QED
    BY <1>1, <2>2, <2>3, <2>4 DEF CardStep
<1> QED
  BY <1>5, <1>6, <1>7

(* Late answers break the card, an empty card is in order.                 *)
LEMMA CardRefinesNext ==
  ASSUME CardInv, CardInv', [Next]_vars
  PROVE  [Card!CardNext]_(Card!cardVars)
<1>1. CASE UNCHANGED vars
  BY <1>1 DEF vars, Card!cardVars, Scheduled, Granted
<1>2. CASE Next /\ stale'
  BY <1>2 DEF Card!CardNext, Card!Break
<1>3. CASE Next /\ ~stale' /\ stale
  BY <1>3, RecoversEmpty DEF Card!CardNext, Card!Recover, CardEmpty
<1>4. CASE Next /\ ~stale' /\ ~stale
  <2>1. InOrder
    BY <1>4 DEF CardInv, InOrder
  <2> QED
    BY <1>4, <2>1, CardRefinesStep DEF Card!CardNext
<1> QED
  BY <1>1, <1>2, <1>3, <1>4

(* Whoever uses the card, however they queue, drain and are cancelled, it  *)
(* is what GpuCard says: one owner, closed only when empty, and handed     *)
(* over only when closed, but for the time from a late answer until the    *)
(* card is empty.                                                          *)
THEOREM CardImplemented == Spec => ImplementsCard
<1>1. CardInv /\ CardInv' /\ [Next]_vars => [Card!CardNext]_(Card!cardVars)
  BY CardRefinesNext
<1> QED
  BY <1>1, CardRefinesInit, CardInvariant, PTL
  DEF Spec, ImplementsCard, Card!CardSpec
=============================================================================
