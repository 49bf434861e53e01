--------------------------- MODULE ModelLoadProofs ---------------------------
(* Preloading, for any clients, models and number of tasks: the slots,     *)
(* entries and tasks of loads stay consistent, and a call that is repeated *)
(* keeps its place.                                                        *)
EXTENDS ModelLoad, FiniteSetTheorems, TLAPS

Probers(m) == {c \in Clients : call[c].pc = "probing" /\ call[c].model = m}
Loaders(m) == {t \in Tasks : task[t] = m}

(* A call at work is for a model, and waits for a task.                    *)
AtWork ==
  \A c \in Clients :
    /\ call[c].pc \in {"acquiring", "probing", "waiting", "resuming"} => call[c].model \in Models
    /\ call[c].pc = "waiting" => call[c].task \in Tasks

(* The entry of a model is as old as any place that was given for it, and  *)
(* not older than the call: nobody who called within 60 s finds it gone.   *)
Placed(c) ==
  LET m == call[c].model IN
  /\ call[c].pc \in {"acquiring", "answered"} /\ m \in Models
  /\ now - call[c].began < Expiry =>
       /\ interest[m] # None
       /\ call[c].began <= interest[m].last
       /\ interest[m].first <= call[c].since
Places == \A c \in Clients : call[c].place => Placed(c)

LoadInv ==
  TypeOK /\ AtWork /\ WaitsForItsLoad /\ SlotsOfLoads /\ Places

-----------------------------------------------------------------------------
LEMMA Known ==
  /\ None \notin Tasks /\ None \notin Models /\ None \notin Entry
  /\ Expiry \in Nat \ {0} /\ MaxTime \in Nat
  BY LoadAssumption

LEMMA IdleIs == Idle \in CallType
  BY DEF Idle, CallType, PC, Statuses

LEMMA Typed ==
  ASSUME TypeOK
  PROVE  /\ now \in 0..MaxTime /\ now \in Nat
         /\ call \in [Clients -> CallType] /\ loading \in [Models -> Tasks \cup {None}]
         /\ interest \in [Models -> Entry \cup {None}]
         /\ task \in [Tasks -> Models \cup {None}] /\ inFlight \in [Models -> Nat]
         /\ \A c \in Clients : call[c] \in CallType
  BY DEF TypeOK

LEMMA Finite ==
  ASSUME NEW m \in Models
  PROVE  /\ IsFiniteSet(Probers(m)) /\ Cardinality(Probers(m)) \in Nat
         /\ IsFiniteSet(Loaders(m)) /\ Cardinality(Loaders(m)) \in Nat
<1>1. Probers(m) \in SUBSET Clients /\ Loaders(m) \in SUBSET Tasks
  BY DEF Probers, Loaders
<1> QED
  BY <1>1, LoadAssumption, FS_Subset, FS_CardinalityType

(* Who probes or loads is seen in the slots.                               *)
LEMMA HeldIsThere ==
  ASSUME TypeOK, SlotsOfLoads, NEW m \in Models
  PROVE  /\ inFlight[m] = Cardinality(Probers(m)) + Cardinality(Loaders(m))
         /\ Probers(m) # {} \/ Loaders(m) # {} => inFlight[m] > 0
<1>1. inFlight[m] = Cardinality(Probers(m)) + Cardinality(Loaders(m))
  BY DEF SlotsOfLoads, Probers, Loaders
<1>2. Probers(m) # {} => Cardinality(Probers(m)) > 0
  BY Finite, FS_EmptySet
<1>3. Loaders(m) # {} => Cardinality(Loaders(m)) > 0
  BY Finite, FS_EmptySet
<1> QED
  BY <1>1, <1>2, <1>3, Finite

LEMMA SinceIs ==
  ASSUME TypeOK, NEW m \in Models
  PROVE  Since(m) \in Nat /\ Since(m) <= now
<1>1. interest[m] # None => interest[m] \in Entry
  BY Typed
<1>2. interest[m] # None => interest[m].first <= interest[m].last /\ interest[m].last <= now
  BY DEF TypeOK
<1> QED
  BY <1>2, Typed DEF Since, Entry

LEMMA InitLoad == Init => LoadInv
<1> SUFFICES ASSUME Init PROVE LoadInv
  OBVIOUS
<1>1. TypeOK
  <2>1. /\ call \in [Clients -> CallType] /\ now \in 0..MaxTime
        /\ \A c \in Clients : call[c].since <= call[c].began /\ call[c].began <= now
    BY IdleIs, Known DEF Init, Idle
  <2>2. /\ loading \in [Models -> Tasks \cup {None}]
        /\ interest \in [Models -> Entry \cup {None}]
        /\ task \in [Tasks -> Models \cup {None}] /\ inFlight \in [Models -> Nat]
        /\ \A m \in Models : interest[m] = None
    BY DEF Init
  <2> QED
    BY <2>1, <2>2 DEF TypeOK
<1>2. AtWork /\ WaitsForItsLoad /\ Places
  BY DEF Init, Idle, AtWork, WaitsForItsLoad, Places
<1>3. SlotsOfLoads
  <2> SUFFICES ASSUME NEW m \in Models
               PROVE  inFlight[m] = Cardinality(Probers(m)) + Cardinality(Loaders(m))
    BY DEF SlotsOfLoads, Probers, Loaders
  <2>1. Probers(m) = {} /\ Loaders(m) = {} /\ inFlight[m] = 0
    BY Known DEF Init, Idle, Probers, Loaders
  <2> QED
    BY <2>1, FS_EmptySet
<1> QED
  BY <1>1, <1>2, <1>3 DEF LoadInv

-----------------------------------------------------------------------------
(* A call that is answered keeps its place or starts from nothing.         *)
LEMMA AnsweredIs ==
  ASSUME TypeOK, NEW c \in Clients, NEW status \in Statuses
  PROVE  /\ Answered(c, status) \in CallType
         /\ Answered(c, status).pc = "answered"
         /\ Answered(c, status).since <= Answered(c, status).began
         /\ Answered(c, status).began <= now
         /\ Answered(c, status).place =>
              /\ call[c].place
              /\ Answered(c, status).model = call[c].model
              /\ Answered(c, status).began = call[c].began
              /\ Answered(c, status).since = call[c].since
<1>1. /\ call[c] \in CallType /\ now \in Nat
      /\ call[c].since <= call[c].began /\ call[c].began <= now
  BY DEF TypeOK
<1>2. CASE status = "queued" /\ call[c].place
  <2> DEFINE y == [call[c] EXCEPT !.pc = "answered", !.status = "queued", !.ended = now]
  <2>1. Answered(c, status) = y
    BY <1>2 DEF Answered
  <2>2. /\ y \in CallType /\ y.pc = "answered" /\ y.place = call[c].place
        /\ y.model = call[c].model /\ y.began = call[c].began /\ y.since = call[c].since
    BY <1>1 DEF CallType, PC, Statuses
  <2> QED
    BY <1>1, <2>1, <2>2
<1>3. CASE ~(status = "queued" /\ call[c].place)
  <2> DEFINE y == [Idle EXCEPT !.pc = "answered", !.status = status]
  <2>1. Answered(c, status) = y
    BY <1>3 DEF Answered
  <2>2. /\ y \in CallType /\ y.pc = "answered" /\ ~y.place /\ y.since = 0 /\ y.began = 0
    BY DEF Idle, CallType, PC
  <2> QED
    BY <1>1, <2>1, <2>2
<1> QED
  BY <1>2, <1>3

(* What is left of a call that ends keeps the whole, whatever it held.     *)
LEMMA AnswerKeeps ==
  ASSUME LoadInv, NEW c \in Clients, NEW status \in Statuses,
         call' = [call EXCEPT ![c] = Answered(c, status)],
         UNCHANGED <<now, loading, interest, task>>
  PROVE  /\ call' \in [Clients -> CallType]
         /\ \A d \in Clients : call'[d].since <= call'[d].began /\ call'[d].began <= now
         /\ AtWork' /\ WaitsForItsLoad' /\ Places'
         /\ \A m \in Models : Probers(m)' = Probers(m) \ {c} /\ Loaders(m)' = Loaders(m)
<1> DEFINE y == Answered(c, status)
<1>1. /\ call \in [Clients -> CallType]
      /\ y \in CallType /\ y.pc = "answered" /\ y.since <= y.began /\ y.began <= now
      /\ y.place => /\ call[c].place /\ y.model = call[c].model
                    /\ y.began = call[c].began /\ y.since = call[c].since
  BY AnsweredIs, Typed DEF LoadInv
<1>2. call' = [call EXCEPT ![c] = y]
  OBVIOUS
<1> HIDE DEF y
<1>3. call'[c] = y /\ \A d \in Clients \ {c} : call'[d] = call[d]
  BY <1>1, <1>2
<1>4. \A d \in Clients : call[d].since <= call[d].began /\ call[d].began <= now
  BY DEF LoadInv, TypeOK
<1>5. call' \in [Clients -> CallType]
  BY <1>1, <1>2
<1>6. AtWork'
  BY <1>1, <1>3 DEF LoadInv, AtWork
<1>7. WaitsForItsLoad'
  BY <1>1, <1>3 DEF LoadInv, WaitsForItsLoad
<1>8. Places'
  <2> SUFFICES ASSUME NEW d \in Clients, call'[d].place PROVE Placed(d)'
    BY DEF Places
  <2>1. /\ call[d].place /\ call'[d].model = call[d].model
        /\ call'[d].began = call[d].began /\ call'[d].since = call[d].since
        /\ call'[d].pc \in {"acquiring", "answered"} \/ call'[d].pc = call[d].pc
    BY <1>1, <1>3
  <2>2. Placed(d)
    BY <2>1 DEF LoadInv, Places
  <2> QED
    BY <2>1, <2>2 DEF Placed
<1>9. \A m \in Models : Probers(m)' = Probers(m) \ {c} /\ Loaders(m)' = Loaders(m)
  BY <1>1, <1>3 DEF Probers, Loaders
<1> QED
  BY <1>1, <1>3, <1>4, <1>6, <1>7, <1>8, <1>9

(* Where nobody comes to hold a slot and nobody gives one back.            *)
LEMMA SameSlots ==
  ASSUME LoadInv, UNCHANGED inFlight,
         \A m \in Models : Probers(m)' = Probers(m) /\ Loaders(m)' = Loaders(m)
  PROVE  SlotsOfLoads'
<1>1. \A m \in Models :
        inFlight'[m] = Cardinality(Probers(m)') + Cardinality(Loaders(m)')
  BY HeldIsThere DEF LoadInv
<1> QED
  BY DEF LoadInv, SlotsOfLoads, Probers, Loaders

LEMMA AnswerHolds ==
  ASSUME LoadInv, NEW c \in Clients, NEW status \in Statuses, call[c].pc # "probing",
         call' = [call EXCEPT ![c] = Answered(c, status)],
         UNCHANGED <<now, loading, interest, task, inFlight>>
  PROVE  LoadInv'
<1>1. /\ call' \in [Clients -> CallType]
      /\ \A d \in Clients : call'[d].since <= call'[d].began /\ call'[d].began <= now
      /\ AtWork' /\ WaitsForItsLoad' /\ Places'
      /\ \A m \in Models : Probers(m)' = Probers(m) \ {c} /\ Loaders(m)' = Loaders(m)
  BY AnswerKeeps
<1>2. TypeOK'
  BY <1>1 DEF LoadInv, TypeOK
<1>3. \A m \in Models : Probers(m)' = Probers(m)
  BY <1>1 DEF Probers
<1> QED
  BY <1>1, <1>2, <1>3, SameSlots DEF LoadInv

-----------------------------------------------------------------------------
(* One lemma per action.                                                   *)
LEMMA NotAdmittedKeeps ==
  ASSUME LoadInv, NEW c \in Clients, NotAdmitted(c)
  PROVE  LoadInv'
<1>1. "queued" \in Statuses
  BY DEF Statuses
<1> QED
  BY <1>1, AnswerHolds DEF NotAdmitted

LEMMA NotLoadedKeeps ==
  ASSUME LoadInv, NEW c \in Clients, NotLoaded(c)
  PROVE  LoadInv'
<1>1. "loading" \in Statuses
  BY DEF Statuses
<1> QED
  BY <1>1, AnswerHolds DEF NotLoaded

LEMMA ResumesKeeps ==
  ASSUME LoadInv, NEW c \in Clients, Resumes(c)
  PROVE  LoadInv'
<1>1. call[c].status \in Statuses
  BY Typed DEF LoadInv, CallType
<1> QED
  BY <1>1, AnswerHolds DEF Resumes

LEMMA FoundLoadedKeeps ==
  ASSUME LoadInv, NEW c \in Clients, FoundLoaded(c)
  PROVE  LoadInv'
<1> DEFINE m == call[c].model
<1>1. /\ call[c].pc = "probing" /\ inFlight' = [inFlight EXCEPT ![m] = @ - 1]
      /\ call' = [call EXCEPT ![c] = Answered(c, "ready")] /\ "ready" \in Statuses
      /\ UNCHANGED <<now, loading, interest, task>>
  BY DEF FoundLoaded, Statuses
<1>2. /\ call' \in [Clients -> CallType]
      /\ \A d \in Clients : call'[d].since <= call'[d].began /\ call'[d].began <= now
      /\ AtWork' /\ WaitsForItsLoad' /\ Places'
      /\ \A n \in Models : Probers(n)' = Probers(n) \ {c} /\ Loaders(n)' = Loaders(n)
  BY <1>1, AnswerKeeps
<1>3. /\ m \in Models /\ c \in Probers(m) /\ \A n \in Models \ {m} : c \notin Probers(n)
      /\ inFlight \in [Models -> Nat]
  BY <1>1, Typed DEF LoadInv, AtWork, Probers
<1> HIDE DEF m
<1>4. inFlight[m] > 0
  BY <1>3, HeldIsThere DEF LoadInv
<1>5. inFlight' \in [Models -> Nat] /\ \A n \in Models : inFlight'[n] <= inFlight[n]
  BY <1>1, <1>3, <1>4
<1>6. TypeOK'
  BY <1>1, <1>2, <1>5 DEF LoadInv, TypeOK
<1>7. SlotsOfLoads'
  <2> SUFFICES ASSUME NEW n \in Models
               PROVE  inFlight'[n] = Cardinality(Probers(n)') + Cardinality(Loaders(n)')
    BY DEF SlotsOfLoads, Probers, Loaders
  <2>1. inFlight[n] = Cardinality(Probers(n)) + Cardinality(Loaders(n))
    BY HeldIsThere DEF LoadInv
  <2>2. CASE n = m
    <3>1. Cardinality(Probers(n) \ {c}) = Cardinality(Probers(n)) - 1
      BY <1>3, <2>2, Finite, FS_RemoveElement
    <3>2. inFlight'[n] = inFlight[n] - 1
      BY <1>1, <1>3, <2>2
    <3> QED
      BY <1>2, <2>1, <3>1, <3>2, Finite
  <2>3. CASE n # m
    <3>1. Probers(n) \ {c} = Probers(n)
      BY <1>3, <2>3
    <3> QED
      BY <1>1, <1>2, <1>3, <2>1, <3>1
  <2> QED
    BY <2>2, <2>3
<1> QED
  BY <1>2, <1>6, <1>7 DEF LoadInv

(* A new call of c, which held nothing and holds nothing yet.              *)
LEMMA CallKeeps ==
  ASSUME LoadInv, NEW c \in Clients, Call(c)
  PROVE  LoadInv'
<1>1. PICK m \in Models :
        LET new == [Idle EXCEPT !.model = m] IN
        IF loading[m] # None
        THEN /\ call' = [call EXCEPT ![c] = [new EXCEPT !.pc = "waiting", !.task = loading[m]]]
             /\ UNCHANGED interest
        ELSE /\ call' = [call EXCEPT ![c] = [new EXCEPT !.pc = "acquiring", !.began = now,
                                                      !.since = Since(m), !.place = TRUE]]
             /\ interest' = [interest EXCEPT ![m] = [first |-> Since(m), last |-> now]]
  BY DEF Call
<1>2. /\ UNCHANGED <<now, loading, task, inFlight>>
      /\ call[c].pc \in {"idle", "answered"}
  BY DEF Call
<1>3. /\ call \in [Clients -> CallType] /\ interest \in [Models -> Entry \cup {None}]
      /\ now \in Nat /\ Since(m) \in Nat /\ Since(m) <= now
      /\ loading[m] # None => loading[m] \in Tasks
  BY Typed, SinceIs DEF LoadInv
<1>4. PICK y \in CallType :
        /\ call' = [call EXCEPT ![c] = y] /\ y.model = m
        /\ y.since <= y.began /\ y.began <= now
        /\ \/ /\ y.pc = "waiting" /\ y.task = loading[m] /\ loading[m] # None /\ ~y.place
              /\ UNCHANGED interest
           \/ /\ y.pc = "acquiring" /\ y.began = now /\ y.since = Since(m)
              /\ interest' = [interest EXCEPT ![m] = [first |-> Since(m), last |-> now]]
  <2>1. CASE loading[m] # None
    <3> DEFINE x == [Idle EXCEPT !.model = m, !.pc = "waiting", !.task = loading[m]]
    <3>1. call' = [call EXCEPT ![c] = x] /\ UNCHANGED interest
      BY <1>1, <2>1
    <3>2. /\ x \in CallType /\ x.model = m /\ x.since = 0 /\ x.began = 0
          /\ x.pc = "waiting" /\ x.task = loading[m] /\ ~x.place
      BY <1>3 DEF Idle, CallType, PC, Statuses
    <3> HIDE DEF x
    <3> x \in CallType
      BY <3>2
    <3> WITNESS x \in CallType
    <3> QED
      BY <1>3, <2>1, <3>1, <3>2
  <2>2. CASE loading[m] = None
    <3> DEFINE x == [Idle EXCEPT !.model = m, !.pc = "acquiring", !.began = now,
                                 !.since = Since(m), !.place = TRUE]
    <3>1. /\ call' = [call EXCEPT ![c] = x]
          /\ interest' = [interest EXCEPT ![m] = [first |-> Since(m), last |-> now]]
      BY <1>1, <2>2
    <3>2. /\ x \in CallType /\ x.model = m /\ x.since = Since(m) /\ x.began = now
          /\ x.pc = "acquiring"
      BY <1>3 DEF Idle, CallType, PC, Statuses
    <3> HIDE DEF x
    <3> x \in CallType
      BY <3>2
    <3> WITNESS x \in CallType
    <3> QED
      BY <1>3, <3>1, <3>2
  <2> QED
    BY <2>1, <2>2
<1>5. call'[c] = y /\ \A d \in Clients \ {c} : call'[d] = call[d]
  BY <1>3, <1>4
<1>6. TypeOK'
  <2>1. call' \in [Clients -> CallType]
    BY <1>3, <1>4
  <2>2. \A d \in Clients : call'[d].since <= call'[d].began /\ call'[d].began <= now
    BY <1>4 DEF LoadInv, TypeOK
  <2>3. \/ UNCHANGED interest
        \/ interest' = [interest EXCEPT ![m] = [first |-> Since(m), last |-> now]]
    BY <1>4
  <2>4. interest' \in [Models -> Entry \cup {None}]
    BY <1>3, <2>3 DEF Entry
  <2>5. ASSUME NEW n \in Models, interest'[n] # None
        PROVE  interest'[n].first <= interest'[n].last /\ interest'[n].last <= now
    BY <1>3, <2>3, <2>5 DEF LoadInv, TypeOK
  <2> QED
    BY <1>2, <2>1, <2>2, <2>4, <2>5 DEF LoadInv, TypeOK
<1>7. AtWork'
  BY <1>3, <1>4 DEF LoadInv, AtWork
<1>8. WaitsForItsLoad'
  BY <1>2, <1>4 DEF LoadInv, WaitsForItsLoad
<1>9. Places'
  <2> SUFFICES ASSUME NEW d \in Clients, call'[d].place PROVE Placed(d)'
    BY DEF Places
  <2>0. ASSUME interest' = [interest EXCEPT ![m] = [first |-> Since(m), last |-> now]]
        PROVE  /\ interest'[m].first = Since(m) /\ interest'[m].last = now
               /\ interest'[m] # None
    <3>1. interest'[m] = [first |-> Since(m), last |-> now]
      BY <1>3, <2>0
    <3> QED
      BY <1>3, <3>1, Known DEF Entry
  <2>1. CASE d = c
    <3>1. /\ y.place /\ y.pc = "acquiring" /\ y.began = now /\ y.since = Since(m)
          /\ interest' = [interest EXCEPT ![m] = [first |-> Since(m), last |-> now]]
      BY <1>4, <1>5, <2>1
    <3>2. /\ interest'[m].first = Since(m) /\ interest'[m].last = now
          /\ interest'[m] # None
      BY <2>0, <3>1
    <3> QED
      BY <1>3, <1>4, <2>1, <3>2 DEF Placed
  <2>2. CASE d # c
    <3>1. call'[d] = call[d] /\ call[d] \in CallType /\ call[d].began <= now
      BY <1>5, <2>2 DEF LoadInv, TypeOK
    <3>2. Placed(d)
      BY <3>1 DEF LoadInv, Places
    <3>3. CASE UNCHANGED interest
      BY <1>2, <3>1, <3>2, <3>3 DEF Placed
    <3>4. CASE interest' = [interest EXCEPT ![m] = [first |-> Since(m), last |-> now]]
      <4>1. CASE call[d].model # m
        BY <1>2, <3>1, <3>2, <3>4, <4>1 DEF Placed
      <4>2. CASE call[d].model = m
        <5>1. interest'[m].first = Since(m) /\ interest'[m].last = now /\ interest'[m] # None
          BY <2>0, <3>4
        <5>2. ASSUME now - call[d].began < Expiry PROVE Since(m) <= call[d].since
          <6>1. /\ interest[m] # None /\ call[d].began <= interest[m].last
                /\ interest[m].first <= call[d].since
            BY <3>2, <4>2, <5>2 DEF Placed
          <6>2. interest[m].last \in Nat /\ call[d].began \in Nat
            BY <1>3, <6>1 DEF Entry, CallType
          <6>3. now - interest[m].last < Expiry
            BY <1>3, <5>2, <6>1, <6>2, Known
          <6> QED
            BY <6>1, <6>3 DEF Since
        <5> QED
          BY <1>2, <3>1, <3>2, <4>2, <5>1, <5>2 DEF Placed
      <4> QED
        BY <4>1, <4>2
    <3> QED
      BY <1>4, <3>3, <3>4
  <2> QED
    BY <2>1, <2>2
<1>10. SlotsOfLoads'
  <2>1. \A n \in Models : Probers(n)' = Probers(n) /\ Loaders(n)' = Loaders(n)
    BY <1>2, <1>4 DEF Probers, Loaders
  <2> QED
    BY <1>2, <2>1, SameSlots
<1> QED
  BY <1>6, <1>7, <1>8, <1>9, <1>10 DEF LoadInv

(* Whoever is let in takes the places of his model away, and takes a slot  *)
(* unless a load is found.                                                 *)
LEMMA AdmittedKeeps ==
  ASSUME LoadInv, NEW c \in Clients, Admitted(c)
  PROVE  LoadInv'
<1> DEFINE m == call[c].model
           later == [d \in Clients |-> [call[d] EXCEPT !.place = @ /\ call[d].model # m]]
<1>1. /\ call[c].pc = "acquiring" /\ m \in Models
      /\ interest' = [interest EXCEPT ![m] = None]
      /\ UNCHANGED <<now, loading, task>>
  BY DEF Admitted, LoadInv, AtWork
<1>2. /\ call \in [Clients -> CallType] /\ interest \in [Models -> Entry \cup {None}]
      /\ inFlight \in [Models -> Nat] /\ now \in Nat
      /\ loading[m] # None => loading[m] \in Tasks
      /\ \A d \in Clients : call[d] \in CallType
  BY <1>1, Typed DEF LoadInv
<1>3. PICK p, u :
        /\ call' = [later EXCEPT ![c].pc = p, ![c].task = u]
        /\ \/ p = "waiting" /\ u = loading[m] /\ loading[m] # None /\ UNCHANGED inFlight
           \/ p = "probing" /\ u = call[c].task /\ inFlight' = [inFlight EXCEPT ![m] = @ + 1]
  <2>1. CASE loading[m] # None
    BY <2>1 DEF Admitted
  <2>2. CASE loading[m] = None
    <3>1. /\ call' = [later EXCEPT ![c].pc = "probing"]
          /\ inFlight' = [inFlight EXCEPT ![m] = @ + 1]
      BY <2>2 DEF Admitted
    <3>2. later[c] = [call[c] EXCEPT !.place = @ /\ call[c].model # m]
      OBVIOUS
    <3>3. later[c].task = call[c].task /\ later[c] \in CallType
      BY <1>2 DEF CallType
    <3>4. [later EXCEPT ![c].pc = "probing"]
          = [later EXCEPT ![c].pc = "probing", ![c].task = call[c].task]
      OBVIOUS
    <3> QED
      BY <3>1
  <2> QED
    BY <2>1, <2>2
<1>4. p \in PC /\ u \in Tasks \cup {None}
  BY <1>2, <1>3 DEF PC, CallType
<1>5. ASSUME NEW d \in Clients \ {c}
      PROVE  /\ call'[d] \in CallType /\ call'[d].pc = call[d].pc
             /\ call'[d].task = call[d].task /\ call'[d].model = call[d].model
             /\ call'[d].since = call[d].since /\ call'[d].began = call[d].began
             /\ call'[d].place => call[d].place /\ call[d].model # m
  <2>1. call'[d] = [call[d] EXCEPT !.place = @ /\ call[d].model # m]
    BY <1>3
  <2> QED
    BY <1>2, <2>1 DEF CallType
<1>6. /\ call'[c] \in CallType /\ call'[c].pc = p /\ call'[c].task = u
      /\ call'[c].model = m /\ call'[c].since = call[c].since
      /\ call'[c].began = call[c].began /\ ~call'[c].place
  <2>1. call'[c] = [call[c] EXCEPT !.place = FALSE, !.pc = p, !.task = u]
    <3>1. later[c] = [call[c] EXCEPT !.place = FALSE]
      OBVIOUS
    <3>2. call'[c] = [later[c] EXCEPT !.pc = p, !.task = u]
      BY <1>3
    <3> QED
      BY <3>2
  <2> QED
    BY <1>2, <1>4, <2>1 DEF CallType
<1> HIDE DEF m, later
<1>7. TypeOK'
  <2>1. call' \in [Clients -> CallType]
    <3>1. DOMAIN call' = Clients /\ call' = [d \in DOMAIN call' |-> call'[d]]
      BY <1>3 DEF later
    <3> QED
      BY <1>5, <1>6, <3>1
  <2>2. \A d \in Clients : call'[d].since <= call'[d].began /\ call'[d].began <= now
    BY <1>5, <1>6 DEF LoadInv, TypeOK
  <2>3. interest' \in [Models -> Entry \cup {None}]
    BY <1>1, <1>2
  <2>4. ASSUME NEW n \in Models, interest'[n] # None
        PROVE  interest'[n].first <= interest'[n].last /\ interest'[n].last <= now
    BY <1>1, <2>4 DEF LoadInv, TypeOK
  <2>5. inFlight' \in [Models -> Nat]
    BY <1>2, <1>3
  <2> QED
    BY <1>1, <2>1, <2>2, <2>5 DEF LoadInv, TypeOK
<1>8. AtWork'
  BY <1>1, <1>2, <1>3, <1>5, <1>6 DEF LoadInv, AtWork
<1>9. WaitsForItsLoad'
  <2>1. \A n \in Models : loading'[n] # None => task'[loading'[n]] = n
    BY <1>1 DEF LoadInv, WaitsForItsLoad
  <2>2. ASSUME NEW d \in Clients, call'[d].pc = "waiting"
        PROVE  task'[call'[d].task] = call'[d].model
    <3>1. CASE d = c
      <4>1. u = loading[m] /\ loading[m] # None
        BY <1>3, <1>6, <2>2, <3>1
      <4> QED
        BY <1>1, <1>6, <2>1, <3>1, <4>1
    <3>2. CASE d # c
      BY <1>1, <1>5, <2>2, <3>2 DEF LoadInv, WaitsForItsLoad
    <3> QED
      BY <3>1, <3>2
  <2> QED
    BY <2>1, <2>2 DEF WaitsForItsLoad
<1>10. Places'
  <2> SUFFICES ASSUME NEW d \in Clients, call'[d].place PROVE Placed(d)'
    BY DEF Places
  <2>1. d \in Clients \ {c} /\ call[d].place /\ call[d].model # m
    BY <1>5, <1>6
  <2>2. Placed(d)
    BY <2>1 DEF LoadInv, Places
  <2>3. interest'[call[d].model] = interest[call[d].model]
    BY <1>1, <2>1
  <2> QED
    BY <1>1, <1>5, <2>1, <2>2 DEF Placed
<1>11. \A n \in Models : Loaders(n)' = Loaders(n)
  BY <1>1 DEF Loaders
<1>12. CASE p = "waiting"
  <2>1. \A n \in Models : Probers(n)' = Probers(n)
    BY <1>1, <1>5, <1>6, <1>12 DEF Probers
  <2>2. UNCHANGED inFlight
    BY <1>1, <1>3, <1>12
  <2>3. SlotsOfLoads'
    BY <1>11, <2>1, <2>2, SameSlots
  <2> QED
    BY <1>7, <1>8, <1>9, <1>10, <2>3 DEF LoadInv
<1>13. CASE p = "probing"
  <2>1. inFlight' = [inFlight EXCEPT ![m] = @ + 1]
    BY <1>3, <1>13
  <2>2. SlotsOfLoads'
    <3> SUFFICES ASSUME NEW n \in Models
                 PROVE  inFlight'[n] = Cardinality(Probers(n)') + Cardinality(Loaders(n)')
      BY DEF SlotsOfLoads, Probers, Loaders
    <3>1. inFlight[n] = Cardinality(Probers(n)) + Cardinality(Loaders(n))
      BY HeldIsThere DEF LoadInv
    <3>2. CASE n = m
      <4>1. Probers(n)' = Probers(n) \cup {c} /\ c \notin Probers(n)
        BY <1>1, <1>5, <1>6, <1>13, <3>2 DEF Probers
      <4>2. Cardinality(Probers(n) \cup {c}) = Cardinality(Probers(n)) + 1
        BY <4>1, Finite, FS_AddElement
      <4>3. inFlight'[n] = inFlight[n] + 1
        BY <1>2, <2>1, <3>2
      <4> QED
        BY <1>11, <3>1, <4>1, <4>2, <4>3, Finite
    <3>3. CASE n # m
      <4>1. Probers(n)' = Probers(n)
        BY <1>5, <1>6, <3>3 DEF Probers, m
      <4> QED
        BY <1>11, <2>1, <3>1, <3>3, <4>1
    <3> QED
      BY <3>2, <3>3
  <2> QED
    BY <1>7, <1>8, <1>9, <1>10, <2>2 DEF LoadInv
<1> QED
  BY <1>3, <1>12, <1>13

(* The slot goes from the call to the task.                                *)
LEMMA BeginLoadKeeps ==
  ASSUME LoadInv, NEW c \in Clients, BeginLoad(c)
  PROVE  LoadInv'
<1> DEFINE m == call[c].model
<1>1. PICK t \in Tasks :
        /\ task[t] = None
        /\ task' = [task EXCEPT ![t] = m] /\ loading' = [loading EXCEPT ![m] = t]
        /\ call' = [call EXCEPT ![c].pc = "waiting", ![c].task = t]
  BY DEF BeginLoad
<1>2. /\ call[c].pc = "probing" /\ m \in Models
      /\ UNCHANGED <<now, interest, inFlight>>
  BY DEF BeginLoad, LoadInv, AtWork
<1>3. /\ call \in [Clients -> CallType] /\ call[c] \in CallType
      /\ task \in [Tasks -> Models \cup {None}] /\ loading \in [Models -> Tasks \cup {None}]
      /\ ~call[c].place
  BY <1>2, Typed DEF LoadInv, Places, Placed
<1>4. /\ call'[c] \in CallType /\ call'[c].pc = "waiting" /\ call'[c].task = t
      /\ call'[c].model = m /\ call'[c].since = call[c].since
      /\ call'[c].began = call[c].began /\ ~call'[c].place
      /\ \A d \in Clients \ {c} : call'[d] = call[d]
  <2>1. call'[c] = [call[c] EXCEPT !.pc = "waiting", !.task = t]
    BY <1>1, <1>3
  <2>2. \A d \in Clients \ {c} : call'[d] = call[d]
    BY <1>1, <1>3
  <2> QED
    BY <1>3, <2>1, <2>2 DEF CallType, PC
<1> HIDE DEF m
<1>5. TypeOK'
  <2>1. call' \in [Clients -> CallType]
    <3>1. DOMAIN call' = Clients /\ call' = [d \in DOMAIN call' |-> call'[d]]
      BY <1>1, <1>3
    <3> QED
      BY <1>3, <1>4, <3>1
  <2>2. \A d \in Clients : call'[d].since <= call'[d].began /\ call'[d].began <= now
    BY <1>4 DEF LoadInv, TypeOK
  <2>3. task' \in [Tasks -> Models \cup {None}] /\ loading' \in [Models -> Tasks \cup {None}]
    BY <1>1, <1>2, <1>3
  <2> QED
    BY <1>2, <2>1, <2>2, <2>3 DEF LoadInv, TypeOK
<1>6. AtWork'
  BY <1>2, <1>4 DEF LoadInv, AtWork
<1>7. WaitsForItsLoad'
  <2>1. ASSUME NEW n \in Models, loading'[n] # None PROVE task'[loading'[n]] = n
    <3>1. CASE n = m
      BY <1>1, <1>3, <3>1
    <3>2. CASE n # m
      <4>1. loading'[n] = loading[n] /\ loading[n] \in Tasks /\ task[loading[n]] = n
        BY <1>1, <1>3, <2>1, <3>2 DEF LoadInv, WaitsForItsLoad
      <4> QED
        BY <1>1, <4>1, Known
    <3> QED
      BY <3>1, <3>2
  <2>2. ASSUME NEW d \in Clients, call'[d].pc = "waiting"
        PROVE  task'[call'[d].task] = call'[d].model
    <3>1. CASE d = c
      BY <1>1, <1>3, <1>4, <3>1
    <3>2. CASE d # c
      <4>1. /\ call'[d] = call[d] /\ call[d].task \in Tasks /\ call[d].model \in Models
            /\ task[call[d].task] = call[d].model
        BY <1>4, <2>2, <3>2 DEF LoadInv, WaitsForItsLoad, AtWork
      <4> QED
        BY <1>1, <1>3, <4>1, Known
    <3> QED
      BY <3>1, <3>2
  <2> QED
    BY <2>1, <2>2 DEF WaitsForItsLoad
<1>8. Places'
  BY <1>2, <1>4 DEF LoadInv, Places, Placed
<1>9. SlotsOfLoads'
  <2> SUFFICES ASSUME NEW n \in Models
               PROVE  inFlight'[n] = Cardinality(Probers(n)') + Cardinality(Loaders(n)')
    BY DEF SlotsOfLoads, Probers, Loaders
  <2>1. inFlight'[n] = Cardinality(Probers(n)) + Cardinality(Loaders(n))
    BY <1>2, HeldIsThere DEF LoadInv
  <2>2. CASE n = m
    <3>1. Probers(n)' = Probers(n) \ {c} /\ c \in Probers(n)
      BY <1>2, <1>4, <2>2 DEF Probers, m
    <3>2. Loaders(n)' = Loaders(n) \cup {t} /\ t \notin Loaders(n)
      BY <1>1, <1>3, <2>2, Known DEF Loaders
    <3>3. /\ Cardinality(Probers(n) \ {c}) = Cardinality(Probers(n)) - 1
          /\ Cardinality(Loaders(n) \cup {t}) = Cardinality(Loaders(n)) + 1
      BY <3>1, <3>2, Finite, FS_RemoveElement, FS_AddElement
    <3> QED
      BY <2>1, <3>1, <3>2, <3>3, Finite
  <2>3. CASE n # m
    <3>1. Probers(n)' = Probers(n)
      BY <1>4, <2>3 DEF Probers, m
    <3>2. Loaders(n)' = Loaders(n)
      BY <1>1, <2>3, Known DEF Loaders
    <3> QED
      BY <2>1, <3>1, <3>2
  <2> QED
    BY <2>2, <2>3
<1> QED
  BY <1>5, <1>6, <1>7, <1>8, <1>9 DEF LoadInv

(* The task gives its slot and the entry of its model back, and wakes      *)
(* those who wait for it.                                                  *)
LEMMA LoadEndsKeeps ==
  ASSUME LoadInv, NEW t \in Tasks, LoadEnds(t)
  PROVE  LoadInv'
<1> DEFINE m == task[t]
<1>1. /\ m # None
      /\ task' = [task EXCEPT ![t] = None] /\ loading' = [loading EXCEPT ![m] = None]
      /\ inFlight' = [inFlight EXCEPT ![m] = @ - 1]
      /\ UNCHANGED <<now, interest>>
  BY DEF LoadEnds
<1>2. PICK result \in {"ready", "error"} :
        call' = [c \in Clients |->
                   IF call[c].pc = "waiting" /\ call[c].task = t
                   THEN [call[c] EXCEPT !.pc = "resuming", !.status = result]
                   ELSE call[c]]
  BY DEF LoadEnds
<1>3. /\ call \in [Clients -> CallType] /\ task \in [Tasks -> Models \cup {None}]
      /\ loading \in [Models -> Tasks \cup {None}] /\ inFlight \in [Models -> Nat]
      /\ \A c \in Clients : call[c] \in CallType
      /\ m \in Models
  BY <1>1, Typed DEF LoadInv
<1>4. ASSUME NEW c \in Clients
      PROVE  /\ call'[c] \in CallType /\ call'[c].model = call[c].model
             /\ call'[c].since = call[c].since /\ call'[c].began = call[c].began
             /\ call'[c].task = call[c].task /\ call'[c].place = call[c].place
             /\ \/ call'[c].pc = call[c].pc /\ ~(call[c].pc = "waiting" /\ call[c].task = t)
                \/ call[c].pc = "waiting" /\ call'[c].pc = "resuming"
  <2>1. CASE call[c].pc = "waiting" /\ call[c].task = t
    <3>1. call'[c] = [call[c] EXCEPT !.pc = "resuming", !.status = result]
      BY <1>2, <2>1
    <3> QED
      BY <1>3, <2>1, <3>1 DEF CallType, PC, Statuses
  <2>2. CASE ~(call[c].pc = "waiting" /\ call[c].task = t)
    BY <1>2, <1>3, <2>2
  <2> QED
    BY <2>1, <2>2
<1> HIDE DEF m
<1>5. inFlight[m] > 0
  <2>1. t \in Loaders(m)
    BY DEF Loaders, m
  <2> QED
    BY <1>3, <2>1, HeldIsThere DEF LoadInv
<1>6. TypeOK'
  <2>1. call' \in [Clients -> CallType]
    <3>1. DOMAIN call' = Clients /\ call' = [c \in DOMAIN call' |-> call'[c]]
      BY <1>2
    <3> QED
      BY <1>4, <3>1
  <2>2. \A c \in Clients : call'[c].since <= call'[c].began /\ call'[c].began <= now
    BY <1>4 DEF LoadInv, TypeOK
  <2>3. /\ task' \in [Tasks -> Models \cup {None}]
        /\ loading' \in [Models -> Tasks \cup {None}]
        /\ inFlight' \in [Models -> Nat]
    BY <1>1, <1>3, <1>5
  <2> QED
    BY <1>1, <2>1, <2>2, <2>3 DEF LoadInv, TypeOK
<1>7. AtWork'
  BY <1>4 DEF LoadInv, AtWork
<1>8. WaitsForItsLoad'
  <2>1. ASSUME NEW n \in Models, loading'[n] # None PROVE task'[loading'[n]] = n
    <3>1. n # m /\ loading'[n] = loading[n] /\ loading[n] \in Tasks
      BY <1>1, <1>3, <2>1
    <3>2. task[loading[n]] = n
      BY <2>1, <3>1 DEF LoadInv, WaitsForItsLoad
    <3> QED
      BY <1>1, <3>1, <3>2 DEF m
  <2>2. ASSUME NEW c \in Clients, call'[c].pc = "waiting"
        PROVE  task'[call'[c].task] = call'[c].model
    <3>1. /\ call[c].pc = "waiting" /\ call[c].task # t
          /\ call'[c].task = call[c].task /\ call'[c].model = call[c].model
      BY <1>4, <2>2
    <3>2. call[c].task \in Tasks /\ task[call[c].task] = call[c].model
      BY <3>1 DEF LoadInv, AtWork, WaitsForItsLoad
    <3> QED
      BY <1>1, <3>1, <3>2
  <2> QED
    BY <2>1, <2>2 DEF WaitsForItsLoad
<1>9. Places'
  <2> SUFFICES ASSUME NEW c \in Clients, call'[c].place PROVE Placed(c)'
    BY DEF Places
  <2>1. Placed(c) /\ call'[c].pc = call[c].pc
    BY <1>4 DEF LoadInv, Places, Placed
  <2> QED
    BY <1>1, <1>4, <2>1 DEF Placed
<1>10. SlotsOfLoads'
  <2> SUFFICES ASSUME NEW n \in Models
               PROVE  inFlight'[n] = Cardinality(Probers(n)') + Cardinality(Loaders(n)')
    BY DEF SlotsOfLoads, Probers, Loaders
  <2>1. inFlight[n] = Cardinality(Probers(n)) + Cardinality(Loaders(n))
    BY HeldIsThere DEF LoadInv
  <2>2. Probers(n)' = Probers(n)
    BY <1>4 DEF Probers
  <2>3. CASE n = m
    <3>1. Loaders(n)' = Loaders(n) \ {t} /\ t \in Loaders(n)
      BY <1>1, <1>3, <2>3 DEF Loaders, m
    <3>2. Cardinality(Loaders(n) \ {t}) = Cardinality(Loaders(n)) - 1
      BY <3>1, Finite, FS_RemoveElement
    <3>3. inFlight'[n] = inFlight[n] - 1
      BY <1>1, <1>3, <2>3
    <3> QED
      BY <2>1, <2>2, <3>1, <3>2, <3>3, Finite
  <2>4. CASE n # m
    <3>1. Loaders(n)' = Loaders(n)
      BY <1>1, <2>4, Known DEF Loaders, m
    <3> QED
      BY <1>1, <2>1, <2>2, <2>4, <3>1
  <2> QED
    BY <2>3, <2>4
<1> QED
  BY <1>6, <1>7, <1>8, <1>9, <1>10 DEF LoadInv

LEMMA TickKeeps ==
  ASSUME LoadInv, Tick
  PROVE  LoadInv'
<1>1. /\ now \in Nat /\ now' = now + 1 /\ now' \in 0..MaxTime
      /\ UNCHANGED <<call, loading, interest, task, inFlight>>
  BY Known DEF Tick, LoadInv, TypeOK
<1>2. \A c \in Clients : call[c] \in CallType
  BY Typed DEF LoadInv
<1>3. TypeOK'
  <2>1. \A c \in Clients : call'[c].since <= call'[c].began /\ call'[c].began <= now'
    BY <1>1 DEF LoadInv, TypeOK, CallType
  <2>2. ASSUME NEW m \in Models, interest[m] # None
        PROVE  interest[m].first <= interest[m].last /\ interest[m].last <= now'
    <3>1. interest[m] \in Entry
      BY <2>2, Typed DEF LoadInv
    <3> QED
      BY <1>1, <2>2 DEF LoadInv, TypeOK, Entry
  <2> QED
    BY <1>1, <2>1, <2>2 DEF LoadInv, TypeOK
<1>4. AtWork' /\ WaitsForItsLoad' /\ SlotsOfLoads'
  BY <1>1 DEF LoadInv, AtWork, WaitsForItsLoad, SlotsOfLoads
<1>5. Places'
  <2> SUFFICES ASSUME NEW c \in Clients, call[c].place PROVE Placed(c)'
    BY <1>1 DEF Places
  <2>1. Placed(c)
    BY DEF LoadInv, Places
  <2>2. call[c].began \in Nat /\ Expiry \in Nat
    BY <1>2, Known DEF CallType
  <2>3. now' - call[c].began < Expiry => now - call[c].began < Expiry
    BY <1>1, <2>2
  <2> QED
    BY <1>1, <2>1, <2>3 DEF Placed
<1> QED
  BY <1>3, <1>4, <1>5 DEF LoadInv

LEMMA NextKeeps == LoadInv /\ [Next]_vars => LoadInv'
<1>1. LoadInv /\ UNCHANGED vars => LoadInv'
  BY DEF vars, LoadInv, TypeOK, AtWork, WaitsForItsLoad, SlotsOfLoads,
         Places, Placed
<1> QED
  BY <1>1, CallKeeps, AdmittedKeeps, NotAdmittedKeeps, FoundLoadedKeeps,
     BeginLoadKeeps, NotLoadedKeeps, ResumesKeeps, LoadEndsKeeps,
     TickKeeps
     DEF Next, Resumption

LEMMA AlwaysLoadInv == Spec => []LoadInv
  BY InitLoad, NextKeeps, PTL DEF Spec

-----------------------------------------------------------------------------
(* Slots change hands from the call to the task it creates and come back   *)
(* once, and whoever waits, waits for a running load of his model, however *)
(* many tasks load at a time and whosever entry a task removes.            *)
THEOREM LoadsAreConsistent == Spec => []LoadsConsistent
<1>1. LoadInv => LoadsConsistent
  BY DEF LoadInv, LoadsConsistent
<1> QED
  BY <1>1, AlwaysLoadInv, PTL

(* Only models_load puts an answered client into the queue.                *)
LEMMA OnlyCallsQueue ==
  ASSUME LoadInv, Next, NEW c \in Clients, call[c].pc = "answered", call'[c].pc = "acquiring"
  PROVE  Call(c)
<1>1. call \in [Clients -> CallType] /\ call'[c] # call[c]
  BY Typed DEF LoadInv
<1>2. ASSUME NEW d \in Clients, Admitted(d) PROVE FALSE
  <2>1. d # c
    BY <1>2 DEF Admitted
  <2> DEFINE later == [e \in Clients |->
                         [call[e] EXCEPT !.place = @ /\ call[e].model # call[d].model]]
  <2>2. \/ call' = [later EXCEPT ![d].pc = "waiting", ![d].task = loading[call[d].model]]
        \/ call' = [later EXCEPT ![d].pc = "probing"]
    BY <1>2 DEF Admitted
  <2>3. call'[c] = later[c]
    BY <2>1, <2>2
  <2>4. later[c].pc = call[c].pc
    BY <1>1 DEF CallType
  <2> QED
    BY <2>3, <2>4
<1>3. ASSUME NEW d \in Clients, Resumption(d) PROVE FALSE
  <2>1. d # c
    BY <1>3 DEF Resumption, NotAdmitted, FoundLoaded, BeginLoad, NotLoaded, Resumes
  <2>2. call'[c] = call[c]
    BY <1>1, <1>3
       DEF Resumption, NotAdmitted, FoundLoaded, BeginLoad, NotLoaded, Resumes
  <2> QED
    BY <2>2
<1>4. ASSUME NEW t \in Tasks, LoadEnds(t) PROVE FALSE
  <2>1. call'[c] = call[c]
    BY <1>4 DEF LoadEnds
  <2> QED
    BY <2>1
<1>5. ASSUME NEW d \in Clients, Call(d) PROVE d = c
  <2>1. PICK y : call' = [call EXCEPT ![d] = y]
    BY <1>5 DEF Call
  <2> QED
    BY <2>1
<1> QED
  BY <1>2, <1>3, <1>4, <1>5 DEF Next, Tick

(* A call repeated within 60 s of the one before, for the same model, is   *)
(* not behind it in the queue, unless somebody was admitted for the model. *)
THEOREM RepeatedCallsKeepTheirPlace == Spec => PlaceKept
<1> DEFINE Kept == \A c \in Clients : SameQueue(c) /\ now - call[c].began < Expiry =>
                     call'[c].since <= call[c].since
<1>1. LoadInv /\ [Next]_vars => [Kept]_vars
  <2> SUFFICES ASSUME LoadInv, Next, NEW c \in Clients,
                      SameQueue(c), now - call[c].began < Expiry
               PROVE  call'[c].since <= call[c].since
    OBVIOUS
  <2>1. /\ call[c].pc = "answered" /\ call[c].place
        /\ call'[c].pc = "acquiring" /\ call'[c].model = call[c].model
    BY DEF SameQueue
  <2>2. Call(c) /\ call \in [Clients -> CallType]
    BY <2>1, OnlyCallsQueue, Typed DEF LoadInv
  <2>3. PICK m \in Models :
          \/ call' = [call EXCEPT ![c] = [[Idle EXCEPT !.model = m] EXCEPT !.pc = "waiting",
                                                       !.task = loading[m]]]
          \/ call' = [call EXCEPT ![c] = [[Idle EXCEPT !.model = m] EXCEPT !.pc = "acquiring",
                                            !.began = now, !.since = Since(m), !.place = TRUE]]
    BY <2>2 DEF Call
  <2>4. call'[c].since = Since(m) /\ call'[c].model = m
    BY <2>1, <2>2, <2>3 DEF Idle
  <2>5. /\ interest[m] # None /\ call[c].began <= interest[m].last
        /\ interest[m].first <= call[c].since
    BY <2>1, <2>4 DEF LoadInv, Places, Placed
  <2>6. interest[m].last \in Nat /\ call[c].began \in Nat /\ now \in Nat /\ Expiry \in Nat
    BY <2>5, Typed, Known DEF LoadInv, Entry, CallType
  <2>7. now - interest[m].last < Expiry
    BY <2>5, <2>6
  <2> QED
    BY <2>4, <2>5, <2>7 DEF Since
<1> QED
  BY <1>1, AlwaysLoadInv, PTL DEF Spec, PlaceKept
=============================================================================
