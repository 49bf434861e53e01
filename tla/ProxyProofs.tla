---------------------------- MODULE ProxyProofs -----------------------------
(* The way of a request, for any requests, keys, models and providers and  *)
(* any changes of the administrator: nothing goes where its principal may  *)
(* not, a request holds a slot for the card by the kind of the provider it *)
(* read, each end of a request has its row or none, and slots and count    *)
(* are exactly what the requests hold and what two of their ends lose.     *)
EXTENDS Proxy, FiniteSetTheorems, TLAPS

(* What is true of a request x by the place it has come to.                *)
OnItsWay == {"waiting", "telemetry", "sent", "streaming"}
Logged == {"200", "403 model", "429", "502", "503"}

Entitled(x) ==
  /\ x.dest \in Slugs => x.who # Nobody /\ MayUse(x.who, x.dest)
  /\ x.shape.model # None => MayModel(x.who, x.shape.model)

Phase(x) ==
  /\ x.pc # "idle" => x.shape \in Shapes
  /\ x.pc # "done" => x.answer = "none" /\ x.logged = 0
  /\ x.logged = One(x.answer \in Logged /\ Inference(x.shape))
  /\ x.pc = "body" =>
       /\ x.slot = None
       /\ x.shape.road # Ollama => /\ x.dest = x.shape.road /\ x.who # Nobody
                                   /\ MayUse(x.who, x.shape.road)
  /\ x.pc \in OnItsWay => x.slot = SlotFor(x.shape, x.dest, x.prov) /\ Entitled(x)
  /\ x.pc = "waiting" => x.slot # None

(* What x read of its provider's kind is what the row says.                *)
Known(x) ==
  x.pc \in OnItsWay \cup {"body"} /\ x.dest \in Slugs => x.prov.gpu = rows[x.dest].gpu

(* A slot of m that x holds or has lost, and its place in the count.       *)
Gone(x) == \/ x.pc \in {"telemetry", "sent", "streaming"}
           \/ x.pc = "done" /\ x.answer \in {"500", "cut"}
Holds(x, m) == Gone(x) /\ x.slot = m
Counts(x) == Gone(x) /\ Inference(x.shape)

Phases == \A r \in Requests : Phase(req[r])
KindsKnown == \A r \in Requests \ stale : Known(req[r])
ProxyInv == TypeOK /\ Phases /\ KindsKnown /\ SlotsReturned /\ CountReturned

-----------------------------------------------------------------------------
(* What the operators return.                                              *)
LEMMA Distinct ==
  /\ None \notin Models /\ None \notin Shapes /\ None \notin Keys /\ None # Session
  /\ Ollama \notin Slugs /\ None \notin Slugs /\ None # Ollama
  /\ FirstPolicy \in [Keys -> Policies] /\ FirstRow \in [Slugs -> Rows]
  /\ MaxChanges \in Nat
  BY ProxyAssumption DEF Dests

LEMMA ShapeIs ==
  ASSUME NEW q \in Shapes
  PROVE  /\ q.road \in Dests /\ q.post \in BOOLEAN /\ q.model \in Models \cup {None}
         /\ q.by \in Keys \cup {Session, None}
  BY ProxyAssumption DEF ShapeType

LEMMA RowReadIs ==
  ASSUME TypeOK, NEW s \in Slugs
  PROVE  RowRead(s) \in ProvType /\ RowRead(s).gpu = rows[s].gpu
<1>1. rows[s] \in RowType
  BY ProxyAssumption DEF TypeOK
<1> QED
  BY <1>1 DEF RowRead, ProvType, RowType

LEMMA PrincipalIs ==
  ASSUME TypeOK, NEW by \in Keys \cup {Session, None}
  PROVE  Principal(by) \in PrincipalType
<1>1. Operator \in PrincipalType /\ Nobody \in PrincipalType
  BY DEF Operator, Nobody, PrincipalType
<1>2. \A k \in Keys : policy[k] \in PolicyType
  BY ProxyAssumption DEF TypeOK
<1> QED
  BY <1>1, <1>2 DEF Principal, PrincipalType, PolicyType

LEMMA DestinationIs ==
  ASSUME NEW q \in Shapes
  PROVE  /\ Destination(q) \in Dests
         /\ q.road # Ollama => Destination(q) = q.road
<1>1. \A m \in Models : ProviderForModel(m) \in Dests
  BY DEF ProviderForModel, Serving, GpuProviders, Dests
<1> QED
  BY <1>1, ShapeIs DEF Destination, Dests

LEMMA SlotForIs ==
  ASSUME NEW q \in Shapes, NEW dest, NEW prov
  PROVE  SlotFor(q, dest, prov) \in Models \cup {None}
  BY ShapeIs DEF SlotFor

LEMMA FreshIs == Fresh \in ReqType /\ Phase(Fresh) /\ Known(Fresh) /\ ~Gone(Fresh)
<1>1. Fresh \in ReqType
  BY DEF Fresh, ReqType, PC, Answers, Nobody, PrincipalType, ProvType, OllamaProv
<1> QED
  BY <1>1 DEF Fresh, Phase, Known, Gone, OnItsWay, Logged, One

(* At the start, and at every start.                                       *)
LEMMA NobodyHolds ==
  ASSUME req = [r \in Requests |-> Fresh], inFlight = [m \in Models |-> 0], active = 0
  PROVE  SlotsReturned /\ CountReturned
<1>1. \A m \in Models : Holders(m) = {}
  BY DEF Holders, Keeps, Upstream, Lost, Fresh
<1>2. Counting = {}
  BY DEF Counting, Keeps, Upstream, Lost, Fresh
<1>3. Cardinality({}) = 0
  BY FS_EmptySet
<1> QED
  BY <1>1, <1>2, <1>3 DEF SlotsReturned, CountReturned

LEMMA InitProxy == Init => ProxyInv
<1> SUFFICES ASSUME Init PROVE ProxyInv
  OBVIOUS
<1>1. TypeOK
  <2>1. req \in [Requests -> ReqType] /\ inFlight \in [Models -> Nat] /\ active \in Nat
    BY FreshIs DEF Init
  <2>2. requireKey \in BOOLEAN /\ stale \subseteq Requests
    BY DEF Init
  <2>3. policy \in [Keys -> Policies] /\ rows \in [Slugs -> Rows]
    BY Distinct DEF Init
  <2>4. changes \in 0..MaxChanges
    BY Distinct DEF Init
  <2> QED
    BY <2>1, <2>2, <2>3, <2>4 DEF TypeOK
<1>2. Phases /\ KindsKnown
  BY FreshIs DEF Init, Phases, KindsKnown
<1>3. SlotsReturned /\ CountReturned
  BY NobodyHolds DEF Init
<1> QED
  BY <1>1, <1>2, <1>3 DEF ProxyInv

-----------------------------------------------------------------------------
(* A step of r changes r alone and leaves it in one of its phases.         *)
Moved(r) ==
  /\ req' \in [Requests -> ReqType]
  /\ \A s \in Requests \ {r} : req'[s] = req[s]
  /\ Phase(req'[r])
  /\ r \notin stale' => Known(req'[r])

LEMMA RequestIs ==
  ASSUME ProxyInv, NEW r \in Requests
  PROVE  /\ req \in [Requests -> ReqType] /\ req[r] \in ReqType /\ Phase(req[r])
         /\ req[r].pc # "idle" => req[r].shape \in Shapes
         /\ r \notin stale => Known(req[r])
  BY DEF ProxyInv, TypeOK, Phases, Phase, KindsKnown

LEMMA ArriveMoves ==
  ASSUME ProxyInv, NEW r \in Requests, Arrive(r)
  PROVE  Moved(r) /\ ~Gone(req'[r])
<1>1. PICK q \in Shapes : ArriveAtRoot(r, q) \/ ArriveAtProvider(r, q)
  BY DEF Arrive
<1> DEFINE p == Principal(q.by)
<1>2. /\ req \in [Requests -> ReqType] /\ Fresh \in ReqType
      /\ q.road \in Dests /\ p \in PrincipalType
  BY RequestIs, FreshIs, ShapeIs, PrincipalIs DEF ProxyInv
<1> HIDE DEF p
<1>3. CASE ArriveAtRoot(r, q)
  <2> DEFINE y == IF requireKey /\ p = Nobody
                  THEN [Fresh EXCEPT !.pc = "done", !.shape = q, !.answer = "401"]
                  ELSE [Fresh EXCEPT !.pc = "body", !.shape = q, !.who = p]
  <2>1. req' = [req EXCEPT ![r] = y] /\ q.road = Ollama
    BY <1>3 DEF ArriveAtRoot, p
  <2>2. y \in ReqType
    BY <1>2 DEF Fresh, ReqType, PC, Answers
  <2>3. Phase(y) /\ Known(y) /\ ~Gone(y)
    BY <2>1, Distinct DEF Gone, Phase, Known, Fresh, OnItsWay, Logged, One
  <2> HIDE DEF y
  <2> QED
    BY <1>2, <2>1, <2>2, <2>3 DEF Moved
<1>4. CASE ArriveAtProvider(r, q)
  <2> DEFINE v == ProviderVerdict(q)
             w == RowRead(q.road)
             y == [Fresh EXCEPT !.pc = IF v = "none" THEN "body" ELSE "done",
                                !.shape = q, !.who = p, !.dest = q.road, !.prov = w, !.answer = v]
  <2>1. req' = [req EXCEPT ![r] = y] /\ q.road \in Slugs
    BY <1>4 DEF ArriveAtProvider, p
  <2>2. /\ v \in {"none", "404", "401", "403 provider"}
        /\ v = "none" => p # Nobody /\ MayUse(p, q.road)
    BY DEF ProviderVerdict, p
  <2>3. w \in ProvType /\ w.gpu = rows[q.road].gpu
    BY <2>1, RowReadIs DEF ProxyInv
  <2> HIDE DEF v, w
  <2>4. y \in ReqType
    BY <1>2, <2>2, <2>3 DEF Fresh, ReqType, PC, Answers
  <2>5. Phase(y) /\ Known(y) /\ ~Gone(y)
    BY <1>2, <2>2, <2>3 DEF Gone, Phase, Known, Fresh, OnItsWay, Logged, One
  <2> HIDE DEF y
  <2> QED
    BY <1>2, <2>1, <2>4, <2>5 DEF Moved
<1> QED
  BY <1>1, <1>3, <1>4

LEMMA RetireMoves ==
  ASSUME ProxyInv, NEW r \in Requests, Retire(r)
  PROVE  Moved(r) /\ ~Gone(req'[r])
  BY RequestIs, FreshIs DEF Retire, Moved

(* A request that is answered: what it was sent for and its slot stay as   *)
(* they were.                                                              *)
Kept(r) == req'[r].shape = req[r].shape /\ req'[r].slot = req[r].slot

(* A request with nothing behind it yet is ended with one answer.          *)
LEMMA EndedIs ==
  ASSUME NEW x \in ReqType, x.shape \in Shapes, x.logged = 0,
         NEW code \in Answers \ {"none"}, NEW logged \in BOOLEAN,
         logged = (code \in Logged /\ Inference(x.shape))
  PROVE  /\ Ended(x, code, logged) \in ReqType
         /\ Phase(Ended(x, code, logged)) /\ Known(Ended(x, code, logged))
         /\ Ended(x, code, logged).pc = "done" /\ Ended(x, code, logged).answer = code
         /\ Ended(x, code, logged).shape = x.shape /\ Ended(x, code, logged).slot = x.slot
<1> DEFINE y == Ended(x, code, logged)
<1>1. One(logged) \in Nat /\ x.logged + One(logged) = One(logged)
  BY DEF One
<1>2. /\ y \in ReqType
      /\ y.pc = "done" /\ y.answer = code /\ y.logged = One(logged)
      /\ y.shape = x.shape /\ y.slot = x.slot
  BY <1>1 DEF Ended, ReqType, PC
<1> HIDE DEF y
<1>3. Phase(y) /\ Known(y)
  BY <1>2 DEF Phase, Known, OnItsWay
<1> QED
  BY <1>2, <1>3 DEF y

LEMMA AnswerMoves ==
  ASSUME ProxyInv, NEW r \in Requests, req[r].pc \in OnItsWay \cup {"body"},
         NEW code \in Answers \ {"none"}, NEW logged \in BOOLEAN, Answer(r, code, logged),
         logged = (code \in Logged /\ Inference(req[r].shape))
  PROVE  Moved(r) /\ Kept(r) /\ req'[r].pc = "done" /\ req'[r].answer = code
<1> DEFINE y == Ended(req[r], code, logged)
<1>1. /\ req \in [Requests -> ReqType] /\ req[r] \in ReqType
      /\ req[r].shape \in Shapes /\ req[r].logged = 0
  BY RequestIs DEF Phase, OnItsWay
<1>2. req' = [req EXCEPT ![r] = y]
  BY DEF Answer
<1>3. /\ y \in ReqType /\ Phase(y) /\ Known(y) /\ y.pc = "done" /\ y.answer = code
      /\ y.shape = req[r].shape /\ y.slot = req[r].slot
  BY <1>1, EndedIs
<1> HIDE DEF y
<1> QED
  BY <1>1, <1>2, <1>3 DEF Moved, Kept

(* A request about to leave the proxy.                                     *)
Ready(r, x) ==
  /\ x \in ReqType /\ x.shape \in Shapes /\ x.answer = "none" /\ x.logged = 0
  /\ x.slot = SlotFor(x.shape, x.dest, x.prov)
  /\ Entitled(x)
  /\ r \notin stale /\ x.dest \in Slugs => x.prov.gpu = rows[x.dest].gpu

LEMMA ReadyIs ==
  ASSUME ProxyInv, NEW r \in Requests, req[r].pc \in OnItsWay
  PROVE  Ready(r, req[r])
  BY RequestIs DEF Ready, Phase, Known, OnItsWay

LEMMA PassMoves ==
  ASSUME ProxyInv, NEW r \in Requests, NEW x, Ready(r, x), UNCHANGED stale,
         NEW p \in OnItsWay, p = "waiting" => x.slot # None,
         req' = [req EXCEPT ![r] = [x EXCEPT !.pc = p]]
  PROVE  /\ Moved(r)
         /\ req'[r].pc = p /\ req'[r].shape = x.shape /\ req'[r].slot = x.slot
<1> DEFINE y == [x EXCEPT !.pc = p]
<1>1. req \in [Requests -> ReqType] /\ x \in ReqType
  BY RequestIs DEF Ready
<1>2. /\ y \in ReqType /\ y.pc = p
      /\ y.shape = x.shape /\ y.slot = x.slot /\ y.dest = x.dest /\ y.prov = x.prov
      /\ y.who = x.who /\ y.answer = x.answer /\ y.logged = x.logged
  BY <1>1 DEF ReqType, PC, OnItsWay
<1>3. req' = [req EXCEPT ![r] = y]
  OBVIOUS
<1> HIDE DEF y
<1>4. Entitled(y)
  BY <1>2 DEF Ready, Entitled
<1>5. Phase(y)
  BY <1>2, <1>4 DEF Ready, Phase, OnItsWay, Logged, One
<1>6. r \notin stale' => Known(y)
  BY <1>2 DEF Ready, Known
<1> QED
  BY <1>1, <1>2, <1>3, <1>5, <1>6 DEF Moved

(* It leaves, waits for the probe or fails: it is gone in any case, and    *)
(* counted if it is inference.                                             *)
LEMMA EmitMoves ==
  ASSUME ProxyInv, NEW r \in Requests, NEW x, Ready(r, x), UNCHANGED stale,
         NEW slots, NEW n, Emit(r, x, slots, n)
  PROVE  /\ Moved(r) /\ Gone(req'[r])
         /\ req'[r].shape = x.shape /\ req'[r].slot = x.slot
<1>1. CASE Unsendable(x)
  <2> DEFINE y == Ended(x, "500", FALSE)
  <2>1. /\ "500" \in Answers \ {"none"} /\ "500" \notin Logged
        /\ x \in ReqType /\ x.shape \in Shapes /\ x.logged = 0
    BY DEF Answers, Logged, Ready
  <2>2. /\ y \in ReqType /\ Phase(y) /\ Known(y) /\ y.pc = "done" /\ y.answer = "500"
        /\ y.shape = x.shape /\ y.slot = x.slot
    BY <2>1, EndedIs
  <2>3. req' = [req EXCEPT ![r] = y] /\ req \in [Requests -> ReqType]
    BY <1>1, RequestIs DEF Emit
  <2> HIDE DEF y
  <2> QED
    BY <2>2, <2>3 DEF Moved, Gone
<1>2. CASE ~Unsendable(x)
  <2>1. req' = [req EXCEPT ![r] = [x EXCEPT !.pc = "sent"]] /\ "sent" \in OnItsWay
    BY <1>2 DEF Emit, OnItsWay
  <2> QED
    BY <2>1, PassMoves DEF Gone
<1> QED
  BY <1>1, <1>2

LEMMA OnwardMoves ==
  ASSUME ProxyInv, NEW r \in Requests, NEW x, Ready(r, x), UNCHANGED stale,
         NEW slots, Onward(r, x, slots)
  PROVE  /\ Moved(r) /\ Gone(req'[r])
         /\ req'[r].shape = x.shape /\ req'[r].slot = x.slot
         /\ inFlight' = slots /\ active' = active + One(Inference(x.shape))
<1>1. CASE Inference(x.shape) /\ x.dest = Ollama
  <2>1. /\ req' = [req EXCEPT ![r] = [x EXCEPT !.pc = "telemetry"]] /\ "telemetry" \in OnItsWay
        /\ inFlight' = slots /\ active' = active + One(Inference(x.shape))
    BY <1>1 DEF Onward, OnItsWay, One
  <2> QED
    BY <2>1, PassMoves DEF Gone
<1>2. CASE ~(Inference(x.shape) /\ x.dest = Ollama)
  <2>1. Emit(r, x, slots, active + One(Inference(x.shape)))
    BY <1>2 DEF Onward
  <2>2. inFlight' = slots /\ active' = active + One(Inference(x.shape))
    BY <2>1 DEF Emit
  <2> QED
    BY <2>1, <2>2, EmitMoves
<1> QED
  BY <1>1, <1>2

(* What each step on the way does to its request.                          *)
LEMMA GrantedMoves ==
  ASSUME ProxyInv, NEW r \in Requests, Granted(r)
  PROVE  /\ Moved(r) /\ Kept(r) /\ Gone(req'[r])
         /\ inFlight' = [inFlight EXCEPT ![req[r].slot] = @ + 1]
         /\ active' = active + One(Counted(r))
<1>1. Ready(r, req[r]) /\ UNCHANGED stale
  BY ReadyIs DEF Granted, OnItsWay
<1>2. Onward(r, req[r], [inFlight EXCEPT ![req[r].slot] = @ + 1])
  BY DEF Granted
<1> QED
  BY <1>1, <1>2, OnwardMoves DEF Kept, Counted

LEMMA TelemetryAnswersMoves ==
  ASSUME ProxyInv, NEW r \in Requests, TelemetryAnswers(r)
  PROVE  Moved(r) /\ Kept(r) /\ Gone(req'[r]) /\ UNCHANGED <<inFlight, active>>
<1>1. Ready(r, req[r]) /\ UNCHANGED stale
  BY ReadyIs DEF TelemetryAnswers, OnItsWay
<1>2. Emit(r, req[r], inFlight, active)
  BY DEF TelemetryAnswers
<1>3. UNCHANGED <<inFlight, active>>
  BY <1>2 DEF Emit
<1> QED
  BY <1>1, <1>2, <1>3, EmitMoves DEF Kept

LEMMA WaitEndsMoves ==
  ASSUME ProxyInv, NEW r \in Requests, WaitEnds(r)
  PROVE  Moved(r) /\ ~Gone(req'[r])
<1>1. req[r].pc \in OnItsWay /\ Counted(r) = ("503" \in Logged /\ Inference(req[r].shape))
  BY DEF WaitEnds, OnItsWay, Logged, Counted, Inference
<1>2. Answer(r, "503", Counted(r)) /\ "503" \in Answers \ {"none"} /\ Counted(r) \in BOOLEAN
  BY DEF WaitEnds, Answers, Counted, Inference
<1>3. Moved(r) /\ req'[r].pc = "done" /\ req'[r].answer = "503"
  BY <1>1, <1>2, AnswerMoves
<1> QED
  BY <1>3 DEF Gone

LEMMA SendFailsMoves ==
  ASSUME ProxyInv, NEW r \in Requests, SendFails(r)
  PROVE  Moved(r) /\ ~Gone(req'[r])
<1>1. req[r].pc \in OnItsWay /\ Counted(r) = ("502" \in Logged /\ Inference(req[r].shape))
  BY DEF SendFails, OnItsWay, Logged, Counted, Inference
<1>2. Answer(r, "502", Counted(r)) /\ "502" \in Answers \ {"none"} /\ Counted(r) \in BOOLEAN
  BY DEF SendFails, Answers, Counted, Inference
<1>3. Moved(r) /\ req'[r].pc = "done" /\ req'[r].answer = "502"
  BY <1>1, <1>2, AnswerMoves
<1> QED
  BY <1>3 DEF Gone

LEMMA StreamEndsMoves ==
  ASSUME ProxyInv, NEW r \in Requests, StreamEnds(r)
  PROVE  Moved(r) /\ ~Gone(req'[r])
<1>1. req[r].pc \in OnItsWay /\ Counted(r) = ("200" \in Logged /\ Inference(req[r].shape))
  BY DEF StreamEnds, OnItsWay, Logged, Counted, Inference
<1>2. Answer(r, "200", Counted(r)) /\ "200" \in Answers \ {"none"} /\ Counted(r) \in BOOLEAN
  BY DEF StreamEnds, Answers, Counted, Inference
<1>3. Moved(r) /\ req'[r].pc = "done" /\ req'[r].answer = "200"
  BY <1>1, <1>2, AnswerMoves
<1> QED
  BY <1>3 DEF Gone

LEMMA StreamCutMoves ==
  ASSUME ProxyInv, NEW r \in Requests, StreamCut(r)
  PROVE  Moved(r) /\ Kept(r) /\ Gone(req'[r])
<1>1. req[r].pc \in OnItsWay /\ Answer(r, "cut", FALSE)
  BY DEF StreamCut, OnItsWay
<1>2. "cut" \in Answers \ {"none"} /\ "cut" \notin Logged
  BY DEF Answers, Logged
<1>3. Moved(r) /\ Kept(r) /\ req'[r].pc = "done" /\ req'[r].answer = "cut"
  BY <1>1, <1>2, AnswerMoves
<1> QED
  BY <1>3 DEF Gone

LEMMA UpstreamAnswersMoves ==
  ASSUME ProxyInv, NEW r \in Requests, UpstreamAnswers(r)
  PROVE  /\ Moved(r) /\ Kept(r)
         /\ \/ Gone(req'[r])
            \/ req[r].slot = None /\ ~Inference(req[r].shape)
<1>1. req[r].pc \in OnItsWay /\ UNCHANGED stale
  BY DEF UpstreamAnswers, OnItsWay
<1>2. CASE req' = [req EXCEPT ![r].pc = "streaming"]
  <2>1. Ready(r, req[r]) /\ "streaming" \in OnItsWay
    BY <1>1, ReadyIs DEF OnItsWay
  <2>2. req' = [req EXCEPT ![r] = [req[r] EXCEPT !.pc = "streaming"]]
    BY <1>2
  <2> QED
    BY <1>1, <2>1, <2>2, PassMoves DEF Kept, Gone
<1>3. CASE ListToCut(r) /\ \E code \in {"200", "500"} : Answer(r, code, FALSE)
  <2>1. PICK code \in {"200", "500"} : Answer(r, code, FALSE)
    BY <1>3
  <2>2. ~Inference(req[r].shape) /\ req[r].slot = None
    BY <1>1, <1>3, RequestIs DEF ListToCut, ListPath, Inference, SlotFor, Phase
  <2>3. code \in Answers \ {"none"}
    BY DEF Answers
  <2> QED
    BY <1>1, <2>1, <2>2, <2>3, AnswerMoves
<1> QED
  BY <1>2, <1>3 DEF UpstreamAnswers

(* The body is there: answered, or on its way to what was checked.         *)
LEMMA ForwardMoves ==
  ASSUME ProxyInv, NEW r \in Requests, req[r].pc = "body", UNCHANGED stale,
         NEW dest \in Dests, req[r].shape.road # Ollama => dest = req[r].shape.road,
         dest # Ollama => req[r].who # Nobody /\ MayUse(req[r].who, dest),
         req[r].shape.model # None => MayModel(req[r].who, req[r].shape.model),
         Forward(r, dest)
  PROVE  /\ Moved(r) /\ req'[r].shape = req[r].shape
         /\ \/ req'[r].pc = "waiting" /\ UNCHANGED <<inFlight, active>>
            \/ /\ Gone(req'[r]) /\ req'[r].slot = None
               /\ UNCHANGED inFlight /\ active' = active + One(Counted(r))
<1> DEFINE prov == ProvOf(r, dest)
           slot == SlotFor(req[r].shape, dest, prov)
           x == [req[r] EXCEPT !.dest = dest, !.prov = prov, !.slot = slot]
<1>1. /\ req \in [Requests -> ReqType] /\ req[r] \in ReqType /\ req[r].shape \in Shapes
      /\ req[r].answer = "none" /\ req[r].logged = 0
      /\ req[r].shape.road # Ollama => req[r].dest = req[r].shape.road
  BY RequestIs DEF Phase
<1>2. slot \in Models \cup {None}
  BY <1>1, SlotForIs
<1>3. prov \in ProvType /\ (r \notin stale /\ dest \in Slugs => prov.gpu = rows[dest].gpu)
  <2>1. CASE req[r].shape.road = Ollama /\ dest # Ollama
    <3>1. prov = RowRead(dest) /\ dest \in Slugs
      BY <2>1 DEF ProvOf, Dests
    <3> QED
      BY <3>1, RowReadIs DEF ProxyInv
  <2>2. CASE req[r].shape.road # Ollama
    <3>1. prov = req[r].prov /\ dest = req[r].dest /\ prov \in ProvType
      BY <1>1, <2>2 DEF ProvOf, ReqType
    <3> QED
      BY <3>1, RequestIs DEF Known
  <2>3. CASE req[r].shape.road = Ollama /\ dest = Ollama
    <3>1. prov = req[r].prov /\ prov \in ProvType
      BY <1>1, <2>3 DEF ProvOf, ReqType
    <3> QED
      BY <2>3, <3>1, Distinct
  <2> QED
    BY <2>1, <2>2, <2>3
<1>4. IF slot # None
      THEN req' = [req EXCEPT ![r] = [x EXCEPT !.pc = "waiting"]] /\ UNCHANGED <<inFlight, active>>
      ELSE Onward(r, x, inFlight)
  BY DEF Forward
<1> HIDE DEF prov
<1>5. /\ x \in ReqType /\ x.shape = req[r].shape /\ x.who = req[r].who
      /\ x.answer = "none" /\ x.logged = 0
      /\ x.dest = dest /\ x.prov = prov /\ x.slot = slot
  <2> HIDE DEF slot
  <2> QED
    BY <1>1, <1>2, <1>3 DEF ReqType
<1> HIDE DEF x
<1>6. Ready(r, x)
  <2>1. Entitled(x)
    BY <1>5, Distinct DEF Entitled
  <2>2. x.slot = SlotFor(x.shape, x.dest, x.prov)
    BY <1>5
  <2> HIDE DEF slot
  <2> QED
    BY <1>1, <1>3, <1>5, <2>1, <2>2 DEF Ready
<1> HIDE DEF slot
<1>7. CASE slot # None
  <2>1. "waiting" \in OnItsWay
    BY DEF OnItsWay
  <2>2. req' = [req EXCEPT ![r] = [x EXCEPT !.pc = "waiting"]] /\ UNCHANGED <<inFlight, active>>
    BY <1>4, <1>7
  <2>3. Moved(r) /\ req'[r].pc = "waiting" /\ req'[r].shape = x.shape
    BY <1>5, <1>6, <1>7, <2>1, <2>2, PassMoves
  <2> QED
    BY <1>5, <2>2, <2>3
<1>8. CASE slot = None
  <2>1. Onward(r, x, inFlight)
    BY <1>4, <1>8
  <2>2. /\ Moved(r) /\ Gone(req'[r]) /\ req'[r].shape = x.shape /\ req'[r].slot = x.slot
        /\ inFlight' = inFlight /\ active' = active + One(Inference(x.shape))
    BY <1>6, <2>1, OnwardMoves
  <2> QED
    BY <1>5, <1>8, <2>2 DEF Counted
<1> QED
  BY <1>7, <1>8

LEMMA BodyReadMoves ==
  ASSUME ProxyInv, NEW r \in Requests, BodyRead(r)
  PROVE  /\ Moved(r) /\ req'[r].shape = req[r].shape
         /\ \/ ~Gone(req'[r]) /\ UNCHANGED <<inFlight, active>>
            \/ /\ Gone(req'[r]) /\ req'[r].slot = None
               /\ UNCHANGED inFlight /\ active' = active + One(Counted(r))
<1> DEFINE x == req[r]  q == x.shape  dest == Destination(q)
<1>1. /\ x.pc = "body" /\ x.pc \in OnItsWay \cup {"body"} /\ q \in Shapes /\ UNCHANGED stale
      /\ q.road # Ollama => x.who # Nobody /\ MayUse(x.who, q.road)
  BY RequestIs DEF BodyRead, Phase
<1>2. dest \in Dests /\ (q.road # Ollama => dest = q.road)
  BY <1>1, DestinationIs
<1>3. ASSUME NEW code \in {"401", "403 provider", "403 model", "429"}, NEW logged \in BOOLEAN,
             Answer(r, code, logged), logged = (code \in Logged /\ Inference(req[r].shape))
      PROVE  Moved(r) /\ Kept(r) /\ ~Gone(req'[r])
  <2>1. code \in Answers \ {"none"}
    BY DEF Answers
  <2>2. Moved(r) /\ Kept(r) /\ req'[r].pc = "done" /\ req'[r].answer = code
    BY <1>1, <1>3, <2>1, AnswerMoves
  <2> QED
    BY <2>2 DEF Gone
<1>4. ASSUME DenyModel(r)
      PROVE  Moved(r) /\ Kept(r) /\ ~Gone(req'[r])
  <2>1. "403 model" \in Logged /\ Inference(req[r].shape) \in BOOLEAN
    BY DEF Logged, Inference
  <2> QED
    BY <1>3, <1>4, <2>1 DEF DenyModel
<1>5. ASSUME RateLimited(r)
      PROVE  Moved(r) /\ Kept(r) /\ ~Gone(req'[r])
  <2>1. TRUE = ("429" \in Logged /\ Inference(req[r].shape))
    BY <1>5 DEF RateLimited, Counted, Logged
  <2> QED
    BY <1>3, <1>5, <2>1 DEF RateLimited
<1> DEFINE verdict == IF q.road = Ollama THEN RoutedVerdict(r, dest) ELSE "none"
<1>6. CASE verdict # "none"
  <2>1. Answer(r, verdict, FALSE) /\ UNCHANGED <<inFlight, active>>
    BY <1>6 DEF BodyRead
  <2>2. verdict \in {"401", "403 provider"} /\ verdict \notin Logged
    BY <1>6 DEF RoutedVerdict, Logged
  <2> HIDE DEF verdict, x, q, dest
  <2> QED
    BY <1>3, <2>1, <2>2 DEF Kept
<1>7. CASE verdict = "none"
  <2>1. CheckedForward(r, dest)
    BY <1>7 DEF BodyRead
  <2>2. dest # Ollama => x.who # Nobody /\ MayUse(x.who, dest)
    BY <1>1, <1>2, <1>7 DEF RoutedVerdict
  <2>3. CASE ~Forward(r, dest) \/ (q.model # None /\ ~MayModel(x.who, q.model))
    <3>1. (DenyModel(r) \/ RateLimited(r)) /\ UNCHANGED <<inFlight, active>>
      BY <2>1, <2>3 DEF CheckedForward
    <3> HIDE DEF verdict, x, q, dest
    <3> QED
      BY <1>4, <1>5, <3>1 DEF Kept
  <2>4. CASE Forward(r, dest) /\ (q.model # None => MayModel(x.who, q.model))
    <3>1. /\ req[r].shape.road # Ollama => dest = req[r].shape.road
          /\ dest # Ollama => req[r].who # Nobody /\ MayUse(req[r].who, dest)
          /\ req[r].shape.model # None => MayModel(req[r].who, req[r].shape.model)
          /\ req[r].pc = "body" /\ dest \in Dests /\ Forward(r, dest) /\ UNCHANGED stale
      BY <1>1, <1>2, <2>2, <2>4
    <3> HIDE DEF verdict, x, q, dest
    <3>2. /\ Moved(r) /\ req'[r].shape = req[r].shape
          /\ \/ req'[r].pc = "waiting" /\ UNCHANGED <<inFlight, active>>
             \/ /\ Gone(req'[r]) /\ req'[r].slot = None
                /\ UNCHANGED inFlight /\ active' = active + One(Counted(r))
      BY <3>1, ForwardMoves
    <3> QED
      BY <3>2 DEF Gone
  <2> QED
    BY <2>3, <2>4
<1> QED
  BY <1>6, <1>7

LEMMA StepMoves ==
  ASSUME ProxyInv, NEW r \in Requests, Arrive(r) \/ Step(r) \/ Retire(r)
  PROVE  Moved(r)
  BY ArriveMoves, RetireMoves, BodyReadMoves, GrantedMoves, WaitEndsMoves,
     TelemetryAnswersMoves, SendFailsMoves, UpstreamAnswersMoves, StreamEndsMoves,
     StreamCutMoves
     DEF Step

-----------------------------------------------------------------------------
(* Slots and count. One request moves; the set it is in or was in changes  *)
(* by that one.                                                            *)
LEMMA Finite ==
  ASSUME NEW S \in SUBSET Requests
  PROVE  IsFiniteSet(S) /\ Cardinality(S) \in Nat
  BY ProxyAssumption, FS_Subset, FS_CardinalityType

LEMMA OneMoves ==
  ASSUME NEW S \in SUBSET Requests, NEW T \in SUBSET Requests, NEW r \in Requests,
         S \ {r} = T \ {r}
  PROVE  Cardinality(T) = Cardinality(S) + One(r \in T) - One(r \in S)
<1>1. /\ IsFiniteSet(S) /\ Cardinality(S) \in Nat
      /\ IsFiniteSet(T) /\ Cardinality(T) \in Nat
  BY Finite
<1>2. ASSUME NEW X \in SUBSET Requests
      PROVE  Cardinality(X \ {r}) = Cardinality(X) - One(r \in X)
  <2>1. IsFiniteSet(X) /\ Cardinality(X) \in Nat
    BY Finite
  <2>2. CASE r \in X
    BY <2>1, <2>2, FS_RemoveElement DEF One
  <2>3. CASE r \notin X
    <3>1. X \ {r} = X
      BY <2>3
    <3> QED
      BY <2>1, <3>1 DEF One
  <2> QED
    BY <2>2, <2>3
<1>3. One(r \in S) \in Nat /\ One(r \in T) \in Nat
  BY DEF One
<1>4. /\ Cardinality(S \ {r}) = Cardinality(S) - One(r \in S)
      /\ Cardinality(S \ {r}) = Cardinality(T) - One(r \in T)
  BY <1>2
<1> QED
  BY <1>1, <1>3, <1>4

LEMMA TallyMoves ==
  ASSUME NEW r \in Requests, \A s \in Requests \ {r} : req'[s] = req[s]
  PROVE  /\ \A m \in Models :
              Cardinality(Holders(m)') =
              Cardinality(Holders(m)) + One(Holds(req'[r], m)) - One(Holds(req[r], m))
         /\ Cardinality(Counting') =
            Cardinality(Counting) + One(Counts(req'[r])) - One(Counts(req[r]))
<1>1. ASSUME NEW m \in Models
      PROVE  Cardinality(Holders(m)') =
             Cardinality(Holders(m)) + One(Holds(req'[r], m)) - One(Holds(req[r], m))
  <2> DEFINE S == Holders(m)  T == Holders(m)'
  <2>1. S \in SUBSET Requests /\ T \in SUBSET Requests /\ S \ {r} = T \ {r}
    BY DEF Holders, Keeps, Upstream, Lost
  <2>2. (r \in S <=> Holds(req[r], m)) /\ (r \in T <=> Holds(req'[r], m))
    BY DEF Holders, Keeps, Upstream, Lost, Holds, Gone
  <2>3. One(r \in S) = One(Holds(req[r], m)) /\ One(r \in T) = One(Holds(req'[r], m))
    BY <2>2 DEF One
  <2>4. Cardinality(T) = Cardinality(S) + One(r \in T) - One(r \in S)
    <3> HIDE DEF S, T
    <3> QED
      BY <2>1, OneMoves
  <2> QED
    BY <2>3, <2>4
<1>2. Cardinality(Counting') =
      Cardinality(Counting) + One(Counts(req'[r])) - One(Counts(req[r]))
  <2> DEFINE S == Counting  T == Counting'
  <2>1. S \in SUBSET Requests /\ T \in SUBSET Requests /\ S \ {r} = T \ {r}
    BY DEF Counting, Keeps, Upstream, Lost, Counted
  <2>2. (r \in S <=> Counts(req[r])) /\ (r \in T <=> Counts(req'[r]))
    BY DEF Counting, Keeps, Upstream, Lost, Counted, Counts, Gone
  <2>3. One(r \in S) = One(Counts(req[r])) /\ One(r \in T) = One(Counts(req'[r]))
    BY <2>2 DEF One
  <2>4. Cardinality(T) = Cardinality(S) + One(r \in T) - One(r \in S)
    <3> HIDE DEF S, T
    <3> QED
      BY <2>1, OneMoves
  <2> QED
    BY <2>3, <2>4
<1> QED
  BY <1>1, <1>2

(* A step of r books what r takes and gives back.                          *)
Booked(r) ==
  /\ inFlight' \in [Models -> Nat] /\ active' \in Nat
  /\ \A m \in Models :
       inFlight'[m] = inFlight[m] + One(Holds(req'[r], m)) - One(Holds(req[r], m))
  /\ active' = active + One(Counts(req'[r])) - One(Counts(req[r]))

LEMMA NumbersAre ==
  ASSUME ProxyInv
  PROVE  /\ inFlight \in [Models -> Nat] /\ active \in Nat
         /\ \A m \in Models : inFlight[m] \in Nat
  BY DEF ProxyInv, TypeOK

(* Whoever holds a slot or is counted is seen in the numbers.              *)
LEMMA HeldIsThere ==
  ASSUME ProxyInv, NEW r \in Requests
  PROVE  /\ \A m \in Models : Holds(req[r], m) => inFlight[m] > 0
         /\ Counts(req[r]) => active > 0
<1>1. ASSUME NEW S \in SUBSET Requests, r \in S PROVE Cardinality(S) > 0
  <2>1. IsFiniteSet(S) /\ Cardinality(S) \in Nat /\ S # {}
    BY <1>1, Finite
  <2> QED
    BY <2>1, FS_EmptySet
<1>2. ASSUME NEW m \in Models, Holds(req[r], m) PROVE inFlight[m] > 0
  <2>1. Holders(m) \in SUBSET Requests /\ r \in Holders(m)
    BY <1>2 DEF Holders, Keeps, Upstream, Lost, Holds, Gone
  <2>2. Cardinality(Holders(m)) > 0
    BY <1>1, <2>1
  <2> QED
    BY <2>2 DEF ProxyInv, SlotsReturned
<1>3. ASSUME Counts(req[r]) PROVE active > 0
  <2>1. Counting \in SUBSET Requests /\ r \in Counting
    BY <1>3 DEF Counting, Keeps, Upstream, Lost, Counted, Counts, Gone
  <2>2. Cardinality(Counting) > 0
    BY <1>1, <2>1
  <2> QED
    BY <2>2 DEF ProxyInv, CountReturned
<1> QED
  BY <1>2, <1>3

LEMMA SameBooks ==
  ASSUME ProxyInv, NEW r \in Requests, UNCHANGED <<inFlight, active>>,
         \A m \in Models : Holds(req'[r], m) <=> Holds(req[r], m),
         Counts(req'[r]) <=> Counts(req[r])
  PROVE  Booked(r)
<1>1. \A m \in Models : One(Holds(req'[r], m)) = One(Holds(req[r], m)) /\ One(Holds(req[r], m)) \in Nat
  BY DEF One
<1>2. One(Counts(req'[r])) = One(Counts(req[r])) /\ One(Counts(req[r])) \in Nat
  BY DEF One
<1> QED
  BY <1>1, <1>2, NumbersAre DEF Booked

LEMMA GiveBackBooks ==
  ASSUME ProxyInv, NEW r \in Requests, Gone(req[r]), ~Gone(req'[r]), GiveBack(r)
  PROVE  Booked(r)
<1>1. /\ \A m \in Models : One(Holds(req'[r], m)) = 0
      /\ One(Counts(req'[r])) = 0
  BY DEF One, Holds, Counts
<1>2. /\ \A m \in Models : One(Holds(req[r], m)) = IF m = req[r].slot THEN 1 ELSE 0
      /\ One(Counts(req[r])) = One(Counted(r))
  BY DEF One, Holds, Counts, Counted
<1>3. ASSUME NEW m \in Models
      PROVE  /\ inFlight'[m] = inFlight[m] - One(Holds(req[r], m))
             /\ inFlight'[m] \in Nat
  <2>1. req[r].slot = m => inFlight[m] > 0
    BY HeldIsThere DEF Holds
  <2> QED
    BY <1>2, <2>1, NumbersAre, Distinct DEF GiveBack, SlotBack
<1>4. inFlight' \in [Models -> Nat]
  <2>1. DOMAIN inFlight' = Models /\ inFlight' = [m \in DOMAIN inFlight' |-> inFlight'[m]]
    BY NumbersAre DEF GiveBack, SlotBack
  <2> QED
    BY <1>3, <2>1
<1>5. active' = active - One(Counts(req[r])) /\ active' \in Nat
  <2>1. Counts(req[r]) => active > 0
    BY HeldIsThere
  <2>2. active' = active - One(Counts(req[r]))
    BY <1>2 DEF GiveBack, CountBack
  <2> QED
    BY <2>1, <2>2, NumbersAre DEF One
<1>6. \A m \in Models : One(Holds(req[r], m)) \in Nat
  BY DEF One
<1>7. One(Counts(req[r])) \in Nat
  BY DEF One
<1> QED
  BY <1>1, <1>3, <1>4, <1>5, <1>6, <1>7, NumbersAre DEF Booked

(* r takes a slot, or none, and its place in the count.                    *)
LEMMA TakenBooks ==
  ASSUME ProxyInv, NEW r \in Requests, ~Gone(req[r]), Gone(req'[r]),
         req'[r].shape = req[r].shape,
         active' = active + One(Counted(r)),
         \/ req'[r].slot = None /\ UNCHANGED inFlight
         \/ inFlight' = [inFlight EXCEPT ![req'[r].slot] = @ + 1]
  PROVE  Booked(r)
<1>1. /\ \A m \in Models : One(Holds(req[r], m)) = 0
      /\ One(Counts(req[r])) = 0
  BY DEF One, Holds, Counts
<1>2. /\ \A m \in Models : One(Holds(req'[r], m)) = IF m = req'[r].slot THEN 1 ELSE 0
      /\ One(Counts(req'[r])) = One(Counted(r)) /\ One(Counted(r)) \in Nat
  BY DEF One, Holds, Counts, Counted
<1>3. ASSUME NEW m \in Models
      PROVE  inFlight'[m] = inFlight[m] + One(Holds(req'[r], m)) /\ inFlight'[m] \in Nat
  BY <1>2, NumbersAre, Distinct
<1>4. inFlight' \in [Models -> Nat]
  <2>1. DOMAIN inFlight' = Models /\ inFlight' = [m \in DOMAIN inFlight' |-> inFlight'[m]]
    BY NumbersAre
  <2> QED
    BY <1>3, <2>1
<1>5. active' = active + One(Counts(req'[r])) /\ active' \in Nat
  BY <1>2, NumbersAre
<1>6. \A m \in Models : One(Holds(req'[r], m)) \in Nat
  BY DEF One
<1>7. One(Counts(req'[r])) \in Nat
  BY DEF One
<1> QED
  BY <1>1, <1>3, <1>4, <1>5, <1>6, <1>7, NumbersAre DEF Booked

LEMMA StepBooks ==
  ASSUME ProxyInv, NEW r \in Requests, Arrive(r) \/ Step(r) \/ Retire(r)
  PROVE  Booked(r)
<1>1. CASE Arrive(r)
  <2>1. ~Gone(req[r]) /\ ~Gone(req'[r]) /\ UNCHANGED <<inFlight, active>>
    BY <1>1, ArriveMoves DEF Arrive, Gone
  <2> QED
    BY <2>1, SameBooks DEF Holds, Counts
<1>2. CASE Retire(r)
  <2>1. /\ ~Gone(req'[r]) /\ UNCHANGED <<inFlight, active>>
        /\ Gone(req[r]) => req[r].slot = None /\ ~Inference(req[r].shape)
    BY <1>2, RetireMoves DEF Retire, Gone, Lost, Counted
  <2> QED
    BY <2>1, SameBooks, Distinct DEF Holds, Counts
<1>3. CASE WaitEnds(r)
  <2>1. ~Gone(req[r]) /\ ~Gone(req'[r]) /\ UNCHANGED <<inFlight, active>>
    BY <1>3, WaitEndsMoves DEF WaitEnds, Gone
  <2> QED
    BY <2>1, SameBooks DEF Holds, Counts
<1>4. CASE TelemetryAnswers(r) \/ StreamCut(r)
  <2>1. Gone(req[r]) /\ Gone(req'[r]) /\ Kept(r) /\ UNCHANGED <<inFlight, active>>
    BY <1>4, TelemetryAnswersMoves, StreamCutMoves DEF TelemetryAnswers, StreamCut, Gone
  <2> QED
    BY <2>1, SameBooks DEF Holds, Counts, Kept
<1>5. CASE UpstreamAnswers(r)
  <2>1. Gone(req[r]) /\ Kept(r) /\ UNCHANGED <<inFlight, active>>
    BY <1>5, UpstreamAnswersMoves DEF UpstreamAnswers, Gone
  <2>2. Gone(req'[r]) \/ (req[r].slot = None /\ ~Inference(req[r].shape))
    BY <1>5, UpstreamAnswersMoves
  <2> QED
    BY <2>1, <2>2, SameBooks, Distinct DEF Holds, Counts, Kept
<1>6. CASE SendFails(r) \/ StreamEnds(r)
  <2>1. Gone(req[r]) /\ ~Gone(req'[r]) /\ GiveBack(r)
    BY <1>6, SendFailsMoves, StreamEndsMoves DEF SendFails, StreamEnds, Gone
  <2> QED
    BY <2>1, GiveBackBooks
<1>7. CASE Granted(r)
  <2>1. ~Gone(req[r])
    BY <1>7 DEF Granted, Gone
  <2>2. /\ Gone(req'[r]) /\ req'[r].shape = req[r].shape /\ req'[r].slot = req[r].slot
        /\ inFlight' = [inFlight EXCEPT ![req[r].slot] = @ + 1]
        /\ active' = active + One(Counted(r))
    BY <1>7, GrantedMoves DEF Kept
  <2> QED
    BY <2>1, <2>2, TakenBooks
<1>8. CASE BodyRead(r)
  <2>1. ~Gone(req[r])
    BY <1>8 DEF BodyRead, Gone
  <2>2. CASE ~Gone(req'[r]) /\ UNCHANGED <<inFlight, active>>
    BY <2>1, <2>2, SameBooks DEF Holds, Counts
  <2>3. CASE /\ Gone(req'[r]) /\ req'[r].slot = None
             /\ UNCHANGED inFlight /\ active' = active + One(Counted(r))
    BY <1>8, <2>1, <2>3, BodyReadMoves, TakenBooks
  <2> QED
    BY <1>8, <2>2, <2>3, BodyReadMoves
<1> QED
  BY <1>1, <1>2, <1>3, <1>4, <1>5, <1>6, <1>7, <1>8 DEF Step

-----------------------------------------------------------------------------
(* The whole.                                                              *)
LEMMA StepKeeps ==
  ASSUME ProxyInv, NEW r \in Requests, Arrive(r) \/ Step(r) \/ Retire(r)
  PROVE  ProxyInv'
<1>1. Moved(r) /\ Booked(r)
  BY StepMoves, StepBooks
<1>2. UNCHANGED tables /\ stale' \ {r} = stale \ {r} /\ stale' \subseteq Requests
  <2>1. stale \subseteq Requests
    BY DEF ProxyInv, TypeOK
  <2> QED
    BY <2>1 DEF Step, Arrive, BodyRead, Granted, WaitEnds, TelemetryAnswers, SendFails,
         UpstreamAnswers, StreamEnds, StreamCut, Retire
<1>3. TypeOK'
  <2>1. /\ policy \in [Keys -> Policies] /\ rows \in [Slugs -> Rows]
        /\ requireKey \in BOOLEAN /\ changes \in 0..MaxChanges
    BY DEF ProxyInv, TypeOK
  <2> QED
    BY <1>1, <1>2, <2>1 DEF Moved, Booked, TypeOK, tables
<1>4. Phases'
  <2>1. \A s \in Requests : Phase(req[s])
    BY DEF ProxyInv, Phases
  <2>2. \A s \in Requests : Phase(req'[s])
    BY <1>1, <2>1 DEF Moved
  <2> QED
    BY <2>2 DEF Phases
<1>5. KindsKnown'
  <2>1. ASSUME NEW s \in Requests, s \notin stale' PROVE Known(req'[s])
    <3>1. CASE s = r
      BY <1>1, <2>1, <3>1 DEF Moved
    <3>2. CASE s # r
      <4>1. s \notin stale /\ req'[s] = req[s]
        BY <1>1, <1>2, <2>1, <3>2 DEF Moved
      <4> QED
        BY <4>1 DEF ProxyInv, KindsKnown
    <3> QED
      BY <3>1, <3>2
  <2> QED
    BY <1>2, <2>1 DEF KindsKnown, Known, tables
<1>6. /\ \A m \in Models :
            Cardinality(Holders(m)') =
            Cardinality(Holders(m)) + One(Holds(req'[r], m)) - One(Holds(req[r], m))
      /\ Cardinality(Counting') =
         Cardinality(Counting) + One(Counts(req'[r])) - One(Counts(req[r]))
  BY <1>1, TallyMoves DEF Moved
<1>7. /\ \A m \in Models :
            inFlight'[m] = inFlight[m] + One(Holds(req'[r], m)) - One(Holds(req[r], m))
      /\ active' = active + One(Counts(req'[r])) - One(Counts(req[r]))
  BY <1>1 DEF Booked
<1>8. SlotsReturned' /\ CountReturned'
  BY <1>6, <1>7 DEF ProxyInv, SlotsReturned, CountReturned
<1> QED
  BY <1>3, <1>4, <1>5, <1>8 DEF ProxyInv

LEMMA TablesKeep ==
  ASSUME ProxyInv, Administrate \/ UNCHANGED vars
  PROVE  ProxyInv'
<1>1. UNCHANGED <<req, inFlight, active>>
  BY DEF Administrate, vars
<1>2. TypeOK'
  <2>1. /\ req \in [Requests -> ReqType] /\ inFlight \in [Models -> Nat] /\ active \in Nat
        /\ policy \in [Keys -> Policies] /\ rows \in [Slugs -> Rows]
        /\ requireKey \in BOOLEAN /\ changes \in 0..MaxChanges /\ stale \subseteq Requests
    BY DEF ProxyInv, TypeOK
  <2>2. policy' \in [Keys -> Policies] /\ rows' \in [Slugs -> Rows]
    BY <2>1 DEF Administrate, vars, tables
  <2>3. requireKey' \in BOOLEAN
    BY <2>1 DEF Administrate, vars, tables
  <2>4. changes' \in 0..MaxChanges
    BY <2>1, Distinct DEF Administrate, vars, tables
  <2>5. stale' \subseteq Requests
    BY <2>1 DEF Administrate, UnderWay, vars
  <2> QED
    BY <1>1, <2>1, <2>2, <2>3, <2>4, <2>5 DEF TypeOK
<1>3. Phases'
  BY <1>1 DEF ProxyInv, Phases
<1>4. KindsKnown'
  <2>1. ASSUME NEW r \in Requests, r \notin stale', req[r].pc \in OnItsWay \cup {"body"},
               req[r].dest \in Slugs
        PROVE  req[r].prov.gpu = rows'[req[r].dest].gpu
    <3>1. r \notin stale
      BY <2>1 DEF Administrate, vars
    <3>2. req[r].prov.gpu = rows[req[r].dest].gpu
      BY <2>1, <3>1 DEF ProxyInv, KindsKnown, Known
    <3>3. rows'[req[r].dest].gpu = rows[req[r].dest].gpu
      <4>1. CASE UNCHANGED rows
        BY <4>1
      <4>2. ASSUME NEW s \in Slugs, NEW w \in Rows, rows' = [rows EXCEPT ![s] = w],
                   stale' = IF rows[s].gpu = w.gpu THEN stale ELSE stale \cup UnderWay(s)
            PROVE  rows'[req[r].dest].gpu = rows[req[r].dest].gpu
        <5>1. rows \in [Slugs -> Rows]
          BY DEF ProxyInv, TypeOK
        <5>2. req[r].dest = s => r \in UnderWay(s)
          BY <2>1 DEF UnderWay, OnItsWay
        <5> QED
          BY <2>1, <4>2, <5>1, <5>2
      <4> QED
        BY <4>1, <4>2 DEF Administrate, vars, tables
    <3> QED
      BY <3>2, <3>3
  <2> QED
    BY <1>1, <2>1 DEF KindsKnown, Known
<1>5. SlotsReturned' /\ CountReturned'
  BY <1>1 DEF ProxyInv, SlotsReturned, CountReturned, Holders, Counting, Keeps, Upstream,
              Lost, Counted
<1> QED
  BY <1>2, <1>3, <1>4, <1>5 DEF ProxyInv

LEMMA RestartKeeps ==
  ASSUME ProxyInv, Restart
  PROVE  ProxyInv'
<1>1. TypeOK'
  <2>1. /\ policy \in [Keys -> Policies] /\ rows \in [Slugs -> Rows]
        /\ requireKey \in BOOLEAN /\ changes \in 0..MaxChanges
    BY DEF ProxyInv, TypeOK
  <2>2. req' \in [Requests -> ReqType] /\ inFlight' \in [Models -> Nat] /\ active' \in Nat
    BY FreshIs DEF Restart
  <2> QED
    BY <2>1, <2>2 DEF Restart, TypeOK, tables
<1>2. Phases'
  BY FreshIs DEF Restart, Phases
<1>3. KindsKnown'
  BY DEF Restart, KindsKnown, Known, Fresh, OnItsWay
<1>4. /\ \A m \in Models : Holders(m)' = {}
      /\ Counting' = {}
  BY DEF Restart, Holders, Counting, Keeps, Upstream, Lost, Fresh
<1>5. Cardinality({}) = 0
  BY FS_EmptySet
<1>6. SlotsReturned' /\ CountReturned'
  BY <1>4, <1>5 DEF Restart, SlotsReturned, CountReturned
<1> QED
  BY <1>1, <1>2, <1>3, <1>6 DEF ProxyInv

LEMMA NextKeeps == ProxyInv /\ [Next]_vars => ProxyInv'
  BY StepKeeps, TablesKeep, RestartKeeps DEF Next

LEMMA AlwaysProxyInv == Spec => []ProxyInv
  BY InitProxy, NextKeeps, PTL DEF Spec

-----------------------------------------------------------------------------
(* By slug or by model, in whatever order keys and providers change while  *)
(* a request is suspended: nothing is on its way to a provider without a   *)
(* principal that may use it, nor to a model its key does not list, as     *)
(* they stood when the request came.                                       *)
THEOREM EntitledAlways == Spec => []OnlyEntitled
<1>1. ProxyInv => OnlyEntitled
  BY DEF ProxyInv, Phases, Phase, OnItsWay, Entitled, OnlyEntitled, Upstream
<1> QED
  BY <1>1, AlwaysProxyInv, PTL

(* A POST with a model that is on its way to what is a service on the card *)
(* at that moment holds a slot for the model, whatever its path and road,  *)
(* however the rows of the providers change meanwhile, as long as nobody   *)
(* changed the kind of its own after the request read it.                  *)
THEOREM NothingReachesTheCardUnheld == Spec => []CardNeedsSlot
<1>1. ProxyInv => CardNeedsSlot
  BY DEF ProxyInv, Phases, Phase, KindsKnown, Known, OnItsWay, SlotFor, CardNeedsSlot, Upstream
<1> QED
  BY <1>1, AlwaysProxyInv, PTL

(* Each end of a request writes one row or none: one for inference that    *)
(* was refused for its model, limited, gave up waiting, could not be sent  *)
(* or came to the end of its stream, none otherwise.                       *)
THEOREM LogIsExact == Spec => []LoggedOnce
<1>1. ProxyInv => LoggedOnce
  BY DEF ProxyInv, Phases, Phase, Logged, LoggedOnce, Counted
<1> QED
  BY <1>1, AlwaysProxyInv, PTL

(* Slots and count are what the requests on their way hold and what those  *)
(* left behind whose request could not be built or whose finally was cut   *)
(* short, in every interleaving of answers, failures, clients that leave   *)
(* and changes by administrators, whatever paths clients ask for and       *)
(* whatever addresses are configured: nothing else is kept, and nothing is *)
(* given back twice.                                                       *)
THEOREM GivenBackExactly == Spec => []GivenBackOnce
<1>1. ProxyInv => GivenBackOnce
  BY DEF ProxyInv, GivenBackOnce
<1> QED
  BY <1>1, AlwaysProxyInv, PTL
=============================================================================
