------------------------------- MODULE Proxy --------------------------------
(***************************************************************************)
(* The way of a request through the proxy (src/ollamaproxy/proxy.py, with  *)
(* the principals of auth.py and the counter of telemetry.py): who asks,   *)
(* where the request goes, may it go there, the slot of the GPU scheduler, *)
(* the upstream and the end of the stream.                                 *)
(*                                                                         *)
(* A request is suspended, and others run, while its body is read, while   *)
(* it waits for the scheduler, for the telemetry probe, for the upstream   *)
(* and between two chunks.  An action is what it does from one suspension  *)
(* to the next.  The administrator may change keys, providers and settings *)
(* at any suspension.                                                      *)
(***************************************************************************)
EXTENDS Integers, FiniteSets

CONSTANTS
  Requests,    \* request slots; a slot is used again after its request ended
  Keys,        \* proxy API keys (opx_...)
  Models,
  Slugs,       \* slugs of providers, of whatever kind
  Ollama,      \* the local Ollama
  Session,     \* the cookie of the GUI, in place of a key
  None,
  Shapes,      \* what clients send: see ShapeType
  Policies,    \* what the administrator may set for a key
  Rows,        \* what the administrator may set for a provider
  FirstPolicy, FirstRow,  \* the tables at start: [Keys -> Policies], [Slugs -> Rows]
  MaxChanges   \* bound: how often the administrator changes something

Dests == Slugs \cup {Ollama}

(* A path stands for the classes the code's patterns sort it into: chat is *)
(* inference and scheduled, speech is inference only, embed is scheduled   *)
(* only, tags is a list of models, show is none of these.  An odd path or  *)
(* header is one no request can be built from (httpx.InvalidURL).          *)
ShapeType ==
  [road : Dests, post : BOOLEAN, path : {"chat", "speech", "embed", "tags", "show"},
   model : Models \cup {None}, by : Keys \cup {Session, None}, patient : BOOLEAN,
   odd : BOOLEAN]

(* An empty set of slugs or of models means all of them.                   *)
PolicyType == [valid : BOOLEAN, admin : BOOLEAN, slugs : SUBSET Slugs, models : SUBSET Models]
(* A provider of kind gpu shares the card with Ollama.  Kind and base_url  *)
(* may be changed at any time; base_url need not be an address.            *)
RowType == [exists : BOOLEAN, enabled : BOOLEAN, gpu : BOOLEAN, address : BOOLEAN,
            serves : SUBSET Models]

ASSUME ProxyAssumption ==
  /\ IsFiniteSet(Requests)
  /\ Ollama \notin Slugs /\ None \notin Dests
  /\ Session \notin Keys /\ None \notin Keys \cup Models \cup Shapes \cup {Session}
  /\ Shapes \subseteq ShapeType /\ Policies \subseteq PolicyType /\ Rows \subseteq RowType
  /\ FirstPolicy \in [Keys -> Policies] /\ FirstRow \in [Slugs -> Rows]
  /\ MaxChanges \in Nat

VARIABLES
  req,         \* the requests
  inFlight,    \* the scheduler's slots per model
  active,      \* telemetry._active, the "concurrent" of the log
  policy,      \* the table api_keys
  rows,        \* the table providers
  requireKey,  \* the setting ollama_require_key
  changes,
  stale        \* requests whose provider changed its kind since they read its row (history)

tables == <<policy, rows, requireKey, changes>>
vars == <<req, inFlight, active, tables, stale>>

(* Somebody the proxy recognised: a copy of the row, read on arrival.      *)
PrincipalType ==
  [id : Keys \cup {Session, None}, admin : BOOLEAN, slugs : SUBSET Slugs, models : SUBSET Models]
Nobody == [id |-> None, admin |-> FALSE, slugs |-> {}, models |-> {}]
Operator == [id |-> Session, admin |-> TRUE, slugs |-> {}, models |-> {}]

(* What of the row read once is used later: _forward_provider's prov.      *)
ProvType == [gpu : BOOLEAN, address : BOOLEAN]
OllamaProv == [gpu |-> FALSE, address |-> TRUE]
RowRead(s) == [gpu |-> rows[s].gpu, address |-> rows[s].address]

(* "cut" is an answer whose generator did not come to its end.             *)
Answers ==
  {"none", "200", "401", "403 provider", "403 model", "404", "429", "500", "502", "503", "cut"}
PC == {"idle", "body", "waiting", "telemetry", "sent", "streaming", "done"}
Fresh == [pc |-> "idle", shape |-> None, who |-> Nobody, dest |-> None, prov |-> OllamaProv,
          slot |-> None, logged |-> 0, answer |-> "none"]
ReqType == [pc : PC, shape : Shapes \cup {None}, who : PrincipalType, dest : Dests \cup {None},
            prov : ProvType, slot : Models \cup {None}, logged : Nat, answer : Answers]

TypeOK ==
  /\ req \in [Requests -> ReqType]
  /\ inFlight \in [Models -> Nat]
  /\ active \in Nat
  /\ policy \in [Keys -> Policies] /\ rows \in [Slugs -> Rows]
  /\ requireKey \in BOOLEAN /\ changes \in 0..MaxChanges
  /\ stale \subseteq Requests

Init ==
  /\ req = [r \in Requests |-> Fresh]
  /\ inFlight = [m \in Models |-> 0]
  /\ active = 0 /\ stale = {}
  /\ policy = FirstPolicy /\ rows = FirstRow
  /\ requireKey = FALSE /\ changes = 0

-----------------------------------------------------------------------------
(* auth.py: principals and what they may                                   *)

(* A key that looks like ours and is not valid is nobody.                  *)
Principal(by) ==
  IF by = Session THEN Operator
  ELSE IF by \in Keys /\ policy[by].valid
       THEN [id |-> by, admin |-> policy[by].admin,
             slugs |-> policy[by].slugs, models |-> policy[by].models]
       ELSE Nobody

MayUse(p, slug) == p.admin \/ p.slugs = {} \/ slug \in p.slugs
ModelAllowed(patterns, m) == patterns = {} \/ m \in patterns
MayModel(p, m) == ModelAllowed(p.models, m)

(* db.py: the GPU service that serves a model                              *)
GpuProviders == {s \in Slugs : rows[s].exists /\ rows[s].enabled /\ rows[s].gpu}
Serving(m) == {s \in GpuProviders : m \in rows[s].serves}
ProviderForModel(m) == IF Serving(m) = {} THEN Ollama ELSE CHOOSE s \in Serving(m) : TRUE

Inference(q) == q.post /\ q.path \in {"chat", "speech"}
SchedPath(q) == q.path \in {"chat", "embed"}
ListPath(q) == ~q.post /\ q.path = "tags"
One(b) == IF b THEN 1 ELSE 0

-----------------------------------------------------------------------------
(* Arrival, up to the await of the body                                    *)

Ended(x, code, logged) ==
  [x EXCEPT !.pc = "done", !.answer = code, !.logged = @ + One(logged)]
Answer(r, code, logged) == req' = [req EXCEPT ![r] = Ended(req[r], code, logged)]

ArriveAtRoot(r, q) ==
  /\ q.road = Ollama
  /\ LET p == Principal(q.by) IN
     req' = [req EXCEPT ![r] =
               IF requireKey /\ p = Nobody
               THEN [Fresh EXCEPT !.pc = "done", !.shape = q, !.answer = "401"]
               ELSE [Fresh EXCEPT !.pc = "body", !.shape = q, !.who = p]]

(* The row of the provider is read here and used to the end.               *)
ProviderVerdict(q) ==
  LET p == Principal(q.by) IN
  IF ~(rows[q.road].exists /\ rows[q.road].enabled) THEN "404"
  ELSE IF p = Nobody THEN "401"
  ELSE IF ~MayUse(p, q.road) THEN "403 provider" ELSE "none"

ArriveAtProvider(r, q) ==
  /\ q.road \in Slugs
  /\ req' = [req EXCEPT ![r] =
               [Fresh EXCEPT !.pc = IF ProviderVerdict(q) = "none" THEN "body" ELSE "done",
                             !.shape = q, !.who = Principal(q.by), !.dest = q.road,
                             !.prov = RowRead(q.road),
                             !.answer = ProviderVerdict(q)]]

Arrive(r) ==
  /\ req[r].pc = "idle"
  /\ \E q \in Shapes : ArriveAtRoot(r, q) \/ ArriveAtProvider(r, q)
  /\ stale' = stale \ {r}
  /\ UNCHANGED <<inFlight, active, tables>>

-----------------------------------------------------------------------------
(* forward, from the slot to the answer of the upstream                    *)

Counted(r) == Inference(req[r].shape)

(* build_request and send, for a request x about to leave.  build_request  *)
(* stands before the try: what it raises gives nothing back.               *)
Unsendable(x) == x.shape.odd \/ ~x.prov.address

Emit(r, x, slots, running) ==
  /\ req' = [req EXCEPT ![r] = IF Unsendable(x) THEN Ended(x, "500", FALSE)
                                                ELSE [x EXCEPT !.pc = "sent"]]
  /\ inFlight' = slots
  /\ active' = running

(* After acquire: bump, and the telemetry probe of the local Ollama.       *)
Onward(r, x, slots) ==
  IF Inference(x.shape) /\ x.dest = Ollama
  THEN /\ req' = [req EXCEPT ![r] = [x EXCEPT !.pc = "telemetry"]]
       /\ inFlight' = slots
       /\ active' = active + 1
  ELSE Emit(r, x, slots, active + One(Inference(x.shape)))

(* acquire returns. Beside whom it lets a caller in is GpuScheduler's.     *)
Granted(r) ==
  /\ req[r].pc = "waiting"
  /\ Onward(r, req[r], [inFlight EXCEPT ![req[r].slot] = @ + 1])
  /\ UNCHANGED <<tables, stale>>

(* X-Opx-Wait ran out: 503, and the slot was never taken.                  *)
WaitLimited(r) == ~req[r].shape.patient

Unlogged503(r) ==                                                             \* Mutant
  /\ req[r].pc = "waiting" /\ WaitLimited(r) /\ Answer(r, "503", FALSE)
  /\ UNCHANGED <<inFlight, active, tables, stale>>
WaitEnds(r) ==
  /\ req[r].pc = "waiting"
  /\ WaitLimited(r)
  /\ Answer(r, "503", Counted(r))
  /\ UNCHANGED <<inFlight, active, tables, stale>>

TelemetryAnswers(r) ==
  /\ req[r].pc = "telemetry"
  /\ Emit(r, req[r], inFlight, active)
  /\ UNCHANGED <<tables, stale>>

(* What a request gives back, in the except of send and in the finally of  *)
(* the stream: its slot (scheduler.release) and its place in the count.    *)
SlotBack(r) ==
  inFlight' = IF req[r].slot = None THEN inFlight
              ELSE [inFlight EXCEPT ![req[r].slot] = IF @ > 0 THEN @ - 1 ELSE 0]
CountBack(r) == active' = active - One(Counted(r))
GiveBack(r) == SlotBack(r) /\ CountBack(r)

KeepsSlot(r) ==                                                               \* Mutant
  /\ req[r].pc = "sent" /\ Answer(r, "502", Counted(r)) /\ CountBack(r)
  /\ UNCHANGED <<inFlight, tables, stale>>
SendFails(r) ==
  /\ req[r].pc = "sent"
  /\ Answer(r, "502", Counted(r))
  /\ GiveBack(r)
  /\ UNCHANGED <<tables, stale>>

(* A list for a restricted key is read whole and cut; the rest streams.    *)
ListToCut(r) == ListPath(req[r].shape) /\ req[r].who.models # {}

UpstreamAnswers(r) ==
  /\ req[r].pc = "sent"
  /\ \/ req' = [req EXCEPT ![r].pc = "streaming"]
     \/ /\ ListToCut(r)
        /\ \E code \in {"200", "500"} : Answer(r, code, FALSE)
  /\ UNCHANGED <<inFlight, active, tables, stale>>

(* The generator ends: the stream did, the upstream broke, the client left.*)
StreamEnds(r) ==
  /\ req[r].pc = "streaming"
  /\ Answer(r, "200", Counted(r))
  /\ GiveBack(r)
  /\ UNCHANGED <<tables, stale>>

(* Its finally is cut short, by what aclose raises, or it was never begun  *)
(* (the client was gone before the head of the answer): nothing is given   *)
(* back and nothing logged.                                                *)
StreamCut(r) ==
  /\ req[r].pc = "streaming"
  /\ Answer(r, "cut", FALSE)
  /\ UNCHANGED <<inFlight, active, tables, stale>>

-----------------------------------------------------------------------------
(* The body is there: the checks on the model, the limit, the destination  *)

(* slot: POST with a model to a GPU service; scheduled paths of Ollama.    *)
OnlyScheduledPaths(q, dest, prov) ==                                          \* Mutant
  IF q.post /\ SchedPath(q) /\ (prov.gpu \/ dest = Ollama) THEN q.model ELSE None
SlotFor(q, dest, prov) ==
  IF q.post /\ (prov.gpu \/ (dest = Ollama /\ SchedPath(q))) THEN q.model ELSE None

(* By slug the row was read on arrival, by model it is read here.          *)
ProvOf(r, dest) ==
  IF req[r].shape.road = Ollama /\ dest # Ollama THEN RowRead(dest) ELSE req[r].prov

Forward(r, dest) ==
  LET prov == ProvOf(r, dest)
      slot == SlotFor(req[r].shape, dest, prov)
      x == [req[r] EXCEPT !.dest = dest, !.prov = prov, !.slot = slot]
  IN IF slot # None
     THEN req' = [req EXCEPT ![r] = [x EXCEPT !.pc = "waiting"]] /\ UNCHANGED <<inFlight, active>>
     ELSE Onward(r, x, inFlight)

(* The limiter has the last word, for keys and inference only.             *)
RateLimited(r) ==
  req[r].who.id \in Keys /\ Counted(r) /\ Answer(r, "429", TRUE)
DenyModel(r) == Answer(r, "403 model", Inference(req[r].shape))

CheckedForward(r, dest) ==
  LET m == req[r].shape.model IN
  IF m # None /\ ~MayModel(req[r].who, m)
  THEN DenyModel(r) /\ UNCHANGED <<inFlight, active>>
  ELSE \/ RateLimited(r) /\ UNCHANGED <<inFlight, active>>
       \/ Forward(r, dest)

(* A POST for a model of a GPU service goes to the service, and for that   *)
(* the key is asked for at this point.                                     *)
RoutesWithoutAsking(r, dest) ==                                               \* Mutant
  IF dest # Ollama /\ req[r].who = Nobody THEN "401" ELSE "none"
RoutedVerdict(r, dest) ==
  IF dest = Ollama THEN "none"
  ELSE IF req[r].who = Nobody THEN "401"
  ELSE IF ~MayUse(req[r].who, dest) THEN "403 provider" ELSE "none"

Destination(q) ==
  IF q.road # Ollama THEN q.road
  ELSE IF q.post /\ q.model # None THEN ProviderForModel(q.model) ELSE Ollama

BodyRead(r) ==
  /\ req[r].pc = "body"
  /\ LET dest == Destination(req[r].shape)
         verdict == IF req[r].shape.road = Ollama THEN RoutedVerdict(r, dest) ELSE "none"
     IN IF verdict # "none"
        THEN Answer(r, verdict, FALSE) /\ UNCHANGED <<inFlight, active>>
        ELSE CheckedForward(r, dest)
  /\ UNCHANGED <<tables, stale>>

-----------------------------------------------------------------------------
(* The record of an ended request is used for the next one, unless the    *)
(* request left something behind: then it stays, as the mark of that.      *)
Lost(r) == req[r].pc = "done" /\ req[r].answer \in {"500", "cut"}
Retire(r) ==
  /\ req[r].pc = "done"
  /\ Lost(r) => req[r].slot = None /\ ~Counted(r)
  /\ req' = [req EXCEPT ![r] = Fresh]
  /\ UNCHANGED <<inFlight, active, tables, stale>>

(* Requests that are under way with the row of s, or with none yet.        *)
UnderWay(s) == {r \in Requests : req[r].pc \notin {"idle", "done"} /\ req[r].dest = s}

Administrate ==
  /\ changes < MaxChanges
  /\ changes' = changes + 1
  /\ \/ \E k \in Keys, p \in Policies :
          policy' = [policy EXCEPT ![k] = p] /\ UNCHANGED <<rows, requireKey, stale>>
     \/ \E s \in Slugs, w \in Rows :
          /\ rows' = [rows EXCEPT ![s] = w]
          /\ stale' = IF rows[s].gpu = w.gpu THEN stale ELSE stale \cup UnderWay(s)
          /\ UNCHANGED <<policy, requireKey>>
     \/ requireKey' = ~requireKey /\ UNCHANGED <<policy, rows, stale>>
  /\ UNCHANGED <<req, inFlight, active>>

(* Scheduler and counter live in memory, the tables on disk.               *)
Restart ==
  /\ req' = [r \in Requests |-> Fresh]
  /\ inFlight' = [m \in Models |-> 0]
  /\ active' = 0 /\ stale' = {}
  /\ UNCHANGED tables

Step(r) == \/ BodyRead(r) \/ Granted(r) \/ WaitEnds(r) \/ TelemetryAnswers(r)
           \/ SendFails(r) \/ UpstreamAnswers(r) \/ StreamEnds(r) \/ StreamCut(r)

Next == \/ \E r \in Requests : Arrive(r) \/ Step(r) \/ Retire(r)
        \/ Administrate \/ Restart

Spec == Init /\ [][Next]_vars

-----------------------------------------------------------------------------
(* Properties                                                              *)

Upstream(r) == req[r].pc \in {"telemetry", "sent", "streaming"}
Keeps(r) == Upstream(r) \/ Lost(r)
Holders(m) == {r \in Requests : Keeps(r) /\ req[r].slot = m}
Counting == {r \in Requests : Keeps(r) /\ Counted(r)}

(* Every slot of the scheduler and every place in the count of running     *)
(* inference (telemetry.bump) belongs to one request: one that is on its   *)
(* way, or one that ended in one of the two ways that give nothing back -  *)
(* build_request raised (proxy.py 257), the finally was not reached or cut *)
(* short (proxy.py 296-300).  On every other way, over the answers 403,    *)
(* 429, 502, 503 and the end of the stream, acquire and release are paired *)
(* (proxy.py 234-326): nothing is kept and nothing given back twice.       *)
SlotsReturned == \A m \in Models : inFlight[m] = Cardinality(Holders(m))
CountReturned == active = Cardinality(Counting)
GivenBackOnce == TypeOK /\ SlotsReturned /\ CountReturned

(* False: only what is on its way holds a slot or is counted.              *)
NothingLost == \A r \in Requests : Lost(r) => req[r].slot = None /\ ~Counted(r)

(* By whichever road, by slug or by model, nothing gets on its way to a    *)
(* provider without a principal that may use it, nor to a model its key    *)
(* does not list, going by the rights the key had when the request came    *)
(* (proxy.py 349-369 and 399-427 ask in different orders and at different  *)
(* times; a right withdrawn since is not looked at again).                 *)
OnlyEntitled ==
  \A r \in Requests : req[r].pc = "waiting" \/ Upstream(r) =>
    LET q == req[r].shape  p == req[r].who IN
    /\ req[r].dest \in Slugs => p # Nobody /\ MayUse(p, req[r].dest)
    /\ q.model # None => MayModel(p, q.model)

(* A POST with a model on its way to what is now a service on the card     *)
(* holds a slot for that model, whatever its path (docs/API.md:36), unless *)
(* the kind of the provider was changed since the request read its row: by *)
(* slug that is before its body is awaited (proxy.py 351 and 391).         *)
CardNeedsSlot ==
  \A r \in Requests \ stale :
    Upstream(r) /\ req[r].shape.post /\ req[r].dest \in Slugs /\ rows[req[r].dest].gpu =>
      req[r].slot = req[r].shape.model

(* False: the same of every request, whatever was changed.                 *)
CardAlwaysNeedsSlot ==
  \A r \in Requests :
    Upstream(r) /\ req[r].shape.post /\ req[r].dest \in Slugs /\ rows[req[r].dest].gpu =>
      req[r].slot = req[r].shape.model

(* A request writes one row of the log if it is inference and was refused  *)
(* for its model, limited, gave up waiting, could not be sent or came to   *)
(* the end of its stream; otherwise none.  That leaves out inference that  *)
(* was refused before its model was looked at, for which no request could  *)
(* be built (proxy.py 257) and whose finally was cut short.                *)
LoggedOnce ==
  \A r \in Requests :
    req[r].logged = One(/\ req[r].answer \in {"200", "403 model", "429", "502", "503"}
                        /\ Counted(r))

(* False: inference that was let in has its row when it is over.           *)
InferenceIsLogged ==
  \A r \in Requests :
    req[r].pc = "done" /\ Counted(r) /\ req[r].answer \notin {"401", "403 provider", "404"}
    => req[r].logged = 1
=============================================================================
