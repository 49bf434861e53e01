---------------------------- MODULE GpuScheduler ----------------------------
(***************************************************************************)
(* The GPU model scheduler, src/ollamaproxy/scheduler.py: who may use the  *)
(* one graphics card now, who waits, and when the card is handed from one  *)
(* model, or one backend, to another.                                      *)
(*                                                                         *)
(* asyncio runs a task without interruption between two awaits, so one     *)
(* action here is what one task does from one suspension to the next.  The *)
(* only awaits inside the scheduler are the sleep of a waiter              *)
(* (wait_for(event.wait(), tick)), the eviction of a backend, and          *)
(* loaded(), which answers at once from its one-second cache or else       *)
(* suspends on the network.  ProbeSuspends says whether the latter can     *)
(* happen: FALSE is a probe that never lets another task in (the cache,    *)
(* the probe of the unit tests), TRUE is the network.                      *)
(*                                                                         *)
(* Data that is abstracted: a timestamp is what the code compares it with  *)
(* (the order of the waiters, "waits longer than max_wait_s", "less than   *)
(* hold_s since the last interactive request"); what loaded() answers is   *)
(* any set of models, the empty set of a failed probe included, because    *)
(* the card's memory belongs to Ollama and to the GPU services.            *)
(*                                                                         *)
(* A probe asks because of what the fields said before it, and its answer  *)
(* is acted upon without a second look.  The history variable stale is     *)
(* TRUE from an answer that came too late, when what made the code ask no  *)
(* longer held, until the card is next empty: what the docstring promises  *)
(* is what holds while it is FALSE.                                        *)
(***************************************************************************)
EXTENDS Integers, FiniteSets

CONSTANTS
  Req,            \* callers of acquire: a slot is used again after release
  Models, Backends,
  ReqModel,       \* the model a caller asks for
  Backend,        \* backend_of: "ollama" or the slug of a GPU service
  Interactive,    \* callers with interactive = True; the others are queued jobs
  Impatient,      \* callers that pass a timeout (X-Opx-Wait, /models/load)
  Returning,      \* callers that pass since (repeated /models/load)
  None,
  ProbeSuspends,  \* loaded() may suspend on the network
  MaxKicks,       \* bound: _maybe_switch tasks created by release, not yet over
  MaxEvictTasks   \* bound: evictions towards one model that overlap

ASSUME RequestsAssumption ==
  /\ IsFiniteSet(Req)
  /\ ReqModel \in [Req -> Models]
  /\ Interactive \subseteq Req
  /\ Impatient \subseteq Req
  /\ Returning \subseteq Req
ASSUME ModelsAssumption == Backend \in [Models -> Backends]
ASSUME NoneAssumption == None \notin Models \cup Backends \cup Req
ASSUME BoundsAssumption == /\ ProbeSuspends \in BOOLEAN
                           /\ MaxKicks \in Nat
                           /\ MaxEvictTasks \in Nat \ {0}

VARIABLES
  sched,   \* the fields of the ModelScheduler object
  pc,      \* where each caller is
  probes,  \* _maybe_switch calls suspended in loaded(): who, and oldest.model
  kicks,   \* _maybe_switch tasks created by release that have not run yet
  stale    \* history: an answer was acted upon too late, and its effect lasts

vars == <<sched, pc, probes, kicks, stale>>

PC == {"idle",     \* not in the scheduler
       "foreign",  \* in acquire, suspended in _foreign_loaded
       "beside",   \* in acquire, suspended in the last loaded() of _can_run
       "wait",     \* asleep in wait_for(event.wait(), tick)
       "hold",     \* a waiter suspended in the hold probe of _maybe_switch
       "run",      \* acquire has returned: the request runs
       "bypass"}   \* the same, started while the scheduler was switched off

SchedType ==
  [enabled: BOOLEAN,
   admitted: Models \cup {None},
   draining: BOOLEAN,
   inFlight: [Models -> Nat],
   interactiveRunning: Nat,
   hold: BOOLEAN,                    \* now - last_interactive_done < hold_s
   waiting: SUBSET Req,
   older: [Req -> SUBSET Req],       \* the callers in line with an earlier since
   starved: SUBSET Req,              \* the waiters with now - since > max_wait_s
   event: SUBSET Req,                \* callers whose Waiter.event is set
   evicting: Models \cup {None},
   evictTasks: [Models -> Nat]]      \* running _evict_and_switch, by target

TypeOK ==
  /\ sched \in SchedType
  /\ pc \in [Req -> PC]
  /\ probes \subseteq [by: Req \cup {None}, target: Models]
  /\ kicks \in Nat
  /\ stale \in BOOLEAN

Init ==
  /\ sched = [enabled |-> TRUE, admitted |-> None, draining |-> FALSE,
              inFlight |-> [m \in Models |-> 0], interactiveRunning |-> 0,
              hold |-> FALSE, waiting |-> {}, older |-> [r \in Req |-> {}],
              starved |-> {}, event |-> {}, evicting |-> None,
              evictTasks |-> [m \in Models |-> 0]]
  /\ pc = [r \in Req |-> "idle"]
  /\ probes = {}
  /\ kicks = 0
  /\ stale = FALSE

(* The requests let through: those that run, those released that have not  *)
(* run yet; and, with those that passed the switched-off scheduler, all    *)
(* that hold a slot.                                                       *)
Granted == {r \in Req : pc[r] \in {"wait", "hold"} /\ r \in sched.event}
Scheduled == {r \in Req : pc[r] = "run"} \cup Granted
Holders == Scheduled \cup {r \in Req : pc[r] = "bypass"}
HoldersOf(m) == {r \in Holders : ReqModel[r] = m}

CardEmpty == /\ Scheduled = {}
             /\ sched.evicting = None
             /\ \A m \in Models : sched.evictTasks[m] = 0

(* What late answers did is over once the card is empty.                   *)
Remember(late) == stale' = (late \/ (stale /\ ~CardEmpty'))

-----------------------------------------------------------------------------
(* The queue of waiters.  self.waiting is a list; only the order of since *)
(* is ever read, so it is a set with the relation "older than".           *)

(* Who has a since already: the waiters, and the callers still suspended   *)
(* in _can_run (t0 is taken before it).                                    *)
Line == sched.waiting \cup {r \in Req : pc[r] \in {"foreign", "beside"}}

(* A caller arrives.  Its since is t0, behind everybody in line, unless it *)
(* passes an earlier one.                                                  *)
Places(r) ==
  IF r \in Returning
  THEN {ahead \in SUBSET Line : \A w \in ahead : sched.older[w] \subseteq ahead}
  ELSE {Line}

Arrive(r, ahead) ==
  [sched EXCEPT !.older = [w \in Req |-> IF w = r THEN ahead
                                         ELSE IF w \in Line \ ahead THEN @[w] \cup {r}
                                         ELSE @[w]]]

(* A new Waiter.  Whoever passed since, or spent a while in the probe, may *)
(* be older than max_wait_s at once.                                       *)
Ages(s, r) ==
  {aged \in BOOLEAN :
     /\ aged => /\ r \in Returning \/ pc[r] # "idle"
                /\ s.older[r] \cap s.waiting \subseteq s.starved
     /\ (\E w \in s.starved : r \in s.older[w]) => aged}

Join(s, r, aged) ==
  [s EXCEPT !.waiting = s.waiting \cup {r},
            !.starved = IF aged THEN s.starved \cup {r} ELSE s.starved]

Leave(s, gone) ==
  [s EXCEPT !.waiting = s.waiting \ gone,
            !.starved = s.starved \ gone,
            !.older = [w \in Req |-> IF w \in gone THEN {} ELSE s.older[w] \ gone]]

(* Mutant: jobs are never considered. *)
PoolWithoutJobs(s) == s.waiting \cap Interactive

(* Interactive requests go before queued jobs. *)
Pool(s) == IF s.waiting \cap Interactive # {} THEN s.waiting \cap Interactive
                                              ELSE s.waiting

Oldest(s) == {w \in Pool(s) : s.older[w] \cap Pool(s) = {}}

-----------------------------------------------------------------------------
(* The methods of ModelScheduler, as the states they turn s into. *)

One(b) == IF b THEN 1 ELSE 0
Add(count, m, n) == [count EXCEPT ![m] = @ + n]

Start(s, r) ==
  [s EXCEPT !.inFlight = Add(s.inFlight, ReqModel[r], 1),
            !.interactiveRunning = s.interactiveRunning + One(r \in Interactive)]

(* Mutant: running jobs are overlooked. *)
BusyWithPeople(s) == s.interactiveRunning > 0

Busy(s) == \E m \in Models : s.inFlight[m] > 0

(* release, without the task it creates. *)
Less(count, m) == [count EXCEPT ![m] = IF @ > 0 THEN @ - 1 ELSE 0]

FreeSlot(s, r) ==
  [s EXCEPT !.inFlight = Less(s.inFlight, ReqModel[r]),
            !.interactiveRunning = IF s.interactiveRunning > 0
                                   THEN s.interactiveRunning - One(r \in Interactive)
                                   ELSE 0,
            !.hold = s.hold \/ r \in Interactive,
            !.event = s.event \ {r}]

(* The waiters for m are released at once, and counted before they run. *)
SwitchTo(s, m) ==
  LET released == {w \in s.waiting : ReqModel[w] = m}
  IN [Leave(s, released) EXCEPT
        !.admitted = m,
        !.draining = FALSE,
        !.inFlight = Add(s.inFlight, m, Cardinality(released)),
        !.interactiveRunning =
            s.interactiveRunning + Cardinality(released \cap Interactive),
        !.event = s.event \cup released]

(* Mutant: no eviction between backends. *)
NeverCrosses(s, m) == FALSE

CrossesBackends(s, m) == s.admitted # None /\ Backend[s.admitted] # Backend[m]

BeginSwitch(s, m) ==
  IF CrossesBackends(s, m)
  THEN [s EXCEPT !.evicting = m, !.evictTasks = Add(s.evictTasks, m, 1)]
  ELSE SwitchTo(s, m)

(* Mutant: evicting is not reset when the eviction ends. *)
EvictedStuck(s, m) ==
  SwitchTo([s EXCEPT !.evictTasks = Add(s.evictTasks, m, -1)], m)

(* _evict_and_switch after the evictor returned, failed or timed out: the  *)
(* three only differ in last_evict_error, a text nobody decides upon.      *)
Evicted(s, m) ==
  SwitchTo([s EXCEPT !.evicting = None, !.evictTasks = Add(s.evictTasks, m, -1)], m)

Holding(s, w) == /\ w \notin s.starved
                 /\ s.admitted # None
                 /\ s.hold

Quiet(s) == s.waiting = {} \/ s.evicting # None

(* Mutant: starvation does not set draining. *)
PassWithoutDraining(s, w) ==
  IF Busy(s)
  THEN {s}
  ELSE {BeginSwitch(s, ReqModel[w])} \cup (IF Holding(s, w) THEN {s} ELSE {})

(* A call of _maybe_switch that is not suspended: the states it can leave. *)
(* While the hold lasts, loaded() decides: the admitted model is still in  *)
(* memory (s stays) or it is not (switch).                                 *)
PassFor(s, w) ==
  IF Busy(s)
  THEN {[s EXCEPT !.draining = s.draining \/ w \in s.starved]}
  ELSE {BeginSwitch(s, ReqModel[w])} \cup (IF Holding(s, w) THEN {s} ELSE {})

MaybeSwitch(s) ==
  IF Quiet(s) THEN {s} ELSE UNION {PassFor(s, w) : w \in Oldest(s)}

(* The models a call suspended in the hold probe may have picked. *)
HoldTargets(s) ==
  IF ~ProbeSuspends \/ Quiet(s) \/ Busy(s)
  THEN {}
  ELSE {ReqModel[w] : w \in {v \in Oldest(s) : Holding(s, v)}}

-----------------------------------------------------------------------------
(* acquire, from one suspension to the next. *)

Begin(r, s) ==
  /\ sched' = Start(Leave(s, {r}), r)
  /\ pc' = [pc EXCEPT ![r] = "run"]
  /\ UNCHANGED probes

(* Mutant: a waiter that is out of time stays in the queue. *)
SettleInQueue(r, s) ==
  \/ r \in s.event /\ sched' = s /\ pc' = [pc EXCEPT ![r] = "run"]
  \/ r \notin s.event /\ r \in Impatient /\ sched' = s /\ pc' = [pc EXCEPT ![r] = "idle"]
  \/ r \notin s.event /\ sched' = s /\ pc' = [pc EXCEPT ![r] = "wait"]

(* After _maybe_switch: released, out of time, or asleep for one more tick. *)
Settle(r, s) ==
  \/ /\ r \in s.event
     /\ sched' = s
     /\ pc' = [pc EXCEPT ![r] = "run"]
  \/ /\ r \notin s.event
     /\ r \in Impatient
     /\ sched' = Leave(s, {r})
     /\ pc' = [pc EXCEPT ![r] = "idle"]
  \/ /\ r \notin s.event
     /\ sched' = s
     /\ pc' = [pc EXCEPT ![r] = "wait"]

Poll(r, s) ==
  \/ \E t \in MaybeSwitch(s) : Settle(r, t) /\ UNCHANGED probes
  \/ \E m \in HoldTargets(s) :
       /\ sched' = s
       /\ pc' = [pc EXCEPT ![r] = "hold"]
       /\ probes' = probes \cup {[by |-> r, target |-> m]}

Enqueue(r, s) == \E aged \in Ages(s, r) : Poll(r, Join(s, r, aged))

(* _can_run: the branches that answer without a probe. *)
NeedsForeignProbe(s) == s.evicting = None /\ s.admitted = None

(* Mutant: a model of another backend may run beside the admitted one. *)
BesideAnyBackend(s, r) ==
  s.evicting = None /\ s.admitted \notin {None, ReqModel[r]} /\ ~s.draining

NeedsBesideProbe(s, r) ==
  /\ s.evicting = None
  /\ s.admitted \notin {None, ReqModel[r]}
  /\ ~s.draining
  /\ Backend[s.admitted] = Backend[ReqModel[r]]

(* Mutants: the admitted model goes straight during an eviction; while the *)
(* card is drained.                                                        *)
StraightWhileEvicting(s, r) == s.admitted = ReqModel[r] /\ ~s.draining
StraightWhileDraining(s, r) == s.evicting = None /\ s.admitted = ReqModel[r]

GoesStraight(s, r) ==
  s.evicting = None /\ s.admitted = ReqModel[r] /\ ~s.draining

(* _can_run after _foreign_loaded: a model of another backend found in     *)
(* memory becomes the admitted one and the caller queues.                  *)
ForeignVerdict(r, s) ==
  \E names \in SUBSET Models :
    LET foreign == {n \in names : Backend[n] # Backend[ReqModel[r]]}
    IN \/ /\ foreign = {}
          /\ Begin(r, [s EXCEPT !.admitted = ReqModel[r]])
       \/ \E f \in foreign : Enqueue(r, [s EXCEPT !.admitted = f])

(* _can_run after its last probe: admitted is read now, not before it.     *)
Together(r, s, names) == {s.admitted, ReqModel[r]} \subseteq names

BesideVerdict(r, s) ==
  \E names \in SUBSET Models :
    IF Together(r, s, names) THEN Begin(r, s) ELSE Enqueue(r, s)

Suspend(r, s, where) ==
  /\ ProbeSuspends
  /\ sched' = s
  /\ pc' = [pc EXCEPT ![r] = where]
  /\ UNCHANGED probes

AcquireDisabled(r) ==
  /\ pc[r] = "idle"
  /\ ~sched.enabled
  /\ sched' = Start(sched, r)
  /\ pc' = [pc EXCEPT ![r] = "bypass"]
  /\ UNCHANGED <<probes, kicks>>
  /\ Remember(FALSE)

CanRun(r, s) ==
  \/ NeedsForeignProbe(s) /\ ForeignVerdict(r, s)
  \/ NeedsForeignProbe(s) /\ Suspend(r, s, "foreign")
  \/ GoesStraight(s, r) /\ Begin(r, s)
  \/ NeedsBesideProbe(s, r) /\ BesideVerdict(r, s)
  \/ NeedsBesideProbe(s, r) /\ Suspend(r, s, "beside")
  \/ /\ ~NeedsForeignProbe(s)
     /\ ~GoesStraight(s, r)
     /\ ~NeedsBesideProbe(s, r)
     /\ Enqueue(r, s)

Acquire(r) ==
  /\ pc[r] = "idle"
  /\ sched.enabled
  /\ \E ahead \in Places(r) : CanRun(r, Arrive(r, ahead))
  /\ UNCHANGED kicks
  /\ Remember(FALSE)

(* Late: meanwhile somebody was admitted, or an eviction began.            *)
ForeignAnswer(r) ==
  /\ pc[r] = "foreign"
  /\ ForeignVerdict(r, sched)
  /\ UNCHANGED kicks
  /\ Remember(~NeedsForeignProbe(sched))

(* Late: the caller starts though by now it would have had to queue.       *)
BesideAnswer(r) ==
  /\ pc[r] = "beside"
  /\ \E names \in SUBSET Models :
       IF Together(r, sched, names)
       THEN Begin(r, sched) /\ Remember(/\ ~NeedsBesideProbe(sched, r)
                                       /\ ~GoesStraight(sched, r))
       ELSE Enqueue(r, sched) /\ Remember(FALSE)
  /\ UNCHANGED kicks

(* A waiter wakes: its event is set, or the tick is over. *)
Wake(r) ==
  pc[r] = "wait" /\ Poll(r, sched) /\ UNCHANGED kicks /\ Remember(FALSE)

(* A hold probe answers: the call returns, or switches to the model it had *)
(* picked before it was suspended; nothing is checked again.  Late:        *)
(* something runs by now, or an eviction began.                            *)
Switches(m) == {t \in {BeginSwitch(sched, m)} : t.evictTasks[m] <= MaxEvictTasks}

TooLateToSwitch == Busy(sched) \/ sched.evicting # None

HoldAnswer(r) ==
  \E p \in probes :
    /\ p.by = r
    /\ pc[r] = "hold"
    /\ probes' = probes \ {p}
    /\ UNCHANGED kicks
    /\ \/ Settle(r, sched) /\ Remember(FALSE)
       \/ \E t \in Switches(p.target) : Settle(r, t) /\ Remember(TooLateToSwitch)

-----------------------------------------------------------------------------
(* release, the task it creates, and the cancellation of acquire. *)

KickProbes == {p \in probes : p.by = None}

FreeAndKick(r) ==
  /\ sched.waiting # {} => kicks + Cardinality(KickProbes) < MaxKicks
  /\ kicks' = kicks + One(sched.waiting # {})
  /\ sched' = FreeSlot(sched, r)

Release(r) ==
  /\ pc[r] \in {"run", "bypass"}
  /\ FreeAndKick(r)
  /\ pc' = [pc EXCEPT ![r] = "idle"]
  /\ UNCHANGED probes
  /\ Remember(FALSE)

(* Mutant: a cancelled caller keeps the slot it was released with. *)
CancelForgetful(r) ==
  /\ pc[r] \in {"foreign", "beside", "wait", "hold"}
  /\ sched' = Leave([sched EXCEPT !.event = sched.event \ {r}], {r})
  /\ pc' = [pc EXCEPT ![r] = "idle"]
  /\ probes' = {p \in probes : p.by # r}
  /\ UNCHANGED kicks
  /\ Remember(FALSE)

(* The caller's task is cancelled while it waits in acquire; one that was  *)
(* released already gives its slot back.                                   *)
Cancel(r) ==
  /\ pc[r] \in {"foreign", "beside", "wait", "hold"}
  /\ IF r \in sched.event
     THEN FreeAndKick(r)
     ELSE sched' = Leave(sched, {r}) /\ UNCHANGED kicks
  /\ pc' = [pc EXCEPT ![r] = "idle"]
  /\ probes' = {p \in probes : p.by # r}
  /\ Remember(FALSE)

Kick ==
  /\ kicks > 0
  /\ kicks' = kicks - 1
  /\ \/ sched' \in MaybeSwitch(sched) /\ UNCHANGED probes
     \/ \E m \in HoldTargets(sched) :
          probes' = probes \cup {[by |-> None, target |-> m]} /\ UNCHANGED sched
  /\ UNCHANGED pc
  /\ Remember(FALSE)

KickAnswer ==
  \E p \in KickProbes :
    /\ probes' = probes \ {p}
    /\ UNCHANGED <<pc, kicks>>
    /\ \/ sched' = sched /\ Remember(FALSE)
       \/ sched' \in Switches(p.target) /\ Remember(TooLateToSwitch)

EvictDone ==
  \E m \in Models :
    /\ sched.evictTasks[m] > 0
    /\ sched' = Evicted(sched, m)
    /\ UNCHANGED <<pc, probes, kicks>>
    /\ Remember(FALSE)

-----------------------------------------------------------------------------
(* The administrator's settings and the passing of time. *)

(* sched_enabled, sched_hold_s and sched_max_wait_s are read again: what   *)
(* was long ago may be recent now, and the other way round.                *)
Refresh ==
  \E enabled, hold \in BOOLEAN : \E starved \in SUBSET sched.waiting :
    /\ \A w \in starved : sched.older[w] \cap sched.waiting \subseteq starved
    /\ sched' = [sched EXCEPT !.enabled = enabled, !.hold = hold, !.starved = starved]
    /\ UNCHANGED <<pc, probes, kicks>>
    /\ Remember(FALSE)

(* A waiter passes max_wait_s; the older ones have passed it before. *)
Starve(r) ==
  /\ r \in sched.waiting \ sched.starved
  /\ sched.older[r] \cap sched.waiting \subseteq sched.starved
  /\ sched' = [sched EXCEPT !.starved = @ \cup {r}]
  /\ UNCHANGED <<pc, probes, kicks>>
  /\ Remember(FALSE)

HoldExpires ==
  /\ sched.hold
  /\ sched' = [sched EXCEPT !.hold = FALSE]
  /\ UNCHANGED <<pc, probes, kicks>>
  /\ Remember(FALSE)

-----------------------------------------------------------------------------

CallerNext(r) ==
  \/ AcquireDisabled(r) \/ Acquire(r) \/ ForeignAnswer(r) \/ BesideAnswer(r)
  \/ Wake(r) \/ HoldAnswer(r) \/ Release(r) \/ Cancel(r) \/ Starve(r)

Next == \/ \E r \in Req : CallerNext(r)
        \/ Kick \/ KickAnswer \/ EvictDone \/ Refresh \/ HoldExpires

Spec == Init /\ [][Next]_vars

-----------------------------------------------------------------------------
(* Properties. *)

(* Every slot is counted once and given back once, whoever was released,   *)
(* timed out or cancelled in between (acquire 141-167, release, _start and *)
(* the batch of _switch_to): in_flight and interactive_running are exactly *)
(* the requests that run or have been released to run.                     *)
SlotAccounting ==
  /\ \A m \in Models : sched.inFlight[m] = Cardinality(HoldersOf(m))
  /\ sched.interactiveRunning = Cardinality(Holders \cap Interactive)

(* No waiter is lost: a caller asleep in acquire is either in the queue or *)
(* has its event set, and nobody else is in the queue (acquire 146-167,    *)
(* _switch_to 273-280).                                                    *)
QueueConsistent ==
  /\ sched.waiting = {r \in Req : pc[r] \in {"wait", "hold"}} \ sched.event
  /\ \A r \in sched.event : pc[r] \in {"wait", "hold", "run", "bypass"}

(* "Models of different backends never run side by side" (docstring 18):   *)
(* false once an answer comes too late.                                    *)
NeverSideBySide ==
  \A r \in Scheduled : /\ sched.admitted # None
                       /\ Backend[ReqModel[r]] = Backend[sched.admitted]

(* With probes that suspend: two backends are on the card only after an    *)
(* answer that came too late, and only until the card is next empty; no    *)
(* other interleaving of waiters, cancellations, evictions and settings    *)
(* does it (_can_run 208-223).                                             *)
OneBackend == ~stale => NeverSideBySide

(* "While a backend is being emptied nothing goes to the card" (docstring  *)
(* 20-21, the evicting tests of _can_run and _maybe_switch), unless an     *)
(* answer came too late.                                                   *)
NothingDuringEviction == ~stale /\ sched.evicting # None => Scheduled = {}

(* The card changes hands only when nothing the scheduler let through is   *)
(* running: rule 10 of the docstring, for every interleaving of release,   *)
(* the tasks it creates and the waiters' own ticks (_maybe_switch 233-242, *)
(* _switch_to), unless the switch follows an answer that came too late.    *)
SwitchOnlyWhenIdle ==
  [][~stale /\ ~stale' /\ sched'.admitted # sched.admitted => Scheduled = {}]_vars

(* draining is "somebody starves" (comment at scheduler.py:49): false, it  *)
(* outlives a waiter that gives up.                                        *)
DrainingMeansStarving == sched.draining => sched.starved # {}

(* A card that is being emptied is being emptied by somebody: evicting is  *)
(* never left set without the task that clears it, not even when stale     *)
(* probes start evictions that overlap (_begin_switch 249-250,             *)
(* _evict_and_switch 263-267).                                             *)
EvictingHasTask ==
  sched.evicting # None => sched.evictTasks[sched.evicting] > 0

(* While the card is being drained for a starving waiter, nobody new is    *)
(* let through (docstring 13-14, _can_run 215-218), unless his probe was   *)
(* under way when the draining began.                                      *)
DrainAdmitsNobody ==
  [][~stale /\ ~stale' /\ sched.draining /\ sched'.draining =>
       Scheduled' \subseteq Scheduled]_vars

(* The scheduler implements the abstract card (GpuCard).                   *)
Card == INSTANCE GpuCard WITH
  Nobody <- None,
  BackendOfReq <- [r \in Req |-> Backend[ReqModel[r]]],
  owner <- IF sched.admitted = None THEN None ELSE Backend[sched.admitted],
  users <- Scheduled,
  closed <- sched.evicting # None,
  sound <- ~stale
ImplementsCard == Card!CardSpec

-----------------------------------------------------------------------------
(* Liveness. That requests end is assumed: nothing limits the time between *)
(* two chunks of Ollama's (main.py 104). Probes and evictions answer or    *)
(* time out, the event loop runs what is ready, and a waiter wakes at      *)
(* least every tick; a wake-up is only demanded where its outcome does not *)
(* hang on the hold probe, whose answer nobody promises.                   *)
Fairness ==
  /\ \A r \in Req : /\ WF_vars(Release(r))
                    /\ WF_vars(ForeignAnswer(r))
                    /\ WF_vars(BesideAnswer(r))
                    /\ WF_vars(HoldAnswer(r))
                    /\ WF_vars(Starve(r))
                    /\ WF_vars(r \in sched.starved \cup sched.event /\ Wake(r))
  /\ WF_vars(Kick)
  /\ WF_vars(KickAnswer)
  /\ WF_vars(EvictDone)

FairSpec == Spec /\ Fairness

(* The settings let waiters starve: on, and max_wait_s is not raised.      *)
SettingsKept ==
  /\ <>[]sched.enabled
  /\ <>[][sched.starved \cap sched'.waiting \subseteq sched'.starved]_vars

(* max_wait_s and draining are there so that nobody waits for ever: once   *)
(* the settings stay, an interactive waiter is released (or leaves),       *)
(* however much traffic the admitted model has (docstring 13-14,           *)
(* _maybe_switch 230-236, the draining test of _can_run).                  *)
InteractiveServed ==
  SettingsKept =>
    \A r \in Interactive : r \in sched.waiting ~> r \notin sched.waiting

(* A queued job yields to people but not for ever: once interactive        *)
(* requests stop, it is released (the fallback of pool, _maybe_switch 230, *)
(* and the kick of release 183-185).                                       *)
InteractivePending(s) == s.interactiveRunning > 0 \/ s.waiting \cap Interactive # {}
JobsServedWhenQuiet ==
  SettingsKept /\ <>[]~InteractivePending(sched) =>
    \A r \in Req \ Interactive : r \in sched.waiting ~> r \notin sched.waiting
=============================================================================
