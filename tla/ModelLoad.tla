------------------------------ MODULE ModelLoad -----------------------------
(***************************************************************************)
(* POST /mgmt/v1/models/load (mgmt.py models_load, _load_model): a client  *)
(* asks for a model and calls again until it is told "ready".  A call is   *)
(* suspended while it waits for the scheduler, for the probe of what is in *)
(* memory, and for the task that loads the model; the task holds a slot of *)
(* the scheduler and outlives the call that began it.                      *)
(***************************************************************************)
EXTENDS Integers, FiniteSets

CONSTANTS
  Clients,
  Models,
  Tasks,       \* bound: load tasks that run at a time
  None,
  Expiry,      \* ticks in the 60 s that a place in the queue is kept
  MaxTime      \* bound: ticks

(* An entry of _interest: when the model was first and last asked for.     *)
Entry == [first : Nat, last : Nat]

ASSUME LoadAssumption ==
  /\ IsFiniteSet(Clients) /\ IsFiniteSet(Tasks)
  /\ None \notin Tasks \cup Models \cup Entry
  /\ Expiry \in Nat \ {0} /\ MaxTime \in Nat

VARIABLES
  now,         \* time.monotonic()
  call,        \* the last call of a client
  loading,     \* _loading: the task that loads a model
  interest,    \* _interest: first and last call for a model that is queued
  task,        \* the model a running task loads
  inFlight     \* the scheduler's slots of these calls and tasks

vars == <<now, call, loading, interest, task, inFlight>>

PC == {"idle", "acquiring", "probing", "waiting", "resuming", "answered"}
Statuses == {"none", "queued", "loading", "error", "ready"}
Idle == [pc |-> "idle", model |-> None, since |-> 0, began |-> 0, ended |-> 0,
         task |-> None, status |-> "none", place |-> FALSE]

CallType == [pc : PC, model : Models \cup {None}, since : Nat, began : Nat, ended : Nat,
             task : Tasks \cup {None}, status : Statuses, place : BOOLEAN]

TypeOK ==
  /\ now \in 0..MaxTime
  /\ call \in [Clients -> CallType]
  /\ \A c \in Clients : call[c].since <= call[c].began /\ call[c].began <= now
  /\ loading \in [Models -> Tasks \cup {None}]
  /\ interest \in [Models -> Entry \cup {None}]
  /\ \A m \in Models : interest[m] # None =>
       interest[m].first <= interest[m].last /\ interest[m].last <= now
  /\ task \in [Tasks -> Models \cup {None}]
  /\ inFlight \in [Models -> Nat]

Init ==
  /\ now = 0
  /\ call = [c \in Clients |-> Idle]
  /\ loading = [m \in Models |-> None] /\ interest = [m \in Models |-> None]
  /\ task = [t \in Tasks |-> None]
  /\ inFlight = [m \in Models |-> 0]

-----------------------------------------------------------------------------
(* The call, up to the await of acquire.  Whoever called less than 60 s    *)
(* ago, for the same model, has kept his place in the queue.               *)
SinceLast(m) ==                                                               \* Mutant
  IF interest[m] # None /\ now - interest[m].last < Expiry THEN interest[m].last ELSE now
Since(m) ==
  IF interest[m] # None /\ now - interest[m].last < Expiry THEN interest[m].first ELSE now

Call(c) ==
  /\ call[c].pc \in {"idle", "answered"}
  /\ \E m \in Models :
       LET new == [Idle EXCEPT !.model = m] IN
       IF loading[m] # None
       THEN /\ call' = [call EXCEPT ![c] = [new EXCEPT !.pc = "waiting", !.task = loading[m]]]
            /\ UNCHANGED interest
       ELSE /\ call' = [call EXCEPT ![c] = [new EXCEPT !.pc = "acquiring", !.began = now,
                                                     !.since = Since(m), !.place = TRUE]]
            /\ interest' = [interest EXCEPT ![m] = [first |-> Since(m), last |-> now]]
  /\ UNCHANGED <<now, loading, task, inFlight>>

(* What the next call of the same client is judged by is kept, no more.    *)
Answered(c, status) ==
  IF status = "queued" /\ call[c].place
  THEN [call[c] EXCEPT !.pc = "answered", !.status = "queued", !.ended = now]
  ELSE [Idle EXCEPT !.pc = "answered", !.status = status]

(* A call gives up after its wait_s, which may be any time.                *)
WaitsForEver(c) ==                                                            \* Mutant
  call[c].pc = "acquiring" /\ FALSE /\ UNCHANGED vars
NotAdmitted(c) ==
  /\ call[c].pc = "acquiring"
  /\ call' = [call EXCEPT ![c] = Answered(c, "queued")]
  /\ UNCHANGED <<now, loading, interest, task, inFlight>>

(* acquire returns, at any time: beside whom it lets a caller in is        *)
(* GpuScheduler's.  Whoever is let in ends the interest in the model,      *)
(* everybody's.                                                            *)
Admitted(c) ==
  LET m == call[c].model IN
  /\ call[c].pc = "acquiring"
  /\ interest' = [interest EXCEPT ![m] = None]
  /\ LET later == [d \in Clients |-> [call[d] EXCEPT !.place = @ /\ call[d].model # m]] IN
     IF loading[m] # None
     THEN /\ call' = [later EXCEPT ![c].pc = "waiting", ![c].task = loading[m]]
          /\ UNCHANGED inFlight
     ELSE /\ call' = [later EXCEPT ![c].pc = "probing"]
          /\ inFlight' = [inFlight EXCEPT ![m] = @ + 1]
  /\ UNCHANGED <<now, loading, task>>

(* The probe says the model is there, or says it is not or fails: load it. *)
(* Other requests and evictions bring models into the memory and out of it *)
(* at any time, so the answer may be any.                                  *)
FoundLoaded(c) ==
  /\ call[c].pc = "probing"
  /\ inFlight' = [inFlight EXCEPT ![call[c].model] = @ - 1]
  /\ call' = [call EXCEPT ![c] = Answered(c, "ready")]
  /\ UNCHANGED <<now, loading, interest, task>>

BeginLoad(c) ==
  /\ call[c].pc = "probing"
  /\ \E t \in Tasks :
       /\ task[t] = None
       /\ \A d \in Clients : call[d].task # t
       /\ task' = [task EXCEPT ![t] = call[c].model]
       /\ loading' = [loading EXCEPT ![call[c].model] = t]
       /\ call' = [call EXCEPT ![c].pc = "waiting", ![c].task = t]
  /\ UNCHANGED <<now, interest, inFlight>>

(* The call waits no longer; the task is shielded from it.                 *)
NotLoaded(c) ==
  /\ call[c].pc = "waiting"
  /\ call' = [call EXCEPT ![c] = Answered(c, "loading")]
  /\ UNCHANGED <<now, loading, interest, task, inFlight>>

(* The task ends: the slot goes back, and so does the entry of its model,  *)
(* whosever it is.  Those who wait for it are woken with what it returned. *)
EndKeepsEntry(t) ==                                                           \* Mutant
  /\ task[t] # None
  /\ task' = [task EXCEPT ![t] = None]
  /\ inFlight' = [inFlight EXCEPT ![task[t]] = @ - 1]
  /\ UNCHANGED <<now, call, loading, interest>>
LoadEnds(t) ==
  /\ task[t] # None
  /\ task' = [task EXCEPT ![t] = None]
  /\ loading' = [loading EXCEPT ![task[t]] = None]
  /\ inFlight' = [inFlight EXCEPT ![task[t]] = @ - 1]
  /\ \E result \in {"ready", "error"} :
       call' = [c \in Clients |->
                  IF call[c].pc = "waiting" /\ call[c].task = t
                  THEN [call[c] EXCEPT !.pc = "resuming", !.status = result]
                  ELSE call[c]]
  /\ UNCHANGED <<now, interest>>

Resumes(c) ==
  /\ call[c].pc = "resuming"
  /\ call' = [call EXCEPT ![c] = Answered(c, call[c].status)]
  /\ UNCHANGED <<now, loading, interest, task, inFlight>>

-----------------------------------------------------------------------------
Tick ==
  /\ now < MaxTime
  /\ now' = now + 1
  /\ UNCHANGED <<call, loading, interest, task, inFlight>>

Resumption(c) == NotAdmitted(c) \/ FoundLoaded(c) \/ BeginLoad(c) \/ NotLoaded(c) \/ Resumes(c)

Next ==
  \/ \E c \in Clients : Call(c) \/ Admitted(c) \/ Resumption(c)
  \/ \E t \in Tasks : LoadEnds(t)
  \/ Tick

Spec == Init /\ [][Next]_vars

(* Calls that sleep are woken, at the latest when their wait_s is over; a  *)
(* load ends, by the 600 s of the http client if need be.  SF because only *)
(* the bound Tasks can keep a load from being begun.                       *)
FairSpec ==
  /\ Spec
  /\ \A c \in Clients : WF_vars(Resumption(c)) /\ SF_vars(BeginLoad(c))
  /\ \A t \in Tasks : WF_vars(LoadEnds(t))

-----------------------------------------------------------------------------
(* Properties                                                              *)

(* Every slot is held by a call that probes or by a running task: slots    *)
(* change hands from the call to the task it creates, and come back once,  *)
(* whoever else finds the task or gives up on it (mgmt.py 177-179, 237-246)*)
SlotsOfLoads ==
  \A m \in Models :
    inFlight[m] = Cardinality({c \in Clients : call[c].pc = "probing" /\ call[c].model = m})
                + Cardinality({t \in Tasks : task[t] = m})

(* Whoever waits, waits for a running load of his model: no entry outlives *)
(* its task, although a task pops whatever entry its model has.            *)
WaitsForItsLoad ==
  /\ \A m \in Models : loading[m] # None => task[loading[m]] = m
  /\ \A c \in Clients : call[c].pc = "waiting" => task[call[c].task] = call[c].model

(* Calls, tasks, entries and slots tell the same story.                    *)
LoadsConsistent == TypeOK /\ SlotsOfLoads /\ WaitsForItsLoad

SameQueue(c) ==
  /\ call[c].pc = "answered" /\ call[c].place
  /\ call'[c].pc = "acquiring" /\ call'[c].model = call[c].model

(* Repeated calls do not lose their place (scheduler.py:135-136) as long   *)
(* as each begins within 60 s of the one before and nobody was admitted.   *)
PlaceKept ==
  [][\A c \in Clients : SameQueue(c) /\ now - call[c].began < Expiry =>
       call'[c].since <= call[c].since]_vars

(* A call that is answered "queued" and repeated at once keeps its place,  *)
(* however long it waited: false, the 60 s run from the beginning.         *)
QueuedKeepsPlace ==
  [][\A c \in Clients : SameQueue(c) /\ now - call[c].ended < Expiry =>
       call'[c].since <= call[c].since]_vars

(* _loading names the task that loads a model (mgmt.py:154), so a model is *)
(* loaded by one task at a time: false.                                    *)
OneLoadPerModel ==
  \A t, u \in Tasks : task[t] # None /\ task[t] = task[u] => t = u

(* No call blocks for ever: every one is answered.                         *)
CallsEnd ==
  \A c \in Clients :
    call[c].pc \in {"acquiring", "probing", "waiting", "resuming"} ~> call[c].pc = "answered"
=============================================================================
