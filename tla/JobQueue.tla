------------------------------ MODULE JobQueue ------------------------------
(***************************************************************************)
(* The queue of deferred jobs: the jobs table (src/ollamaproxy/db.py), the *)
(* one worker that runs them (jobs.py), and the requests that create and   *)
(* cancel them (mgmt.py, ui.py).                                           *)
(*                                                                         *)
(* The worker is two tasks: its loop, which picks a job and watches it     *)
(* (JobWorker.loop, run), and the task of the job itself (_execute).       *)
(* Cancelling a task only asks for it: CancelledError is raised at the     *)
(* await the task is suspended in, when the event loop next runs it.       *)
(*                                                                         *)
(* External, from what the worker reads of them: the GPU scheduler (who is *)
(* interactive, which model is admitted, when a slot is granted), the      *)
(* upstreams (a response, an error, an exception), the clock.              *)
(***************************************************************************)
EXTENDS Integers, FiniteSets

CONSTANTS
  Jobs,         \* rows of the table; a purged row is used again
  Models,
  JobModel,
  Provider,     \* "ollama", "gpu" (a GPU service) or "commercial"
  Priority,
  Callbacks,    \* jobs with a callback_url
  Delayed,      \* jobs with a not_before
  Settings,     \* what the administrator changes: "gpu", "commercial", "jobs"
  Preempts,     \* jobs_preempt_s > 0
  MaxQueued,    \* max_jobs of the key that creates them; 0: no limit
  MaxRestarts,  \* bound: restarts of the proxy
  None

MAX_ATTEMPTS == 3

ASSUME JobsAssumption ==
  /\ IsFiniteSet(Jobs)
  /\ JobModel \in [Jobs -> Models]
  /\ Provider \in [Jobs -> {"ollama", "gpu", "commercial"}]
  /\ Priority \in [Jobs -> 0..9]
  /\ Callbacks \subseteq Jobs
  /\ Delayed \subseteq Jobs
  /\ None \notin Jobs \cup Models
ASSUME LimitsAssumption ==
  /\ Settings \subseteq {"gpu", "commercial", "jobs"}
  /\ Preempts \in BOOLEAN
  /\ MaxQueued \in Nat
  /\ MaxRestarts \in Nat

VARIABLES
  status,      \* of each row; "none": no such row
  attempts,    \* of each row
  called,      \* rows whose callback_status is set
  older,       \* the rows with a smaller id (and created_at)
  aged,        \* rows with age > jobs_max_wait_s
  later,       \* rows whose not_before has not come
  configured,  \* providers that exist and are enabled
  enabled,     \* the setting jobs_enabled
  up,          \* the proxy runs; its worker was started
  current,     \* worker.current
  gpu,         \* uses_gpu, as run read it when it started the job
  exec,        \* how far the current task is
  cancelling,  \* current_task.cancel() was called and not yet delivered
  preempting,  \* worker._preempting
  people,      \* interactive traffic, as the worker sees it
  recent,      \* last_interactive_done is less than jobs_idle_s ago
  card,        \* sched.admitted or worker.last_model
  restarts

table  == <<status, attempts, called, older, aged, later>>
worker == <<current, gpu, exec, cancelling, preempting>>
outside == <<configured, enabled, people, recent>>
vars == <<table, worker, outside, up, card, restarts>>

Status == {"none", "queued", "running", "done", "error", "cancelled"}
Ended  == {"done", "error", "cancelled"}

Exec == {"none",       \* no current task
         "created",    \* create_task, not run yet
         "acquire",    \* waits in sched.acquire
         "post",       \* waits for the upstream (snapshots included)
         "callback",   \* waits for the callback's response
         "returned",   \* over
         "cancelled"}  \* over, by CancelledError

TypeOK ==
  /\ status \in [Jobs -> Status]
  /\ attempts \in [Jobs -> Nat]
  /\ called \subseteq Jobs /\ aged \subseteq Jobs /\ later \subseteq Jobs
  /\ older \in [Jobs -> SUBSET Jobs]
  /\ configured \subseteq {"gpu", "commercial"}
  /\ enabled \in BOOLEAN
  /\ up \in BOOLEAN
  /\ current \in Jobs \cup {None}
  /\ gpu \in BOOLEAN
  /\ exec \in Exec
  /\ cancelling \in BOOLEAN /\ preempting \in BOOLEAN
  /\ people \in {"none", "pending", "impatient"}
  /\ recent \in BOOLEAN
  /\ card \in Models \cup {None}
  /\ restarts \in Nat

Init ==
  /\ status = [j \in Jobs |-> "none"]
  /\ attempts = [j \in Jobs |-> 0]
  /\ called = {} /\ aged = {} /\ later = {}
  /\ older = [j \in Jobs |-> {}]
  /\ configured = {"gpu", "commercial"}
  /\ enabled = TRUE /\ up = TRUE
  /\ current = None /\ gpu = FALSE /\ exec = "none" /\ cancelling = FALSE /\ preempting = FALSE
  /\ people = "none" /\ recent = FALSE /\ card = None
  /\ restarts = 0

-----------------------------------------------------------------------------
(* The table. *)

With(s) == {j \in Jobs : status[j] \in s}

(* The order and the age of a row that is over are never read again. *)
SetStatus(j, s) ==
  /\ status' = [status EXCEPT ![j] = s]
  /\ IF s \in Ended
     THEN /\ aged' = aged \ {j}
          /\ older' = [i \in Jobs |-> IF i = j THEN {} ELSE older[i] \ {j}]
     ELSE UNCHANGED <<aged, older>>

(* POST /jobs: a job or a batch, all of it or nothing; the ids grow. The   *)
(* provider was looked up when the batch was checked.                      *)
Create(batch) ==
  /\ up
  /\ batch # {}
  /\ batch \subseteq With({"none"})
  /\ \A j \in batch : Provider[j] \in configured \cup {"ollama"}
  /\ \/ MaxQueued = 0
     \/ Cardinality(With({"queued", "running"})) + Cardinality(batch) <= MaxQueued
  /\ status' = [j \in Jobs |-> IF j \in batch THEN "queued" ELSE status[j]]
  /\ attempts' = [j \in Jobs |-> IF j \in batch THEN 0 ELSE attempts[j]]
  /\ \E order \in [batch -> SUBSET batch] :
       /\ \A j \in batch : j \notin order[j]
       /\ \A i, j \in batch : i # j => (i \in order[j] <=> j \notin order[i])
       /\ \A i, j \in batch : i \in order[j] => order[i] \subseteq order[j]
       /\ older' = [j \in Jobs |-> IF j \in batch
                                   THEN With({"queued", "running"}) \cup order[j]
                                   ELSE older[j]]
  /\ later' = later \cup (batch \cap Delayed)
  /\ UNCHANGED <<called, aged, worker, outside, up, card, restarts>>

(* purge_jobs: rows that ended days ago, so not the one the worker still   *)
(* has in hand (a callback is given ten seconds).                          *)
Purge(j) ==
  /\ up
  /\ status[j] \in Ended
  /\ j # current
  /\ SetStatus(j, "none")
  /\ attempts' = [attempts EXCEPT ![j] = 0]
  /\ called' = called \ {j}
  /\ UNCHANGED <<later, worker, outside, up, card, restarts>>

(* DELETE /jobs/{id} and the same button of the GUI. *)
CancelJob(j) ==
  /\ up
  /\ \/ /\ status[j] = "queued"
        /\ UNCHANGED worker
     \/ /\ status[j] = "running"
        /\ current = j
        /\ preempting' = TRUE
        /\ cancelling' = (exec \notin {"returned", "cancelled"})
        /\ UNCHANGED <<current, gpu, exec>>
  /\ SetStatus(j, "cancelled")
  /\ UNCHANGED <<attempts, called, later, outside, up, card, restarts>>

-----------------------------------------------------------------------------
(* pick_next. *)

Queued == {j \in With({"queued"}) : j \notin later}

UsesGpu(j) == Provider[j] = "ollama" \/ (Provider[j] = "gpu" /\ "gpu" \in configured)

(* The first of a set of jobs: ORDER BY priority, id. *)
Precedes(i, j) == \/ Priority[i] < Priority[j]
                  \/ Priority[i] = Priority[j] /\ i \in older[j]
First(S) == {j \in S : \A i \in S \ {j} : Precedes(j, i)}
Eldest(S) == {j \in S : older[j] \cap S = {}}

OfModel(m) == {j \in Queued : JobModel[j] = m}

(* Mutant: a job starves for the model on the card. *)
StarvingSameModel == {j \in Queued \cap aged : JobModel[j] = card}

Starving == {j \in Queued \cap aged : JobModel[j] # card}

Picked ==
  IF \E j \in Queued : ~UsesGpu(j) THEN First({j \in Queued : ~UsesGpu(j)})
  ELSE IF people # "none" THEN {}
  ELSE IF Starving # {} /\ ~recent
       THEN UNION {First(OfModel(JobModel[j])) : j \in Eldest(Starving)}
  ELSE IF OfModel(card) # {} THEN First(OfModel(card))
  ELSE IF recent THEN {} ELSE First(Queued)

(* loop, pick_next and run up to its first await; start_job counts. *)
Pick(j) ==
  /\ up
  /\ enabled
  /\ current = None
  /\ j \in Picked
  /\ SetStatus(j, "running")
  /\ attempts' = [attempts EXCEPT ![j] = @ + 1]
  /\ current' = j
  /\ gpu' = UsesGpu(j)
  /\ exec' = "created"
  /\ preempting' = FALSE
  /\ cancelling' = FALSE
  /\ UNCHANGED <<called, later, outside, up, card, restarts>>

-----------------------------------------------------------------------------
(* _execute, from one await to the next. *)

(* finish_job overwrites whatever status the row has. *)
FinishJob(s) == SetStatus(current, s)

Runs(phase) == up /\ exec = phase /\ ~cancelling

ExecuteStarts ==
  /\ Runs("created")
  /\ IF Provider[current] \notin configured \cup {"ollama"}
     THEN FinishJob("error") /\ exec' = "returned"
     ELSE /\ exec' = IF Provider[current] = "commercial" THEN "post" ELSE "acquire"
          /\ UNCHANGED <<status, older, aged>>
  /\ UNCHANGED <<attempts, called, later, current, gpu, cancelling,
                 preempting, outside, up, card, restarts>>

(* The scheduler grants the slot; the admitted model is the job's now. *)
Acquired ==
  /\ Runs("acquire")
  /\ exec' = "post"
  /\ card' = JobModel[current]
  /\ UNCHANGED <<table, current, gpu, cancelling, preempting, outside, up, restarts>>

(* The response, an HTTP error or an exception: the row is finished, the   *)
(* slot released, all before the next await.                               *)
Responds ==
  /\ Runs("post")
  /\ \E s \in {"done", "error"} : FinishJob(s)
  /\ exec' = IF current \in Callbacks THEN "callback" ELSE "returned"
  /\ UNCHANGED <<attempts, called, later, current, gpu, cancelling,
                 preempting, outside, up, card, restarts>>

(* The callback's response or its failure: callback_status either way. *)
CalledBack ==
  /\ Runs("callback")
  /\ called' = called \cup {current}
  /\ exec' = "returned"
  /\ UNCHANGED <<status, attempts, older, aged, later, current, gpu, cancelling,
                 preempting, outside, up, card, restarts>>

(* Mutant: CancelledError is caught like any other error. *)
CancelledSwallowed ==
  /\ up
  /\ cancelling
  /\ cancelling' = FALSE
  /\ exec' = IF current \in Callbacks THEN "callback" ELSE "returned"
  /\ UNCHANGED <<table, current, gpu, preempting, outside, up, card, restarts>>

(* CancelledError arrives: nothing is written, the slot is released. A     *)
(* switch the scheduler began for the job is not called off.               *)
Cancelled ==
  /\ up
  /\ cancelling
  /\ cancelling' = FALSE
  /\ exec' = "cancelled"
  /\ \/ UNCHANGED card
     \/ exec = "acquire" /\ card' = JobModel[current]
  /\ UNCHANGED <<table, current, gpu, preempting, outside, up, restarts>>

-----------------------------------------------------------------------------
(* run, while it watches the task. *)

(* A half-second tick: an interactive request for another model has waited *)
(* longer than jobs_preempt_s.                                             *)
Preempt ==
  /\ up
  /\ Preempts
  /\ current # None
  /\ exec \notin {"returned", "cancelled"}
  /\ ~preempting
  /\ gpu
  /\ people = "impatient"
  /\ preempting' = TRUE
  /\ cancelling' = TRUE
  /\ UNCHANGED <<table, current, gpu, exec, outside, up, card, restarts>>

(* Mutants: one attempt too many; the client's cancellation is overlooked; *)
(* a status no reader knows.                                               *)
AfterFourth(j) ==
  IF status[j] # "running" THEN status[j]
  ELSE IF attempts[j] > MAX_ATTEMPTS THEN "error" ELSE "queued"
AfterPreemptionBlind(j) == IF attempts[j] >= MAX_ATTEMPTS THEN "error" ELSE "queued"

AfterPreemption(j) ==
  IF status[j] # "running" THEN status[j]
  ELSE IF attempts[j] >= MAX_ATTEMPTS THEN "error" ELSE "queued"

RunReturns ==
  /\ up
  /\ exec \in {"returned", "cancelled"}
  /\ SetStatus(current, IF exec = "cancelled" THEN AfterPreemption(current)
                                              ELSE status[current])
  /\ current' = None
  /\ gpu' = FALSE
  /\ exec' = "none"
  /\ UNCHANGED <<attempts, called, later, cancelling, preempting,
                 outside, up, card, restarts>>

-----------------------------------------------------------------------------
(* The proxy stops or crashes: stop() cancels both tasks, and neither      *)
(* writes to the table on its way out, so a stop is a crash.  start()      *)
(* takes the rows that ran back into the queue.                            *)
Down ==
  /\ up
  /\ restarts < MaxRestarts
  /\ up' = FALSE
  /\ gpu' = FALSE /\ current' = None /\ exec' = "none" /\ cancelling' = FALSE /\ preempting' = FALSE
  /\ people' = "none" /\ recent' = FALSE /\ card' = None
  /\ UNCHANGED <<table, configured, enabled, restarts>>

(* Mutant: the rows that ran stay as they are. *)
StartForgetful ==
  /\ ~up
  /\ up' = TRUE
  /\ restarts' = restarts + 1
  /\ UNCHANGED <<table, worker, outside, card>>

StartWorker ==
  /\ ~up
  /\ up' = TRUE
  /\ restarts' = restarts + 1
  /\ status' = [j \in Jobs |-> IF status[j] = "running" THEN "queued" ELSE status[j]]
  /\ UNCHANGED <<attempts, called, older, aged, later, worker, outside, card>>

-----------------------------------------------------------------------------
(* What happens outside. *)

PeopleArrive ==
  /\ up
  /\ people' \in {"pending", "impatient"}
  /\ UNCHANGED <<table, worker, configured, enabled, recent, up, card, restarts>>

(* The last interactive request is over: it ran, on some model, or gave up. *)
PeopleLeave ==
  /\ people # "none"
  /\ people' = "none"
  /\ \/ recent' = TRUE /\ card' \in Models
     \/ UNCHANGED <<recent, card>>
  /\ UNCHANGED <<table, worker, configured, enabled, up, restarts>>

IdleLongEnough ==
  /\ recent
  /\ recent' = FALSE
  /\ UNCHANGED <<table, worker, configured, enabled, people, up, card, restarts>>

(* The administrator: a provider, or the queue, is switched off or on. *)
Toggle(S, p) == IF p \in S THEN S \ {p} ELSE S \cup {p}

Reconfigure ==
  /\ up
  /\ \/ /\ \E p \in Settings \ {"jobs"} : configured' = Toggle(configured, p)
        /\ UNCHANGED enabled
     \/ /\ "jobs" \in Settings
        /\ enabled' = ~enabled
        /\ UNCHANGED configured
  /\ UNCHANGED <<table, worker, people, recent, up, card, restarts>>

(* A job passes jobs_max_wait_s; the older ones have passed it before. *)
Ages(j) ==
  /\ status[j] = "queued"
  /\ j \notin aged
  /\ older[j] \subseteq aged
  /\ aged' = aged \cup {j}
  /\ UNCHANGED <<status, attempts, called, older, later, worker, outside, up, card, restarts>>

NotBeforeComes(j) ==
  /\ j \in later
  /\ later' = later \ {j}
  /\ UNCHANGED <<status, attempts, called, older, aged, worker, outside, up, card, restarts>>

-----------------------------------------------------------------------------

Next ==
  \/ \E batch \in SUBSET Jobs : Create(batch)
  \/ \E j \in Jobs : \/ Purge(j) \/ CancelJob(j) \/ Pick(j)
                     \/ Ages(j) \/ NotBeforeComes(j)
  \/ ExecuteStarts \/ Acquired \/ Responds \/ CalledBack \/ Cancelled
  \/ Preempt \/ RunReturns \/ Down \/ StartWorker
  \/ PeopleArrive \/ PeopleLeave \/ IdleLongEnough \/ Reconfigure

Spec == Init /\ [][Next]_vars

-----------------------------------------------------------------------------
(* Properties. *)

(* A row that says "running" is the row of the task the worker watches, a  *)
(* task that still has to end it or was cancelled; after a crash no row    *)
(* says so for nobody (run 240-246, requeue_running_jobs, start).          *)
RunningHasTask ==
  up => \A j \in With({"running"}) : current = j /\ exec \notin {"callback", "returned"}

(* What a client was told of a job that is over stays true: done, error    *)
(* and cancelled never turn into something else, although finish_job       *)
(* writes without looking, two tasks and the HTTP handlers write the row,  *)
(* and a cancellation may cross the response, the callback or a preemption *)
(* (mgmt.cancel_job 400-404, jobs.run 266-276).                            *)
EndedIsFinal ==
  [][\A j \in Jobs : status[j] \in Ended => status'[j] \in {status[j], "none"}]_vars

(* Whatever the worker's two tasks, the handlers, the purge and a restart  *)
(* write, and in whatever order: a reader of the table sees each job       *)
(* queued, run and end as JobTable says (db.py 450-499).                   *)
Table == INSTANCE JobTable
TableImplemented == Table!TableSpec

(* A job is given up after MAX_ATTEMPTS starts; only a restart of the      *)
(* proxy grants one more (run 269-276, start_job, requeue_running_jobs).   *)
AttemptsBounded == \A j \in Jobs : attempts[j] <= MAX_ATTEMPTS + restarts

(* The callback tells of an end that is final: of a job that is done or    *)
(* failed, never of one a client cancelled or one that runs again          *)
(* (_execute 377-383, README.md:193).                                      *)
CalledBackWhenFinished ==
  \A j \in called : status[j] \in {"done", "error"}

(* "callback_url: when it is finished the proxy sends a POST"              *)
(* (README.md:193). False: three ends of a job never reach it.             *)
FinishedMeansCalledBack ==
  \A j \in Callbacks \ {current} : status[j] \in {"done", "error"} => j \in called

-----------------------------------------------------------------------------
(* Liveness. The event loop runs what is ready; the upstream answers or    *)
(* times out; the scheduler grants a slot once people are quiet            *)
(* (JobsServedWhenQuiet of GpuScheduler); time passes.                     *)
Fairness ==
  /\ WF_vars(\E j \in Jobs : Pick(j))
  /\ WF_vars(ExecuteStarts) /\ WF_vars(Acquired) /\ WF_vars(Responds)
  /\ WF_vars(CalledBack) /\ WF_vars(Cancelled) /\ WF_vars(RunReturns)
  /\ WF_vars(StartWorker) /\ WF_vars(IdleLongEnough)
  /\ \A j \in Jobs : WF_vars(Ages(j)) /\ WF_vars(NotBeforeComes(j))

FairSpec == Spec /\ Fairness

(* Sticking to one model does not starve the others: once people stay     *)
(* away, the settings stay as they are and nobody cancels running jobs,    *)
(* every queued job ends, although new jobs of the model on the card keep  *)
(* coming, and whatever preemptions and restarts did before (pick_next     *)
(* 219-235).                                                               *)
Calm == /\ people = "none"
        /\ enabled
        /\ configured = {"gpu", "commercial"}
        /\ ~cancelling
JobsEnd ==
  <>[]Calm => \A j \in Jobs : status[j] = "queued" ~> status[j] \notin {"queued", "running"}
=============================================================================
