------------------------------ MODULE JobTable ------------------------------
(***************************************************************************)
(* What the queue promises to whoever looks at a row of the jobs table     *)
(* (src/ollamaproxy/db.py 54-84): a job is queued, it runs, it may be put  *)
(* back, and once it is over it stays over, with the same status, until    *)
(* the row is deleted.  JobQueue implements it, JobClient builds on it.    *)
(***************************************************************************)
CONSTANT Jobs

VARIABLE status

Over == {"done", "error", "cancelled"}
Anything == Over \cup {"none", "queued", "running"}

TableInit == status = [j \in Jobs |-> "none"]

(* Rows of S, all of them in a status of From, go to one status.           *)
Goes(S, From, to) ==
    /\ S \in SUBSET Jobs
    /\ \A j \in S : status[j] \in From
    /\ status' = [j \in Jobs |-> IF j \in S THEN to ELSE status[j]]

Submitted(S)  == Goes(S, {"none"}, "queued")        \* create_jobs: a batch at once
Started(j)    == Goes({j}, {"queued"}, "running")   \* start_job
PutBack(S)    == Goes(S, {"running"}, "queued")     \* requeue_job, requeue_running_jobs
Finished(j)   == \E s \in Over : Goes({j}, {"running"}, s)          \* finish_job
CalledOff(j) == Goes({j}, {"queued", "running"}, "cancelled")      \* cancel_job
Purged(j)     == Goes({j}, Over, "none")            \* purge_jobs

TableNext ==
    \/ \E S \in SUBSET Jobs : Submitted(S) \/ PutBack(S)
    \/ \E j \in Jobs : Started(j) \/ Finished(j) \/ CalledOff(j) \/ Purged(j)

TableSpec == TableInit /\ [][TableNext]_status
=============================================================================
