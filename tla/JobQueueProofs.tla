--------------------------- MODULE JobQueueProofs ---------------------------
(* The rows of the jobs table and the worker's tasks agree, whatever jobs  *)
(* there are, whoever cancels or preempts them and however often the proxy *)
(* restarts, and the table goes as JobTable says.                          *)
EXTENDS JobQueue, TLAPS

(* How far the task is, and what the row of its job says meanwhile.        *)
TaskAndRow ==
  /\ current = None <=> exec = "none"
  /\ ~up => current = None
  /\ cancelling => exec \in {"created", "acquire", "post", "callback"}
  /\ exec \in {"created", "acquire", "post"} =>
       \/ status[current] = "running"
       \/ status[current] = "cancelled" /\ cancelling
  /\ exec = "callback" => status[current] \in {"done", "error"}
  /\ exec = "returned" => status[current] \in Ended
  /\ exec = "cancelled" => status[current] \in Ended \cup {"running"}

OneRuns == up => \A j \in Jobs : status[j] = "running" => current = j

(* A row in the queue has a start left: the last one is not given back.    *)
AttemptsLeft ==
  \A j \in Jobs :
    /\ attempts[j] <= MAX_ATTEMPTS + restarts
    /\ status[j] = "queued" => attempts[j] < MAX_ATTEMPTS + restarts

QueueInv == TypeOK /\ TaskAndRow /\ OneRuns /\ AttemptsLeft /\ CalledBackWhenFinished

(* What every action must show: the invariant and a step of the table.     *)
TableStep == Table!TableNext \/ UNCHANGED status
Kept == QueueInv' /\ TableStep

LEMMA NoneIsNoJob == None \notin Jobs
  BY JobsAssumption

-----------------------------------------------------------------------------
(* The table. *)

LEMMA SetStatusTypes ==
  ASSUME TypeOK, NEW j \in Jobs, NEW s \in Status, SetStatus(j, s)
  PROVE  /\ status' = [status EXCEPT ![j] = s]
         /\ status' \in [Jobs -> Status]
         /\ aged' \subseteq Jobs
         /\ older' \in [Jobs -> SUBSET Jobs]
<1>1. status' = [status EXCEPT ![j] = s]
  BY DEF SetStatus
<1>2. status' \in [Jobs -> Status]
  BY <1>1 DEF TypeOK
<1>3. aged' \subseteq Jobs
  BY DEF SetStatus, TypeOK
<1>4. older' \in [Jobs -> SUBSET Jobs]
  <2>1. CASE s \in Ended
    BY <2>1 DEF SetStatus, TypeOK
  <2>2. CASE s \notin Ended
    BY <2>2 DEF SetStatus, TypeOK
  <2> QED
    BY <2>1, <2>2
<1> QED
  BY <1>1, <1>2, <1>3, <1>4

(* One row changes as a row of the table may.                              *)
LEMMA RowStep ==
  ASSUME TypeOK, NEW j \in Jobs, NEW s, status' = [status EXCEPT ![j] = s],
         \/ status[j] = "queued" /\ s \in {"running", "cancelled"}
         \/ status[j] = "running" /\ s \in {"queued", "done", "error", "cancelled"}
         \/ status[j] \in Ended /\ s = "none"
         \/ status[j] = s
  PROVE  TableStep
<1>1. CASE status[j] = "queued" /\ s = "running"
  <2>1. Table!Goes({j}, {"queued"}, "running")
    BY <1>1 DEF Table!Goes, TypeOK
  <2> QED
    BY <2>1 DEF TableStep, Table!TableNext, Table!Started
<1>2. CASE status[j] \in {"queued", "running"} /\ s = "cancelled"
  <2>1. Table!Goes({j}, {"queued", "running"}, "cancelled")
    BY <1>2 DEF Table!Goes, TypeOK
  <2> QED
    BY <2>1 DEF TableStep, Table!TableNext, Table!CalledOff
<1>3. CASE status[j] = "running" /\ s = "queued"
  <2>1. Table!Goes({j}, {"running"}, "queued")
    BY <1>3 DEF Table!Goes, TypeOK
  <2> QED
    BY <2>1 DEF TableStep, Table!TableNext, Table!PutBack
<1>4. CASE status[j] = "running" /\ s \in {"done", "error"}
  <2>1. Table!Goes({j}, {"running"}, s) /\ s \in Table!Over
    BY <1>4 DEF Table!Goes, Table!Over, TypeOK
  <2> QED
    BY <2>1 DEF TableStep, Table!TableNext, Table!Finished
<1>5. CASE status[j] \in Ended /\ s = "none"
  <2>1. Table!Goes({j}, Table!Over, "none")
    BY <1>5 DEF Table!Goes, Table!Over, TypeOK, Ended
  <2> QED
    BY <2>1 DEF TableStep, Table!TableNext, Table!Purged
<1>6. CASE status[j] = s
  BY <1>6 DEF TableStep, TypeOK
<1> QED
  BY <1>1, <1>2, <1>3, <1>4, <1>5, <1>6

(* What is picked is queued.                                               *)
LEMMA PickedQueued == \A j \in Picked : j \in Jobs /\ status[j] = "queued"
<1>1. Queued \subseteq {j \in Jobs : status[j] = "queued"}
  BY DEF Queued, With
<1>2. \A S : First(S) \subseteq S
  BY DEF First
<1>3. First({j \in Queued : ~UsesGpu(j)}) \subseteq Queued
  BY <1>2
<1>4. First(Queued) \subseteq Queued /\ \A m : First(OfModel(m)) \subseteq Queued
  BY <1>2 DEF OfModel
<1>5. UNION {First(OfModel(JobModel[j])) : j \in Eldest(Starving)} \subseteq Queued
  BY <1>4
<1>6. Picked \subseteq Queued
  BY <1>3, <1>4, <1>5 DEF Picked
<1> QED
  BY <1>1, <1>6

-----------------------------------------------------------------------------
(* The actions. *)

LEMMA InitInv == Init => QueueInv
<1> SUFFICES ASSUME Init PROVE QueueInv
  OBVIOUS
<1>1. TypeOK
  BY DEF Init, TypeOK, Status, Exec
<1>2. TaskAndRow /\ OneRuns
  BY DEF Init, TaskAndRow, OneRuns
<1>3. AttemptsLeft
  BY DEF Init, AttemptsLeft, MAX_ATTEMPTS
<1>4. CalledBackWhenFinished
  BY DEF Init, CalledBackWhenFinished
<1> QED
  BY <1>1, <1>2, <1>3, <1>4 DEF QueueInv

(* Steps that leave the rows and the task alone.                           *)
LEMMA QuietKept ==
  ASSUME QueueInv, TypeOK',
         UNCHANGED <<status, attempts, called, up, current, exec, cancelling, restarts>>
  PROVE  Kept
<1>1. TaskAndRow' /\ OneRuns'
  BY DEF QueueInv, TaskAndRow, OneRuns
<1>2. AttemptsLeft'
  BY DEF QueueInv, AttemptsLeft
<1>3. CalledBackWhenFinished'
  BY DEF QueueInv, CalledBackWhenFinished
<1> QED
  BY <1>1, <1>2, <1>3 DEF Kept, QueueInv, TableStep

LEMMA OutsideKept ==
  ASSUME QueueInv,
         PeopleArrive \/ PeopleLeave \/ IdleLongEnough \/ Reconfigure
  PROVE  Kept
<1>1. UNCHANGED <<table, worker, up, restarts>>
  BY DEF PeopleArrive, PeopleLeave, IdleLongEnough, Reconfigure
<1>2. TypeOK
  BY DEF QueueInv
<1>3. people' \in {"none", "pending", "impatient"} /\ recent' \in BOOLEAN
  BY <1>2 DEF TypeOK, PeopleArrive, PeopleLeave, IdleLongEnough, Reconfigure
<1>4. card' \in Models \cup {None}
  BY <1>2 DEF TypeOK, PeopleArrive, PeopleLeave, IdleLongEnough, Reconfigure
<1>5. configured' \subseteq {"gpu", "commercial"} /\ enabled' \in BOOLEAN
  <2>1. CASE PeopleArrive \/ PeopleLeave \/ IdleLongEnough
    BY <1>2, <2>1 DEF TypeOK, PeopleArrive, PeopleLeave, IdleLongEnough
  <2>2. CASE Reconfigure
    <3>1. Settings \ {"jobs"} \subseteq {"gpu", "commercial"}
      BY LimitsAssumption
    <3>2. \A p \in Settings \ {"jobs"} : Toggle(configured, p) \subseteq {"gpu", "commercial"}
      BY <1>2, <3>1 DEF TypeOK, Toggle
    <3> QED
      BY <1>2, <2>2, <3>2 DEF TypeOK, Reconfigure
  <2> QED
    BY <2>1, <2>2
<1>6. TypeOK'
  BY <1>1, <1>2, <1>3, <1>4, <1>5 DEF TypeOK, table, worker
<1> QED
  BY <1>1, <1>6, QuietKept DEF table, worker

LEMMA TimeKept ==
  ASSUME QueueInv, NEW j \in Jobs, Ages(j) \/ NotBeforeComes(j)
  PROVE  Kept
<1>1. TypeOK'
  BY DEF QueueInv, TypeOK, Ages, NotBeforeComes, worker, outside
<1> QED
  BY <1>1, QuietKept DEF Ages, NotBeforeComes, worker

LEMMA CreateKept ==
  ASSUME QueueInv, NEW batch \in SUBSET Jobs, Create(batch)
  PROVE  Kept
<1>0. TypeOK /\ TaskAndRow /\ OneRuns /\ AttemptsLeft /\ CalledBackWhenFinished
  BY DEF QueueInv
<1>1. \A j \in batch : status[j] = "none"
  BY DEF Create, With
<1>2. status' = [j \in Jobs |-> IF j \in batch THEN "queued" ELSE status[j]]
  BY DEF Create
<1>3. attempts' = [j \in Jobs |-> IF j \in batch THEN 0 ELSE attempts[j]]
  BY DEF Create
<1>4. UNCHANGED <<called, aged, worker, outside, up, card, restarts>> /\ later' \subseteq Jobs
  BY <1>0 DEF Create, TypeOK
<1>5. older' \in [Jobs -> SUBSET Jobs]
  <2>1. PICK order \in [batch -> SUBSET batch] :
          older' = [j \in Jobs |-> IF j \in batch
                                   THEN With({"queued", "running"}) \cup order[j]
                                   ELSE older[j]]
    BY DEF Create
  <2>2. \A j \in batch : With({"queued", "running"}) \cup order[j] \in SUBSET Jobs
    BY DEF With
  <2> QED
    BY <1>0, <2>1, <2>2 DEF TypeOK
<1>6. TypeOK'
  <2>1. status' \in [Jobs -> Status] /\ attempts' \in [Jobs -> Nat]
    BY <1>0, <1>2, <1>3 DEF TypeOK, Status
  <2> QED
    BY <1>0, <1>4, <1>5, <2>1 DEF TypeOK, worker, outside
<1>7. \A j \in Jobs : status[j] # "none" => status'[j] = status[j]
  BY <1>0, <1>1, <1>2 DEF TypeOK
<1>8. TaskAndRow'
  <2>1. current # None => /\ current \in Jobs
                          /\ status[current] # "none"
    BY <1>0 DEF TypeOK, TaskAndRow, Exec, Ended
  <2> QED
    BY <1>0, <1>4, <1>7, <2>1 DEF TaskAndRow, worker
<1>9. OneRuns'
  BY <1>0, <1>1, <1>2, <1>4 DEF OneRuns, TypeOK, worker
<1>10. AttemptsLeft'
  BY <1>0, <1>2, <1>3, <1>4 DEF AttemptsLeft, TypeOK, MAX_ATTEMPTS
<1>11. CalledBackWhenFinished'
  BY <1>0, <1>4, <1>7 DEF CalledBackWhenFinished, TypeOK
<1>12. TableStep
  <2>1. Table!Submitted(batch)
    BY <1>1, <1>2 DEF Table!Submitted, Table!Goes
  <2> QED
    BY <2>1 DEF TableStep, Table!TableNext
<1> QED
  BY <1>6, <1>8, <1>9, <1>10, <1>11, <1>12 DEF Kept, QueueInv

LEMMA PurgeKept ==
  ASSUME QueueInv, NEW j \in Jobs, Purge(j)
  PROVE  Kept
<1>0. TypeOK /\ TaskAndRow /\ OneRuns /\ AttemptsLeft /\ CalledBackWhenFinished
  BY DEF QueueInv
<1>1. /\ status' = [status EXCEPT ![j] = "none"]
      /\ status' \in [Jobs -> Status] /\ aged' \subseteq Jobs /\ older' \in [Jobs -> SUBSET Jobs]
  BY <1>0, SetStatusTypes DEF Purge, Status
<1>2. /\ status[j] \in Ended /\ j # current
      /\ attempts' = [attempts EXCEPT ![j] = 0]
      /\ called' = called \ {j}
      /\ UNCHANGED <<later, worker, outside, up, card, restarts>>
  BY DEF Purge
<1>3. TypeOK'
  BY <1>0, <1>1, <1>2 DEF TypeOK, worker, outside
<1>4. TaskAndRow'
  BY <1>0, <1>1, <1>2, NoneIsNoJob DEF TypeOK, TaskAndRow, worker
<1>5. OneRuns'
  BY <1>0, <1>1, <1>2 DEF TypeOK, OneRuns, worker
<1>6. AttemptsLeft'
  BY <1>0, <1>1, <1>2 DEF TypeOK, AttemptsLeft, MAX_ATTEMPTS
<1>7. CalledBackWhenFinished'
  BY <1>0, <1>1, <1>2 DEF TypeOK, CalledBackWhenFinished
<1>8. TableStep
  BY <1>0, <1>1, <1>2, RowStep
<1> QED
  BY <1>3, <1>4, <1>5, <1>6, <1>7, <1>8 DEF Kept, QueueInv

LEMMA CancelJobKept ==
  ASSUME QueueInv, NEW j \in Jobs, CancelJob(j)
  PROVE  Kept
<1>0. TypeOK /\ TaskAndRow /\ OneRuns /\ AttemptsLeft /\ CalledBackWhenFinished
  BY DEF QueueInv
<1>1. /\ status' = [status EXCEPT ![j] = "cancelled"]
      /\ status' \in [Jobs -> Status] /\ aged' \subseteq Jobs /\ older' \in [Jobs -> SUBSET Jobs]
  BY <1>0, SetStatusTypes DEF CancelJob, Status
<1>2. /\ up
      /\ \/ status[j] = "queued" /\ UNCHANGED worker
         \/ /\ status[j] = "running" /\ current = j
            /\ preempting' = TRUE
            /\ cancelling' = (exec \notin {"returned", "cancelled"})
            /\ UNCHANGED <<current, gpu, exec>>
      /\ UNCHANGED <<attempts, called, later, outside, up, card, restarts>>
  BY DEF CancelJob
<1>3. TypeOK'
  BY <1>0, <1>1, <1>2 DEF TypeOK, worker, outside
<1>4. TaskAndRow'
  <2>1. CASE status[j] = "queued" /\ UNCHANGED worker
    <3>1. current # j
      BY <1>0, <2>1, NoneIsNoJob DEF TypeOK, TaskAndRow, Exec, Ended
    <3> QED
      BY <1>0, <1>1, <1>2, <2>1, <3>1 DEF TypeOK, TaskAndRow, worker
  <2>2. CASE status[j] = "running" /\ current = j
    <3>1. exec \in {"created", "acquire", "post", "cancelled"}
      BY <1>0, <2>2, NoneIsNoJob DEF TypeOK, TaskAndRow, Exec, Ended
    <3>2. status'[j] = "cancelled" /\ UNCHANGED <<current, exec, up>>
      BY <1>0, <1>1, <1>2, <2>2 DEF TypeOK
    <3>3. cancelling' = (exec \notin {"returned", "cancelled"})
      BY <1>2, <2>2
    <3> QED
      BY <1>0, <2>2, <3>1, <3>2, <3>3 DEF TaskAndRow, Ended
  <2> QED
    BY <1>2, <2>1, <2>2
<1>5. OneRuns'
  BY <1>0, <1>1, <1>2 DEF TypeOK, OneRuns, worker
<1>6. AttemptsLeft'
  BY <1>0, <1>1, <1>2 DEF TypeOK, AttemptsLeft, MAX_ATTEMPTS
<1>7. CalledBackWhenFinished'
  BY <1>0, <1>1, <1>2 DEF TypeOK, CalledBackWhenFinished
<1>8. TableStep
  BY <1>0, <1>1, <1>2, RowStep
<1> QED
  BY <1>3, <1>4, <1>5, <1>6, <1>7, <1>8 DEF Kept, QueueInv

LEMMA PickKept ==
  ASSUME QueueInv, NEW j \in Jobs, Pick(j)
  PROVE  Kept
<1>0. TypeOK /\ TaskAndRow /\ OneRuns /\ AttemptsLeft /\ CalledBackWhenFinished
  BY DEF QueueInv
<1>1. /\ status' = [status EXCEPT ![j] = "running"]
      /\ status' \in [Jobs -> Status] /\ aged' \subseteq Jobs /\ older' \in [Jobs -> SUBSET Jobs]
  BY <1>0, SetStatusTypes DEF Pick, Status
<1>2. status[j] = "queued"
  BY PickedQueued DEF Pick
<1>3. /\ up /\ current = None
      /\ attempts' = [attempts EXCEPT ![j] = @ + 1]
      /\ current' = j /\ exec' = "created" /\ preempting' = FALSE /\ cancelling' = FALSE
      /\ UNCHANGED <<called, later, outside, up, card, restarts>>
  BY DEF Pick
<1>4. TypeOK'
  <2>1. attempts' \in [Jobs -> Nat]
    BY <1>0, <1>3 DEF TypeOK
  <2>2. gpu' \in BOOLEAN
    BY DEF Pick, UsesGpu
  <2> QED
    BY <1>0, <1>1, <1>3, <2>1, <2>2 DEF TypeOK, Exec, outside
<1>5. TaskAndRow'
  BY <1>0, <1>1, <1>3, NoneIsNoJob DEF TypeOK, TaskAndRow
<1>6. OneRuns'
  BY <1>0, <1>1, <1>3, NoneIsNoJob DEF TypeOK, OneRuns
<1>7. AttemptsLeft'
  <2>1. attempts'[j] = attempts[j] + 1 /\ \A i \in Jobs \ {j} : attempts'[i] = attempts[i]
    BY <1>0, <1>3 DEF TypeOK
  <2>2. status'[j] = "running" /\ \A i \in Jobs \ {j} : status'[i] = status[i]
    BY <1>0, <1>1 DEF TypeOK
  <2>3. attempts[j] \in Nat /\ restarts \in Nat
    BY <1>0 DEF TypeOK
  <2> QED
    BY <1>0, <1>2, <1>3, <2>1, <2>2, <2>3 DEF AttemptsLeft, MAX_ATTEMPTS
<1>8. CalledBackWhenFinished'
  BY <1>0, <1>1, <1>2, <1>3 DEF TypeOK, CalledBackWhenFinished
<1>9. TableStep
  BY <1>0, <1>1, <1>2, RowStep
<1> QED
  BY <1>4, <1>5, <1>6, <1>7, <1>8, <1>9 DEF Kept, QueueInv

(* While the task is before its answer and not cancelled, its row runs.    *)
LEMMA RunningRow ==
  ASSUME QueueInv, exec \in {"created", "acquire", "post"}, ~cancelling
  PROVE  current \in Jobs /\ status[current] = "running"
BY DEF QueueInv, TypeOK, TaskAndRow

(* The task ends its row and goes on to the callback, or is over.          *)
LEMMA FinishKept ==
  ASSUME QueueInv, up, exec \in {"created", "acquire", "post"}, ~cancelling,
         NEW s \in {"done", "error"}, FinishJob(s), exec' \in {"callback", "returned"},
         UNCHANGED <<attempts, called, later, current, gpu, cancelling,
                     preempting, outside, up, card, restarts>>
  PROVE  Kept
<1>0. TypeOK /\ TaskAndRow /\ OneRuns /\ AttemptsLeft /\ CalledBackWhenFinished
  BY DEF QueueInv
<1>1. current \in Jobs /\ status[current] = "running"
  BY RunningRow
<1>2. /\ status' = [status EXCEPT ![current] = s]
      /\ status' \in [Jobs -> Status] /\ aged' \subseteq Jobs /\ older' \in [Jobs -> SUBSET Jobs]
  BY <1>0, <1>1, SetStatusTypes DEF FinishJob, Status
<1>3. TypeOK'
  BY <1>0, <1>2 DEF TypeOK, Exec, outside
<1>4. TaskAndRow'
  BY <1>0, <1>1, <1>2, NoneIsNoJob DEF TypeOK, TaskAndRow, Ended
<1>5. OneRuns'
  BY <1>0, <1>2 DEF TypeOK, OneRuns
<1>6. AttemptsLeft'
  BY <1>0, <1>2 DEF TypeOK, AttemptsLeft, MAX_ATTEMPTS
<1>7. CalledBackWhenFinished'
  BY <1>0, <1>2 DEF TypeOK, CalledBackWhenFinished
<1>8. TableStep
  BY <1>0, <1>1, <1>2, RowStep
<1> QED
  BY <1>3, <1>4, <1>5, <1>6, <1>7, <1>8 DEF Kept, QueueInv

(* Steps of the task that write no row.                                    *)
LEMMA TaskKept ==
  ASSUME QueueInv, TypeOK', TaskAndRow',
         UNCHANGED <<status, attempts, up, current, restarts>>,
         called' = called \/ (called' = called \cup {current} /\ status[current] \in {"done", "error"})
  PROVE  Kept
<1>1. OneRuns'
  BY DEF QueueInv, OneRuns
<1>2. AttemptsLeft'
  BY DEF QueueInv, AttemptsLeft
<1>3. CalledBackWhenFinished'
  BY DEF QueueInv, CalledBackWhenFinished
<1> QED
  BY <1>1, <1>2, <1>3 DEF Kept, QueueInv, TableStep

LEMMA ExecuteStartsKept == ASSUME QueueInv, ExecuteStarts PROVE Kept
<1>1. up /\ exec = "created" /\ ~cancelling
  BY DEF ExecuteStarts, Runs
<1>2. UNCHANGED <<attempts, called, later, current, gpu, cancelling,
                  preempting, outside, up, card, restarts>>
  BY DEF ExecuteStarts
<1>3. CASE FinishJob("error") /\ exec' = "returned"
  BY <1>1, <1>2, <1>3, FinishKept
<1>4. CASE exec' \in {"post", "acquire"} /\ UNCHANGED <<status, older, aged>>
  <2>1. TypeOK'
    BY <1>2, <1>4 DEF QueueInv, TypeOK, Exec, outside
  <2>2. TaskAndRow'
    BY <1>1, <1>2, <1>4 DEF QueueInv, TaskAndRow
  <2> QED
    BY <1>2, <1>4, <2>1, <2>2, TaskKept
<1> QED
  BY <1>3, <1>4 DEF ExecuteStarts

LEMMA RespondsKept == ASSUME QueueInv, Responds PROVE Kept
<1>1. up /\ exec = "post" /\ ~cancelling
  BY DEF Responds, Runs
<1>2. PICK s \in {"done", "error"} : FinishJob(s)
  BY DEF Responds
<1>3. exec' \in {"callback", "returned"}
  BY DEF Responds
<1>4. UNCHANGED <<attempts, called, later, current, gpu, cancelling,
                  preempting, outside, up, card, restarts>>
  BY DEF Responds
<1> QED
  BY <1>1, <1>2, <1>3, <1>4, FinishKept

LEMMA AcquiredKept == ASSUME QueueInv, Acquired PROVE Kept
<1>1. /\ exec = "acquire" /\ ~cancelling /\ exec' = "post"
      /\ UNCHANGED <<table, current, gpu, cancelling, preempting, outside, up, restarts>>
  BY DEF Acquired, Runs
<1>2. card' \in Models
  BY <1>1, RunningRow, JobsAssumption DEF Acquired
<1>3. TypeOK'
  BY <1>1, <1>2 DEF QueueInv, TypeOK, Exec, table, outside
<1>4. TaskAndRow'
  BY <1>1 DEF QueueInv, TaskAndRow, table
<1> QED
  BY <1>1, <1>3, <1>4, TaskKept DEF table

LEMMA CalledBackKept == ASSUME QueueInv, CalledBack PROVE Kept
<1>1. /\ exec = "callback" /\ ~cancelling /\ exec' = "returned"
      /\ called' = called \cup {current}
      /\ UNCHANGED <<status, attempts, older, aged, later, current, gpu, cancelling,
                     preempting, outside, up, card, restarts>>
  BY DEF CalledBack, Runs
<1>2. current \in Jobs /\ status[current] \in {"done", "error"}
  BY <1>1 DEF QueueInv, TypeOK, TaskAndRow
<1>3. TypeOK'
  BY <1>1, <1>2 DEF QueueInv, TypeOK, Exec, outside
<1>4. TaskAndRow'
  BY <1>1, <1>2 DEF QueueInv, TaskAndRow, Ended
<1> QED
  BY <1>1, <1>2, <1>3, <1>4, TaskKept

LEMMA CancelledKept == ASSUME QueueInv, Cancelled PROVE Kept
<1>1. /\ cancelling /\ cancelling' = FALSE /\ exec' = "cancelled"
      /\ UNCHANGED <<table, current, gpu, preempting, outside, up, restarts>>
  BY DEF Cancelled
<1>2. exec \in {"created", "acquire", "post", "callback"} /\ current \in Jobs
  BY <1>1 DEF QueueInv, TypeOK, TaskAndRow
<1>3. card' \in Models \cup {None}
  BY <1>2, JobsAssumption DEF Cancelled, QueueInv, TypeOK
<1>4. TypeOK'
  BY <1>1, <1>3 DEF QueueInv, TypeOK, Exec, table, outside
<1>5. TaskAndRow'
  BY <1>1, <1>2 DEF QueueInv, TaskAndRow, Ended, table
<1> QED
  BY <1>1, <1>4, <1>5, TaskKept DEF table

LEMMA PreemptKept == ASSUME QueueInv, Preempt PROVE Kept
<1>1. /\ current # None /\ exec \notin {"returned", "cancelled"}
      /\ preempting' = TRUE /\ cancelling' = TRUE
      /\ UNCHANGED <<table, current, gpu, exec, outside, up, card, restarts>>
  BY DEF Preempt
<1>2. TypeOK'
  BY <1>1 DEF QueueInv, TypeOK, table, outside
<1>3. TaskAndRow'
  BY <1>1 DEF QueueInv, TypeOK, Exec, TaskAndRow, table
<1> QED
  BY <1>1, <1>2, <1>3, TaskKept DEF table

(* What run writes when the task is over: nothing, or a row that still     *)
(* runs goes back to the queue while it has a start left, or is given up.  *)
LEMMA RunReturnsKept == ASSUME QueueInv, RunReturns PROVE Kept
<1> DEFINE s == IF exec = "cancelled" THEN AfterPreemption(current) ELSE status[current]
<1>0. TypeOK /\ TaskAndRow /\ OneRuns /\ AttemptsLeft /\ CalledBackWhenFinished
  BY DEF QueueInv
<1>1. /\ up /\ exec \in {"returned", "cancelled"}
      /\ current' = None /\ gpu' = FALSE /\ exec' = "none"
      /\ UNCHANGED <<attempts, called, later, cancelling, preempting, outside, up, card, restarts>>
  BY DEF RunReturns
<1>2. current \in Jobs /\ ~cancelling
  BY <1>0, <1>1 DEF TypeOK, TaskAndRow
<1>3. \/ s = status[current] /\ status[current] \in Ended
      \/ status[current] = "running" /\ s = "error"
      \/ status[current] = "running" /\ s = "queued" /\ attempts[current] < MAX_ATTEMPTS
  <2>1. attempts[current] \in Nat /\ MAX_ATTEMPTS \in Nat
    BY <1>0, <1>2 DEF TypeOK, MAX_ATTEMPTS
  <2>2. CASE exec = "returned"
    BY <1>0, <2>2 DEF TaskAndRow
  <2>3. CASE exec = "cancelled"
    <3>1. status[current] \in Ended \cup {"running"}
      BY <1>0, <2>3 DEF TaskAndRow
    <3>2. "running" \notin Ended
      BY DEF Ended
    <3>3. s = AfterPreemption(current)
      BY <2>3
    <3> HIDE DEF s
    <3> QED
      BY <2>1, <3>1, <3>2, <3>3 DEF AfterPreemption
  <2> QED
    BY <1>1, <2>2, <2>3
<1>4. s \in Status
  BY <1>0, <1>2, <1>3 DEF TypeOK, Status
<1>5. SetStatus(current, s)
  BY DEF RunReturns
<1> HIDE DEF s
<1>6. /\ status' = [status EXCEPT ![current] = s]
      /\ status' \in [Jobs -> Status] /\ aged' \subseteq Jobs /\ older' \in [Jobs -> SUBSET Jobs]
  BY <1>0, <1>2, <1>4, <1>5, SetStatusTypes
<1>7. TypeOK'
  BY <1>0, <1>1, <1>6 DEF TypeOK, Exec, outside
<1>8. TaskAndRow'
  BY <1>1, <1>2 DEF TaskAndRow
<1>9. OneRuns'
  BY <1>0, <1>1, <1>3, <1>6 DEF TypeOK, OneRuns, Ended
<1>10. AttemptsLeft'
  <2>1. status'[current] = s /\ \A i \in Jobs \ {current} : status'[i] = status[i]
    BY <1>0, <1>2, <1>6 DEF TypeOK
  <2>2. s = "queued" => attempts[current] < MAX_ATTEMPTS
    BY <1>3 DEF Ended
  <2>3. attempts \in [Jobs -> Nat] /\ restarts \in Nat /\ UNCHANGED <<attempts, restarts>>
    BY <1>0, <1>1 DEF TypeOK
  <2> QED
    BY <1>0, <2>1, <2>2, <2>3 DEF AttemptsLeft, MAX_ATTEMPTS
<1>11. CalledBackWhenFinished'
  BY <1>0, <1>1, <1>2, <1>3, <1>6 DEF TypeOK, CalledBackWhenFinished
<1>12. TableStep
  BY <1>0, <1>2, <1>3, <1>6, RowStep
<1> QED
  BY <1>7, <1>8, <1>9, <1>10, <1>11, <1>12 DEF Kept, QueueInv

LEMMA DownKept == ASSUME QueueInv, Down PROVE Kept
<1>1. /\ up' = FALSE /\ current' = None /\ exec' = "none" /\ cancelling' = FALSE
      /\ gpu' = FALSE /\ preempting' = FALSE
      /\ people' = "none" /\ recent' = FALSE /\ card' = None
      /\ UNCHANGED <<table, configured, enabled, restarts>>
  BY DEF Down
<1>2. TypeOK'
  BY <1>1 DEF QueueInv, TypeOK, Exec, table
<1>3. TaskAndRow' /\ OneRuns'
  BY <1>1 DEF TaskAndRow, OneRuns
<1>4. AttemptsLeft'
  BY <1>1 DEF QueueInv, AttemptsLeft, table
<1>5. CalledBackWhenFinished'
  BY <1>1 DEF QueueInv, CalledBackWhenFinished, table
<1> QED
  BY <1>1, <1>2, <1>3, <1>4, <1>5 DEF Kept, QueueInv, TableStep, table

LEMMA StartWorkerKept == ASSUME QueueInv, StartWorker PROVE Kept
<1>0. TypeOK /\ TaskAndRow /\ OneRuns /\ AttemptsLeft /\ CalledBackWhenFinished
  BY DEF QueueInv
<1>1. /\ ~up /\ up' = TRUE /\ restarts' = restarts + 1
      /\ status' = [j \in Jobs |-> IF status[j] = "running" THEN "queued" ELSE status[j]]
      /\ UNCHANGED <<attempts, called, older, aged, later, worker, outside, card>>
  BY DEF StartWorker
<1>2. TypeOK'
  <2>1. status' \in [Jobs -> Status]
    BY <1>0, <1>1 DEF TypeOK, Status
  <2>2. restarts' \in Nat
    BY <1>0, <1>1 DEF TypeOK
  <2> QED
    BY <1>0, <1>1, <2>1, <2>2 DEF TypeOK, worker, outside
<1>3. TaskAndRow'
  BY <1>0, <1>1 DEF TaskAndRow, worker
<1>4. OneRuns'
  BY <1>1 DEF OneRuns
<1>5. AttemptsLeft'
  <2>1. attempts \in [Jobs -> Nat] /\ restarts \in Nat
    BY <1>0 DEF TypeOK
  <2>2. \A j \in Jobs : attempts'[j] <= MAX_ATTEMPTS + restarts
    BY <1>0, <1>1 DEF AttemptsLeft
  <2> QED
    BY <1>1, <2>1, <2>2 DEF AttemptsLeft, MAX_ATTEMPTS
<1>6. CalledBackWhenFinished'
  BY <1>0, <1>1 DEF TypeOK, CalledBackWhenFinished
<1>7. TableStep
  <2> DEFINE S == {j \in Jobs : status[j] = "running"}
  <2>1. Table!PutBack(S)
    BY <1>1 DEF Table!PutBack, Table!Goes
  <2> QED
    BY <2>1 DEF TableStep, Table!TableNext
<1> QED
  BY <1>2, <1>3, <1>4, <1>5, <1>6, <1>7 DEF Kept, QueueInv

LEMMA NextKept == ASSUME QueueInv, [Next]_vars PROVE Kept
<1>1. CASE \E batch \in SUBSET Jobs : Create(batch)
  BY <1>1, CreateKept
<1>2. CASE \E j \in Jobs : Purge(j)
  BY <1>2, PurgeKept
<1>3. CASE \E j \in Jobs : CancelJob(j)
  BY <1>3, CancelJobKept
<1>4. CASE \E j \in Jobs : Pick(j)
  BY <1>4, PickKept
<1>5. CASE \E j \in Jobs : Ages(j) \/ NotBeforeComes(j)
  BY <1>5, TimeKept
<1>6. CASE PeopleArrive \/ PeopleLeave \/ IdleLongEnough \/ Reconfigure
  BY <1>6, OutsideKept
<1>7. CASE UNCHANGED vars
  <2>1. TypeOK'
    BY <1>7 DEF QueueInv, TypeOK, vars, table, worker, outside
  <2> QED
    BY <1>7, <2>1, QuietKept DEF vars, table, worker
<1> QED
  BY <1>1, <1>2, <1>3, <1>4, <1>5, <1>6, <1>7, ExecuteStartsKept, AcquiredKept,
     RespondsKept, CalledBackKept, CancelledKept, PreemptKept, RunReturnsKept,
     DownKept, StartWorkerKept
     DEF Next

-----------------------------------------------------------------------------
(* The theorems. *)

LEMMA QueueInvHolds == Spec => []QueueInv
<1>1. QueueInv /\ [Next]_vars => QueueInv'
  BY NextKept DEF Kept
<1> QED
  BY <1>1, InitInv, PTL DEF Spec

(* The rows, the worker's two tasks and what it read keep their types for  *)
(* any jobs, models, providers and settings (jobs.py 116-138).             *)
THEOREM JobsTyped == Spec => []TypeOK
<1>1. QueueInv => TypeOK
  BY DEF QueueInv
<1> QED
  BY <1>1, QueueInvHolds, PTL

(* A row that says "running" is the row of the task the worker watches:    *)
(* whatever is cancelled, preempted or switched off meanwhile, and after   *)
(* any restart, no row runs for nobody (run 240-246, start 161-167).       *)
THEOREM RunningRowsHaveTasks == Spec => []RunningHasTask
<1>1. QueueInv => RunningHasTask
  <2> SUFFICES ASSUME QueueInv, up, NEW j \in With({"running"})
               PROVE  current = j /\ exec \notin {"callback", "returned"}
    BY DEF RunningHasTask
  <2>1. j \in Jobs /\ status[j] = "running"
    BY DEF With
  <2> QED
    BY <2>1 DEF QueueInv, OneRuns, TaskAndRow, Ended
<1> QED
  BY <1>1, QueueInvHolds, PTL

(* A job is started MAX_ATTEMPTS times at most, and once more for every    *)
(* restart of the proxy (run 269-276, start_job).                          *)
THEOREM JobsAreGivenUp == Spec => []AttemptsBounded
<1>1. QueueInv => AttemptsBounded
  BY DEF QueueInv, AttemptsLeft, AttemptsBounded
<1> QED
  BY <1>1, QueueInvHolds, PTL

(* The callback only tells of jobs that are done or failed, for good       *)
(* (_execute 377-383).                                                     *)
THEOREM CallbacksTellTheEnd == Spec => []CalledBackWhenFinished
<1>1. QueueInv => CalledBackWhenFinished
  BY DEF QueueInv
<1> QED
  BY <1>1, QueueInvHolds, PTL

(* The detailed queue implements the table that readers rely on: every     *)
(* write of the tasks, the handlers, the purge and a restart is one of     *)
(* JobTable's (db.py 450-499).                                             *)
THEOREM JobsImplementTable == Spec => TableImplemented
<1>1. Init => Table!TableInit
  BY DEF Init, Table!TableInit
<1>2. QueueInv /\ [Next]_vars => [Table!TableNext]_status
  BY NextKept DEF Kept, TableStep
<1> QED
  BY <1>1, <1>2, QueueInvHolds, PTL DEF Spec, TableImplemented, Table!TableSpec

(* What a client was told of a job that is over stays true (finish_job,    *)
(* cancel_job, run 266-276): it follows from the table alone, so whoever   *)
(* implements the table has it.                                            *)
THEOREM JobsEndForGood == Spec => EndedIsFinal
<1>1. ASSUME QueueInv, [Next]_vars
      PROVE  \A j \in Jobs : status[j] \in Ended => status'[j] \in {status[j], "none"}
  <2>1. TableStep
    BY <1>1, NextKept DEF Kept
  <2>2. CASE UNCHANGED status
    BY <2>2
  <2>3. CASE \E j \in Jobs : Table!Purged(j)
    BY <2>3 DEF Table!Purged, Table!Goes
  <2>4. CASE \E S \in SUBSET Jobs : Table!Submitted(S) \/ Table!PutBack(S)
    BY <2>4 DEF Table!Submitted, Table!PutBack, Table!Goes, Ended
  <2>5. CASE \E j \in Jobs : Table!Started(j) \/ Table!Finished(j) \/ Table!CalledOff(j)
    BY <2>5 DEF Table!Started, Table!Finished, Table!CalledOff, Table!Goes, Ended
  <2> QED
    BY <2>1, <2>2, <2>3, <2>4, <2>5 DEF TableStep, Table!TableNext
<1> QED
  BY <1>1, QueueInvHolds, PTL DEF Spec, EndedIsFinal
=============================================================================
