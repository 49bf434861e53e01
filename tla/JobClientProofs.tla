--------------------------- MODULE JobClientProofs ---------------------------
(* What wait and wait_batch return is true and stays true, for any jobs,   *)
(* batches, clients and page size, however late an answer arrives.         *)
EXTENDS JobClient, FiniteSetTheorems, TLAPS

RowType == [id : Jobs, status : T!Anything]
CallType == [kind : {"job"}, of : Jobs] \cup [kind : {"batch"}, of : Batches]

(* Rows say the truth about jobs that are over.                            *)
Truthful(rows) ==
  \A row \in rows :
    /\ row \in RowType
    /\ Batch[row.id] \in sent
    /\ row.status \in Over => status[row.id] \in {row.status, "none"}

(* The rows of a batch of one page show each job that is not over.         *)
Complete(b, rows) ==
  Cardinality(JobsOf(b)) <= Limit =>
    \A j \in Unfinished(b) : \E row \in rows : row.id = j /\ row.status \notin Over

TableInv ==
  /\ status \in [Jobs -> T!Anything]
  /\ sent \subseteq Batches
  /\ \A j \in Jobs : status[j] # "none" => Batch[j] \in sent

CallInv ==
  /\ call = [c \in Clients |-> call[c]]
  /\ \A c \in Clients :
       call[c] # None => /\ call[c] \in CallType
                         /\ call[c].kind = "batch" => call[c].of \in sent

AnswerInv ==
  /\ answer = [c \in Clients |-> answer[c]]
  /\ \A c \in Clients :
       /\ call[c] = None => answer[c] = None
       /\ answer[c] # None =>
            /\ Truthful(answer[c].rows)
            /\ call[c].kind = "batch" => Complete(call[c].of, answer[c].rows)

ResultInv ==
  /\ result = [c \in Clients |-> result[c]]
  /\ \A c \in Clients :
       /\ result[c] # None => call[c] = None
       /\ Returned(c) =>
            /\ Truthful(result[c].rows)
            /\ \A row \in result[c].rows : row.status \in Over
            /\ result[c].of.kind = "batch" =>
                 /\ result[c].of.of \in sent
                 /\ Cardinality(JobsOf(result[c].of.of)) <= Limit =>
                      Unfinished(result[c].of.of) = {}

ClientInv == TableInv /\ CallInv /\ AnswerInv /\ ResultInv

LEMMA InitInv == Init => ClientInv
<1> SUFFICES ASSUME Init PROVE ClientInv
  OBVIOUS
<1>1. TableInv
  BY DEF Init, TableInv, T!TableInit, T!Anything
<1>2. CallInv /\ AnswerInv /\ ResultInv
  BY DEF Init, CallInv, AnswerInv, ResultInv, Returned
<1> QED
  BY <1>1, <1>2 DEF ClientInv

-----------------------------------------------------------------------------
(* The server. *)

(* What its steps leave true of jobs that were submitted.                  *)
Steady ==
  /\ sent \subseteq sent'
  /\ \A j \in Jobs : Batch[j] \in sent =>
       /\ status[j] \in Over => status'[j] \in {status[j], "none"}
       /\ status[j] = "none" => status'[j] = "none"

LEMMA SubmitSteady ==
  ASSUME TableInv, NEW b \in Batches, Submit(b)
  PROVE  TableInv' /\ Steady
<1>1. /\ b \notin sent /\ sent' = sent \cup {b}
      /\ status' = [j \in Jobs |-> IF j \in JobsOf(b) THEN "queued" ELSE status[j]]
  BY DEF Submit, T!Submitted, T!Goes
<1>2. TableInv'
  BY <1>1 DEF TableInv, T!Anything, JobsOf
<1>3. Steady
  BY <1>1 DEF TableInv, Steady, JobsOf
<1> QED
  BY <1>2, <1>3

LEMMA ProceedsSteady ==
  ASSUME TableInv, Proceeds \/ Purge
  PROVE  TableInv' /\ Steady
<1>1. sent' = sent
  BY DEF Proceeds, Purge
<1>2. \A S, From, s : T!Goes(S, From, s) /\ s \in {"running", "queued", "none"} \cup Over
                        /\ "none" \notin From
                        /\ (From \cap Over # {} => s \in {"none"})
        => TableInv' /\ Steady
  BY <1>1 DEF T!Goes, TableInv, Steady, T!Anything, Over, T!Over
<1>3. CASE \E j \in Jobs : T!Started(j)
  BY <1>2, <1>3 DEF T!Started, Over
<1>4. CASE \E j \in Jobs : T!Finished(j)
  BY <1>2, <1>4 DEF T!Finished, T!Over, Over
<1>5. CASE \E j \in Jobs : T!CalledOff(j)
  BY <1>2, <1>5 DEF T!CalledOff, Over
<1>6. CASE \E S \in SUBSET Jobs \ {{}} : T!PutBack(S)
  BY <1>2, <1>6 DEF T!PutBack, Over
<1>7. CASE \E j \in Jobs : T!Purged(j)
  BY <1>2, <1>7 DEF T!Purged, T!Over, Over
<1> QED
  BY <1>3, <1>4, <1>5, <1>6, <1>7 DEF Proceeds, Purge

LEMMA TruthStays ==
  ASSUME TableInv, Steady, NEW rows, Truthful(rows)
  PROVE  Truthful(rows)'
BY DEF TableInv, Steady, Truthful, RowType

LEMMA NoneStarts ==
  ASSUME TableInv, TableInv', Steady, NEW b \in sent
  PROVE  Unfinished(b)' \subseteq Unfinished(b)
BY DEF TableInv, Steady, Unfinished, JobsOf, T!Anything, T!Over, Over

LEMMA ServerInv ==
  ASSUME ClientInv, TableInv', Steady, UNCHANGED <<call, answer, result>>
  PROVE  ClientInv'
<1>1. CallInv'
  BY DEF ClientInv, CallInv, Steady
<1>2. AnswerInv'
  <2> SUFFICES ASSUME NEW c \in Clients, answer[c] # None
               PROVE  /\ Truthful(answer[c].rows)'
                      /\ call[c].kind = "batch" => Complete(call[c].of, answer[c].rows)'
    BY DEF ClientInv, AnswerInv
  <2>1. Truthful(answer[c].rows)'
    BY TruthStays DEF ClientInv, AnswerInv
  <2>2. ASSUME call[c].kind = "batch" PROVE Complete(call[c].of, answer[c].rows)'
    <3>1. call[c].of \in sent /\ Complete(call[c].of, answer[c].rows)
      BY <2>2 DEF ClientInv, AnswerInv, CallInv
    <3>2. Unfinished(call[c].of)' \subseteq Unfinished(call[c].of)
      BY <3>1, NoneStarts DEF ClientInv
    <3> QED
      BY <3>1, <3>2 DEF Complete
  <2> QED
    BY <2>1, <2>2
<1>3. ResultInv'
  <2> SUFFICES ASSUME NEW c \in Clients, Returned(c)
               PROVE  /\ Truthful(result[c].rows)'
                      /\ result[c].of.kind = "batch" =>
                           /\ result[c].of.of \in sent'
                           /\ Cardinality(JobsOf(result[c].of.of)) <= Limit =>
                                Unfinished(result[c].of.of)' = {}
    BY DEF ClientInv, ResultInv, Returned, JobsOf
  <2>1. Truthful(result[c].rows)'
    BY TruthStays DEF ClientInv, ResultInv
  <2>2. ASSUME result[c].of.kind = "batch"
        PROVE  /\ result[c].of.of \in sent /\ sent \subseteq sent'
               /\ Unfinished(result[c].of.of)' \subseteq Unfinished(result[c].of.of)
    <3>1. result[c].of.of \in sent
      BY <2>2 DEF ClientInv, ResultInv
    <3> QED
      BY <3>1, NoneStarts DEF ClientInv, Steady
  <2> QED
    BY <2>1, <2>2 DEF ClientInv, ResultInv
<1> QED
  BY <1>1, <1>2, <1>3 DEF ClientInv

-----------------------------------------------------------------------------
(* The client. *)

LEMMA WaitInv ==
  ASSUME ClientInv, NEW c \in Clients,
         \/ \E j \in Jobs : Wait(c, j)
         \/ \E b \in Batches : WaitBatch(c, b)
  PROVE  ClientInv'
<1>1. PICK new \in CallType :
        /\ new.kind = "batch" => new.of \in sent
        /\ call' = [call EXCEPT ![c] = new]
  <2>1. CASE \E j \in Jobs : Wait(c, j)
    <3>1. PICK j \in Jobs : Wait(c, j)
      BY <2>1
    <3> DEFINE new == [kind |-> "job", of |-> j]
    <3>2. new \in CallType /\ new.kind # "batch"
      BY DEF CallType
    <3> QED
      BY <3>1, <3>2 DEF Wait
  <2>2. CASE \E b \in Batches : WaitBatch(c, b)
    <3>1. PICK b \in Batches : WaitBatch(c, b)
      BY <2>2
    <3> DEFINE new == [kind |-> "batch", of |-> b]
    <3>2. new \in CallType /\ new.of \in sent
      BY <3>1 DEF CallType, WaitBatch
    <3> QED
      BY <3>1, <3>2 DEF WaitBatch
  <2> QED
    BY <2>1, <2>2
<1>2. /\ call[c] = None
      /\ result' = [result EXCEPT ![c] = None]
      /\ UNCHANGED <<status, sent, answer>>
  BY DEF Wait, WaitBatch
<1>3. TableInv'
  BY <1>2 DEF ClientInv, TableInv
<1>4. CallInv'
  BY <1>1, <1>2 DEF ClientInv, CallInv
<1>5. AnswerInv'
  <2>1. \A i \in Clients : answer'[i] # None => i # c /\ call'[i] = call[i]
    BY <1>1, <1>2 DEF ClientInv, AnswerInv, CallInv
  <2>2. \A i \in Clients : call'[i] = None => answer'[i] = None
    BY <1>1, <1>2 DEF ClientInv, AnswerInv, CallInv
  <2>3. \A i \in Clients : Truthful(answer[i].rows)' <=> Truthful(answer[i].rows)
    BY <1>2 DEF Truthful
  <2>4. \A b, rows : Complete(b, rows)' <=> Complete(b, rows)
    BY <1>2 DEF Complete, Unfinished
  <2> QED
    BY <1>2, <2>1, <2>2, <2>3, <2>4 DEF ClientInv, AnswerInv
<1>6. ResultInv'
  <2>1. \A i \in Clients : result'[i] # None => i # c /\ result'[i] = result[i] /\ call'[i] = call[i]
    BY <1>1, <1>2 DEF ClientInv, ResultInv, CallInv
  <2> QED
    BY <1>2, <2>1 DEF ClientInv, ResultInv, Returned, Truthful, Unfinished
<1> QED
  BY <1>3, <1>4, <1>5, <1>6 DEF ClientInv

(* What the server answers is true at that moment; a batch of one page is  *)
(* shown with every job that is there.                                     *)
LEMMA GetJobTrue ==
  ASSUME TableInv, NEW j \in Jobs
  PROVE  Truthful(GetJob(j).rows)
BY DEF TableInv, Truthful, GetJob, Row, RowType

LEMMA ListJobsTrue ==
  ASSUME TableInv, NEW b
  PROVE  Truthful(ListJobs(b).rows)
<1> SUFFICES ASSUME NEW row \in ListJobs(b).rows
             PROVE  /\ row \in RowType
                    /\ Batch[row.id] \in sent
                    /\ status[row.id] = row.status
  BY DEF Truthful
<1>1. PICK j \in Jobs : status[j] # "none" /\ row = Row(j)
  BY DEF ListJobs, JobsOf
<1> QED
  BY <1>1 DEF TableInv, Row, RowType

LEMMA ListJobsComplete ==
  ASSUME TableInv, NEW b
  PROVE  Complete(b, ListJobs(b).rows)
<1> SUFFICES ASSUME Cardinality(JobsOf(b)) <= Limit, NEW j \in Unfinished(b)
             PROVE  \E row \in ListJobs(b).rows : row.id = j /\ row.status \notin Over
  BY DEF Complete
<1> DEFINE there == {i \in JobsOf(b) : status[i] # "none"}
           newer == {k \in there : k > j}
<1>1. j \in there /\ j \in Nat /\ status[j] \notin Over
  BY JobClientAssumption DEF Unfinished, JobsOf, Over
<1>2. IsFiniteSet(JobsOf(b))
  BY JobClientAssumption, FS_Subset DEF JobsOf
<1>3. newer \subseteq JobsOf(b) /\ j \in JobsOf(b) /\ j \notin newer
  BY <1>1
<1> HIDE DEF there, newer
<1>4. newer \subseteq JobsOf(b) \ {j} /\ IsFiniteSet(JobsOf(b) \ {j})
  BY <1>2, <1>3, FS_RemoveElement
<1>5. Cardinality(JobsOf(b) \ {j}) = Cardinality(JobsOf(b)) - 1 /\ Cardinality(JobsOf(b)) \in Nat
  BY <1>2, <1>3, FS_RemoveElement, FS_CardinalityType
<1>6. Cardinality(newer) <= Cardinality(JobsOf(b) \ {j}) /\ Cardinality(newer) \in Nat
  BY <1>4, FS_Subset, FS_CardinalityType
<1>7. Cardinality(newer) < Limit
  BY <1>5, <1>6, JobClientAssumption
<1>8. Row(j) \in ListJobs(b).rows
  BY <1>1, <1>7 DEF ListJobs, there, newer
<1>9. Row(j).id = j /\ Row(j).status \notin Over
  BY <1>1 DEF Row
<1> QED
  BY <1>8, <1>9

LEMMA PollInv ==
  ASSUME ClientInv, NEW c \in Clients, Poll(c)
  PROVE  ClientInv'
<1> DEFINE new == IF call[c].kind = "job" THEN GetJob(call[c].of) ELSE ListJobs(call[c].of)
<1>1. /\ call[c] # None
      /\ answer' = [answer EXCEPT ![c] = new]
      /\ UNCHANGED <<status, sent, call, result>>
  BY DEF Poll
<1>2. call[c] \in CallType
  BY <1>1 DEF ClientInv, CallInv
<1>3. Truthful(new.rows)
  <2>1. CASE call[c].kind = "job"
    <3>1. call[c].of \in Jobs
      BY <1>2, <2>1 DEF CallType
    <3> QED
      BY <2>1, <3>1, GetJobTrue DEF ClientInv
  <2>2. CASE call[c].kind # "job"
    BY <2>2, ListJobsTrue DEF ClientInv
  <2> QED
    BY <2>1, <2>2
<1>4. call[c].kind = "batch" => Complete(call[c].of, new.rows)
  BY ListJobsComplete DEF ClientInv
<1> HIDE DEF new
<1>5. TableInv' /\ CallInv'
  BY <1>1 DEF ClientInv, TableInv, CallInv
<1>6. AnswerInv'
  <2>1. \A rows : Truthful(rows)' <=> Truthful(rows)
    BY <1>1 DEF Truthful
  <2>2. \A b, rows : Complete(b, rows)' <=> Complete(b, rows)
    BY <1>1 DEF Complete, Unfinished
  <2>3. answer'[c] = new /\ \A i \in Clients \ {c} : answer'[i] = answer[i]
    BY <1>1 DEF ClientInv, AnswerInv
  <2>4. answer' = [i \in Clients |-> answer'[i]]
    BY <1>1 DEF ClientInv, AnswerInv
  <2> QED
    BY <1>1, <2>1, <2>2, <2>3, <2>4, <1>3, <1>4 DEF ClientInv, AnswerInv
<1>7. ResultInv'
  BY <1>1 DEF ClientInv, ResultInv, Returned, Truthful, Unfinished
<1> QED
  BY <1>5, <1>6, <1>7 DEF ClientInv

(* A call ends: it raised, or what it returns is over.                     *)
LEMMA EndsInv ==
  ASSUME ClientInv, NEW c \in Clients, NEW end \in {"returned", "raised"}, NEW rows,
         Ends(c, end, rows), call[c] # None,
         end = "returned" => rows = answer[c].rows /\ answer[c] # None /\ AllOver(rows)
  PROVE  ClientInv'
<1> DEFINE new == [end |-> end, of |-> call[c], rows |-> rows]
<1>1. /\ call' = [call EXCEPT ![c] = None]
      /\ answer' = [answer EXCEPT ![c] = None]
      /\ result' = [result EXCEPT ![c] = new]
      /\ UNCHANGED <<status, sent>>
  BY DEF Ends
<1>2. TableInv'
  BY <1>1 DEF ClientInv, TableInv
<1>3. CallInv'
  BY <1>1 DEF ClientInv, CallInv
<1>4. AnswerInv'
  <2>1. \A r : Truthful(r)' <=> Truthful(r)
    BY <1>1 DEF Truthful
  <2>2. \A b, r : Complete(b, r)' <=> Complete(b, r)
    BY <1>1 DEF Complete, Unfinished
  <2>3. answer'[c] = None /\ \A i \in Clients \ {c} : answer'[i] = answer[i] /\ call'[i] = call[i]
    BY <1>1 DEF ClientInv, AnswerInv, CallInv
  <2>4. answer' = [i \in Clients |-> answer'[i]]
    BY <1>1 DEF ClientInv, AnswerInv
  <2> QED
    BY <2>1, <2>2, <2>3, <2>4 DEF ClientInv, AnswerInv
<1>5. end = "returned" =>
        /\ Truthful(rows)
        /\ \A row \in rows : row.status \in Over
        /\ call[c].kind = "batch" =>
             /\ call[c].of \in sent
             /\ Cardinality(JobsOf(call[c].of)) <= Limit => Unfinished(call[c].of) = {}
  <2> SUFFICES ASSUME end = "returned"
               PROVE  /\ Truthful(rows)
                      /\ \A row \in rows : row.status \in Over
                      /\ call[c].kind = "batch" =>
                           /\ call[c].of \in sent
                           /\ Cardinality(JobsOf(call[c].of)) <= Limit => Unfinished(call[c].of) = {}
    OBVIOUS
  <2>1. \A row \in rows : row.status \in Over
    BY DEF AllOver, IsOver
  <2>2. Truthful(rows) /\ (call[c].kind = "batch" => Complete(call[c].of, rows))
    BY DEF ClientInv, AnswerInv
  <2>3. call[c].kind = "batch" => call[c].of \in sent
    BY DEF ClientInv, CallInv
  <2> QED
    BY <2>1, <2>2, <2>3 DEF Complete
<1>6. new.end = end /\ new.of = call[c] /\ new.rows = rows
  OBVIOUS
<1>7. result'[c] = new /\ call'[c] = None
      /\ \A i \in Clients \ {c} : result'[i] = result[i] /\ call'[i] = call[i]
  BY <1>1 DEF ClientInv, ResultInv, CallInv
<1>8. result' = [i \in Clients |-> result'[i]]
  BY <1>1 DEF ClientInv, ResultInv
<1> HIDE DEF new
<1>9. ResultInv'
  <2>1. \A r : Truthful(r)' <=> Truthful(r)
    BY <1>1 DEF Truthful
  <2>2. \A b : Unfinished(b)' = Unfinished(b)
    BY <1>1 DEF Unfinished
  <2> SUFFICES ASSUME NEW i \in Clients
               PROVE  /\ result'[i] # None => call'[i] = None
                      /\ Returned(i)' =>
                           /\ Truthful(result[i].rows)'
                           /\ \A row \in result'[i].rows : row.status \in Over
                           /\ result'[i].of.kind = "batch" =>
                                /\ result'[i].of.of \in sent'
                                /\ Cardinality(JobsOf(result'[i].of.of)) <= Limit =>
                                     Unfinished(result[i].of.of)' = {}
    BY <1>8 DEF ResultInv, JobsOf
  <2>3. CASE i = c
    <3>1. Returned(i)' => end = "returned"
      BY <1>6, <1>7, <2>3 DEF Returned
    <3> QED
      BY <1>1, <1>5, <1>6, <1>7, <2>1, <2>2, <2>3, <3>1 DEF Truthful, Unfinished
  <2>4. CASE i # c
    <3>1. result'[i] = result[i] /\ call'[i] = call[i] /\ (Returned(i)' <=> Returned(i))
      BY <1>7, <2>4 DEF Returned
    <3> QED
      BY <1>1, <3>1 DEF ClientInv, ResultInv, Truthful, Unfinished
  <2> QED
    BY <2>3, <2>4
<1> QED
  BY <1>2, <1>3, <1>4, <1>9 DEF ClientInv

LEMMA SleepsInv ==
  ASSUME ClientInv, NEW c \in Clients, Sleeps(c)
  PROVE  ClientInv'
<1>1. /\ answer' = [answer EXCEPT ![c] = None]
      /\ UNCHANGED <<status, sent, call, result>>
  BY DEF Sleeps
<1>2. TableInv' /\ CallInv'
  BY <1>1 DEF ClientInv, TableInv, CallInv
<1>3. AnswerInv'
  BY <1>1 DEF ClientInv, AnswerInv, Truthful, Complete, Unfinished
<1>4. ResultInv'
  BY <1>1 DEF ClientInv, ResultInv, Returned, Truthful, Unfinished
<1> QED
  BY <1>2, <1>3, <1>4 DEF ClientInv

LEMMA NextInv == ASSUME ClientInv, [Next]_vars PROVE ClientInv'
<1>1. CASE \E b \in Batches : Submit(b)
  <2>1. TableInv' /\ Steady
    BY <1>1, SubmitSteady DEF ClientInv
  <2> QED
    BY <1>1, <2>1, ServerInv DEF Submit
<1>2. CASE Proceeds \/ Purge
  <2>1. TableInv' /\ Steady
    BY <1>2, ProceedsSteady DEF ClientInv
  <2> QED
    BY <1>2, <2>1, ServerInv DEF Proceeds, Purge
<1>3. ASSUME NEW c \in Clients,
             \/ \E j \in Jobs : Wait(c, j)
             \/ \E b \in Batches : WaitBatch(c, b)
             \/ Poll(c) \/ Returns(c) \/ Sleeps(c) \/ TimesOut(c) \/ Raises(c)
      PROVE  ClientInv'
  <2>1. CASE \/ \E j \in Jobs : Wait(c, j)
             \/ \E b \in Batches : WaitBatch(c, b)
    BY <2>1, WaitInv
  <2>2. CASE Poll(c)
    BY <2>2, PollInv
  <2>3. CASE Returns(c)
    <3>1. answer[c] # None /\ AllOver(answer[c].rows) /\ Ends(c, "returned", answer[c].rows)
      BY <2>3 DEF Returns, Answered
    <3>2. call[c] # None
      BY <3>1 DEF ClientInv, AnswerInv
    <3> QED
      BY <3>1, <3>2, EndsInv
  <2>4. CASE Sleeps(c)
    BY <2>4, SleepsInv
  <2>5. CASE TimesOut(c) \/ Raises(c)
    <3>1. Ends(c, "raised", {})
      BY <2>5 DEF TimesOut, Raises
    <3>2. call[c] # None
      BY <2>5 DEF TimesOut, Raises, Answered, ClientInv, AnswerInv
    <3> QED
      BY <3>1, <3>2, EndsInv
  <2> QED
    BY <1>3, <2>1, <2>2, <2>3, <2>4, <2>5
<1>4. CASE UNCHANGED vars
  <2>1. TableInv' /\ Steady
    BY <1>4 DEF ClientInv, TableInv, Steady, vars
  <2> QED
    BY <1>4, <2>1, ServerInv DEF vars
<1> QED
  BY <1>1, <1>2, <1>3, <1>4 DEF Next

-----------------------------------------------------------------------------
(* The theorems. *)

LEMMA ClientInvHolds == Spec => []ClientInv
BY InitInv, NextInv, PTL DEF Spec

(* An answer is on its way only to a client that waits, and a result is of *)
(* a call that is over (opx_client.py 144-163).                            *)
THEOREM ClientTyped == Spec => []TypeOK
<1>1. ClientInv => TypeOK
  BY DEF ClientInv, TableInv, CallInv, CallType, AnswerInv, ResultInv, TypeOK
<1> QED
  BY <1>1, ClientInvHolds, PTL

(* Every job that wait or wait_batch returned is over, with that status    *)
(* for as long as its row is there, however long the answer took and       *)
(* whatever the table did meanwhile (opx_client.py 147-160).               *)
THEOREM AnswersStayTrue == Spec => []ReturnedStaysTrue
<1>1. ClientInv => ReturnedStaysTrue
  BY DEF ClientInv, ResultInv, ReturnedStaysTrue, Truthful
<1> QED
  BY <1>1, ClientInvHolds, PTL

(* wait_batch returns when nothing of the batch is left to do, for every   *)
(* page size and every batch that fits the page (opx_client.py 155-160).   *)
THEOREM OnePageIsEnough == Spec => []SmallBatchIsOver
<1>1. ClientInv => SmallBatchIsOver
  BY DEF ClientInv, ResultInv, SmallBatchIsOver, BatchReturned
<1> QED
  BY <1>1, ClientInvHolds, PTL
=============================================================================
