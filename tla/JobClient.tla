----------------------------- MODULE JobClient -----------------------------
(***************************************************************************)
(* Clients that wait for their jobs by asking: OpxClient.wait and          *)
(* wait_batch (src/clients/opx_client.py 144-163) over GET /jobs/{id} and  *)
(* GET /jobs?batch=... (mgmt.py 352-373), on a table of which they know    *)
(* what JobTable promises.  An answer is on its way while the table goes   *)
(* on; a call may fail, and wait raises it; rows are purged.               *)
(***************************************************************************)
EXTENDS Integers, FiniteSets

CONSTANTS
    Jobs,       \* ids: what is created later has the greater one
    Batch,      \* batch_id of each job
    Clients,
    Hurried,    \* clients that give a timeout
    Limit,      \* limit=500 of OpxClient.batch
    None

ASSUME JobClientAssumption ==
    /\ Jobs \subseteq Nat /\ IsFiniteSet(Jobs)
    /\ Batch \in [Jobs -> {Batch[j] : j \in Jobs}]
    /\ Hurried \subseteq Clients
    /\ Limit \in Nat \ {0}

VARIABLES
    status,     \* the table
    sent,       \* batches that were submitted; their ids are never given again
    call,       \* what a client waits for: [kind, of], or None
    answer,     \* an answer on its way: [found, rows], or None
    result      \* what the last call of a client came to: [end, of, rows], or None

vars == <<status, sent, call, answer, result>>

T == INSTANCE JobTable
Batches == {Batch[j] : j \in Jobs}
JobsOf(b) == {j \in Jobs : Batch[j] = b}
Over == {"done", "error", "cancelled"}

Init ==
    /\ T!TableInit
    /\ sent = {}
    /\ call = [c \in Clients |-> None]
    /\ answer = [c \in Clients |-> None]
    /\ result = [c \in Clients |-> None]

-----------------------------------------------------------------------------
(* The server.                                                             *)
Submit(b) ==
    /\ b \notin sent
    /\ sent' = sent \cup {b}
    /\ T!Submitted(JobsOf(b))
    /\ UNCHANGED <<call, answer, result>>

Proceeds ==
    /\ \/ \E j \in Jobs : T!Started(j) \/ T!Finished(j) \/ T!CalledOff(j)
       \/ \E S \in SUBSET Jobs \ {{}} : T!PutBack(S)
    /\ UNCHANGED <<sent, call, answer, result>>

Purge ==
    /\ \E j \in Jobs : T!Purged(j)
    /\ UNCHANGED <<sent, call, answer, result>>

Row(j) == [id |-> j, status |-> status[j]]

(* GET /jobs/{id}; a row that is not there is an HTTP error.               *)
GetJob(j) == IF status[j] = "none" THEN [found |-> FALSE, rows |-> {}]
                                   ELSE [found |-> TRUE, rows |-> {Row(j)}]

(* GET /jobs?batch=...: ORDER BY id DESC LIMIT.                            *)
ListJobs(b) ==
    LET there == {j \in JobsOf(b) : status[j] # "none"}
        page == {i \in there : Cardinality({k \in there : k > i}) < Limit}
    IN  [found |-> TRUE, rows |-> {Row(j) : j \in page}]

-----------------------------------------------------------------------------
(* The client.                                                             *)
Wait(c, j) ==
    /\ call[c] = None
    /\ Batch[j] \in sent
    /\ call' = [call EXCEPT ![c] = [kind |-> "job", of |-> j]]
    /\ result' = [result EXCEPT ![c] = None]
    /\ UNCHANGED <<status, sent, answer>>

WaitBatch(c, b) ==
    /\ call[c] = None
    /\ b \in sent
    /\ call' = [call EXCEPT ![c] = [kind |-> "batch", of |-> b]]
    /\ result' = [result EXCEPT ![c] = None]
    /\ UNCHANGED <<status, sent, answer>>

(* The server answers a poll.                                              *)
Poll(c) ==
    /\ call[c] # None /\ answer[c] = None
    /\ answer' = [answer EXCEPT ![c] =
          IF call[c].kind = "job" THEN GetJob(call[c].of) ELSE ListJobs(call[c].of)]
    /\ UNCHANGED <<status, sent, call, result>>

\* Mutant: a job that is no longer queued is taken for finished
NotQueued(row) == row.status # "queued"
\* Mutant: a cancelled job is waited for
DoneOrError(row) == row.status \in {"done", "error"}

IsOver(row) == row.status \in Over

\* Mutant: one that is over is enough
SomeOver(rows) == \E row \in rows : IsOver(row)

AllOver(rows) == rows # {} /\ \A row \in rows : IsOver(row)

Ends(c, end, rows) ==
    /\ call' = [call EXCEPT ![c] = None]
    /\ answer' = [answer EXCEPT ![c] = None]
    /\ result' = [result EXCEPT ![c] = [end |-> end, of |-> call[c], rows |-> rows]]
    /\ UNCHANGED <<status, sent>>

Answered(c) == answer[c] # None /\ answer[c].found

Returns(c) ==
    /\ Answered(c)
    /\ AllOver(answer[c].rows)
    /\ Ends(c, "returned", answer[c].rows)

(* Sleeps for the poll interval and asks again, or its time is up.         *)
Sleeps(c) ==
    /\ Answered(c)
    /\ ~AllOver(answer[c].rows)
    /\ answer' = [answer EXCEPT ![c] = None]
    /\ UNCHANGED <<status, sent, call, result>>

TimesOut(c) ==
    /\ c \in Hurried
    /\ Answered(c)
    /\ ~AllOver(answer[c].rows)
    /\ Ends(c, "raised", {})

(* HTTP 404, or no connection: OpxError.  A batch that is not there is an  *)
(* empty list, and is asked for again.                                     *)
Raises(c) ==
    /\ call[c] # None
    /\ ~Answered(c)
    /\ Ends(c, "raised", {})

Next ==
    \/ \E b \in Batches : Submit(b)
    \/ Proceeds \/ Purge
    \/ \E c \in Clients :
          \/ \E j \in Jobs : Wait(c, j)
          \/ \E b \in Batches : WaitBatch(c, b)
          \/ Poll(c) \/ Returns(c) \/ Sleeps(c) \/ TimesOut(c) \/ Raises(c)

Spec == Init /\ [][Next]_vars

(* The network delivers and time passes; nothing is assumed of the jobs.   *)
FairSpec ==
    /\ Spec
    /\ \A c \in Clients : WF_vars(Poll(c)) /\ WF_vars(Returns(c) \/ Sleeps(c) \/ Raises(c))

-----------------------------------------------------------------------------
(* The types; an answer is on its way only to a client that waits.         *)
TypeOK ==
    /\ status \in [Jobs -> T!Anything]
    /\ sent \subseteq Batches
    /\ \A c \in Clients :
          /\ call[c] # None => call[c].kind \in {"job", "batch"}
          /\ call[c] = None => answer[c] = None
          /\ result[c] # None => call[c] = None

Returned(c) == result[c] # None /\ result[c].end = "returned"

(* What wait and wait_batch returned is true and stays true: every job in  *)
(* it is over, and its row has that status for as long as there is a row,  *)
(* however late the answer came.                                           *)
ReturnedStaysTrue ==
    \A c \in Clients : Returned(c) =>
        \A row \in result[c].rows :
            /\ row.status \in Over
            /\ status[row.id] \in {row.status, "none"}

BatchReturned(c) == Returned(c) /\ result[c].of.kind = "batch"
Unfinished(b) == {j \in JobsOf(b) : status[j] \in {"queued", "running"}}

(* When wait_batch returned, no job of the batch is to do any more: true   *)
(* of a batch that fits one page of the list.                              *)
SmallBatchIsOver ==
    \A c \in Clients : BatchReturned(c) =>
        (Cardinality(JobsOf(result[c].of.of)) <= Limit => Unfinished(result[c].of.of) = {})

(* README.md 172, mgmt.py 355: the whole batch with one call. False of     *)
(* more jobs than the list gives at once.                                  *)
BatchIsOver ==
    \A c \in Clients : BatchReturned(c) => Unfinished(result[c].of.of) = {}

(* opx_client.py 145: waits until the job is done, error or cancelled. A   *)
(* client whose job is over gets it, or an error; one whose batch is over  *)
(* gets it, unless the whole batch was purged first.                       *)
WaitEnds ==
    \A c \in Clients :
        /\ \A j \in Jobs :
              (call[c] = [kind |-> "job", of |-> j] /\ status[j] \in Over) ~> (call[c] = None)
        /\ \A b \in Batches :
              (call[c] = [kind |-> "batch", of |-> b] /\ Unfinished(b) = {})
                  ~> (call[c] = None \/ \A j \in JobsOf(b) : status[j] = "none")
=============================================================================
