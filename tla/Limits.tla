------------------------------- MODULE Limits -------------------------------
(***************************************************************************)
(* The limits of a key: requests per minute (jobs.py RateLimiter, a        *)
(* sliding window that proxied inference and submitted jobs share) and     *)
(* jobs in the queue (mgmt.py _enqueue).                                   *)
(*                                                                         *)
(* A proxied request takes its key's own limit with it on arrival, before  *)
(* it awaits its body (proxy.py 354, 401), and counts against it when the  *)
(* body is there (365, 425); a limit of 0 is replaced by the default of    *)
(* that moment.  A submission reads its limits and inserts its jobs        *)
(* without an await.  The limiter lives in the memory of the process, the  *)
(* jobs in the database.                                                   *)
(*                                                                         *)
(* The history variable log is what a key was let through with, without a  *)
(* limit and before a restart too: the limiter knows neither.              *)
(***************************************************************************)
EXTENDS Integers, Sequences, FiniteSets

CONSTANTS
  Keys,
  Session,      \* the administrator's cookie: no key, so never rate limited
  Requests,     \* proxied requests that may be under way at a time
  None,
  Window,       \* ticks in the 60 s of the window
  Second,       \* ticks in a second
  FirstLimit,   \* the limits at start, of a key and by default
  NewLimits,    \* limits the administrator may set
  MaxBatch,     \* bound: jobs in a submission
  MaxActive,    \* bound: jobs of a caller in the queue
  MaxHits,      \* bound: entries of a key in the log
  MaxTime,      \* bound: ticks
  MaxChanges    \* bound: changes of limits and restarts

Callers == Keys \cup {Session}
LimitType == [rate : Nat, jobs : Nat]     \* 0: the default, or no limit at all

ASSUME LimitsAssumption ==
  /\ Session \notin Keys
  /\ Window \in Nat \ {0} /\ Second \in Nat \ {0}
  /\ FirstLimit \in LimitType /\ NewLimits \subseteq LimitType
  /\ MaxBatch \in Nat /\ MaxActive \in Nat /\ MaxHits \in Nat
  /\ MaxTime \in Nat /\ MaxChanges \in Nat

VARIABLES
  now,       \* time.monotonic()
  log,       \* history: what hit has let pass, and under which limit
  queue,     \* the deque of a key: which entries of the log it holds
  life,      \* restarts so far
  arrived,   \* proxied requests that await their body: the key's own limit then
  active,    \* jobs of a caller that are queued or running
  own,       \* the columns max_jobs and rate_per_min of a key
  default,   \* the settings jobs_max_queued and rate_limit_per_min
  told,      \* what the last refusal of a key promised
  unlogged,  \* somebody was refused with 429 and the request log has no row of it
  changes

vars == <<now, log, queue, life, arrived, active, own, default, told, unlogged, changes>>

EntryType == [at : Nat, rate : Nat, life : Nat]     \* rate 0: there was no limit
ToldType == [until : Nat, size : Nat, held : Nat]   \* held: entries in the deque then

TypeOK ==
  /\ now \in Nat
  /\ log \in [Keys -> Seq(EntryType)]
  /\ queue \in [Keys -> SUBSET Nat]
  /\ life \in Nat
  /\ arrived \in [Requests -> [key : Keys, rate : Nat] \cup {None}]
  /\ active \in [Callers -> Nat]
  /\ own \in [Keys -> LimitType] /\ default \in LimitType
  /\ told \in [Keys -> ToldType \cup {None}]
  /\ unlogged \in BOOLEAN
  /\ changes \in Nat

Init ==
  /\ now = 0
  /\ log = [k \in Keys |-> << >>] /\ queue = [k \in Keys |-> {}]
  /\ life = 0
  /\ arrived = [q \in Requests |-> None]
  /\ active = [c \in Callers |-> 0]
  /\ own = [k \in Keys |-> FirstLimit] /\ default = FirstLimit
  /\ told = [k \in Keys |-> None]
  /\ unlogged = FALSE
  /\ changes = 0

-----------------------------------------------------------------------------
(* key_limit: the key's own limit, or the default when it is 0.            *)
OrDefault(rate) == IF rate # 0 THEN rate ELSE default.rate
Rate(k) == OrDefault(own[k].rate)
Cap(c) == IF c \in Keys /\ own[c].jobs # 0 THEN own[c].jobs ELSE default.jobs

(* What is left of the deque when all that has expired is popped.          *)
Recent(k, i) == now - log[k][i].at < Window
Live(k) == {i \in queue[k] : Recent(k, i)}

(* How many of n hits in a row are let pass.                               *)
OneTooMany(k, limit, n) ==                                                    \* Mutant
  LET free == limit - Cardinality(Live(k)) + 1 IN
  IF n <= free THEN n ELSE IF free > 0 THEN free ELSE 0
Accepted(k, limit, n) ==
  LET free == limit - Cardinality(Live(k)) IN
  IF n <= free THEN n ELSE IF free > 0 THEN free ELSE 0

Logged(k, limit, c) ==
  log' = [log EXCEPT ![k] = @ \o [i \in 1..c |-> [at |-> now, rate |-> limit, life |-> life]]]

(* int(rest) + 1 for the rest of the oldest hit's minute: h - 1 <= rest < h.*)
Oldest(k) == {i \in Live(k) : \A j \in Live(k) : i <= j}
Rest(k) == IF Live(k) = {} THEN {Window}
                           ELSE {Window - (now - log[k][i].at) : i \in Oldest(k)}
RoundsDown(rest, h) ==                                                        \* Mutant
  IF rest < Second THEN h = 1 ELSE h = rest \div Second
RetryAfter(rest, h) == (h - 1) * Second <= rest /\ rest < h * Second

(* n calls of hit, one after the other, until one is refused.              *)
Hits(k, limit, n) ==
  LET c == Accepted(k, limit, n) IN
  /\ Len(log[k]) + c <= MaxHits
  /\ Logged(k, limit, c)
  /\ queue' = [queue EXCEPT ![k] = Live(k) \cup (Len(log[k]) + 1)..(Len(log[k]) + c)]
  /\ IF c = n
     THEN told' = [told EXCEPT ![k] = None]
     ELSE \E rest \in Rest(k), h \in 1..(Window + 1) :
            /\ RetryAfter(rest, h)
            /\ told' = [told EXCEPT ![k] = [until |-> now + h * Second, size |-> n,
                                            held |-> Cardinality(Live(k)) + c]]

(* Without a limit nothing is recorded, and nothing is popped either.      *)
Unlimited(k, n) ==
  /\ Len(log[k]) + n <= MaxHits
  /\ Logged(k, 0, n)
  /\ UNCHANGED <<queue, told>>

CallsHit(k, limit, n) == IF limit = 0 THEN Unlimited(k, n) ELSE Hits(k, limit, n)
Pays(k, limit, n) == limit = 0 \/ Accepted(k, limit, n) = n
NoHit == UNCHANGED <<log, queue, told>>

-----------------------------------------------------------------------------
(* A proxied inference request of a key: its principal is read.            *)
Arrive(q, k) ==
  /\ arrived[q] = None
  /\ arrived' = [arrived EXCEPT ![q] = [key |-> k, rate |-> own[k].rate]]
  /\ NoHit
  /\ UNCHANGED <<now, life, active, own, default, unlogged, changes>>

(* Its body is there (rate_limited), or it ends before it is counted: the  *)
(* client is gone, the model denied.  A refusal is logged.                 *)
BodyRead(q) ==
  /\ arrived[q] # None
  /\ arrived' = [arrived EXCEPT ![q] = None]
  /\ NoHit \/ CallsHit(arrived[q].key, OrDefault(arrived[q].rate), 1)
  /\ UNCHANGED <<now, life, active, own, default, unlogged, changes>>

(* POST /jobs: every item is checked before the limits are looked at; one  *)
(* that fails (404, 403, 422) refuses the whole batch.                     *)
Rejected == NoHit /\ UNCHANGED <<active, unlogged>>

OverCap(c, n) == Cap(c) # 0 /\ active[c] + n > Cap(c)

(* Past the cap a token is taken for every job; all jobs go in, or none.   *)
InsertsPaidPart(c, n) ==                                                      \* Mutant
  /\ ~OverCap(c, n)
  /\ active' = [active EXCEPT ![c] = @ + n]
  /\ UNCHANGED unlogged
  /\ IF c \in Keys THEN CallsHit(c, Rate(c), n) ELSE NoHit
Enqueue(c, n) ==
  IF OverCap(c, n)
  THEN unlogged' = TRUE /\ NoHit /\ UNCHANGED active
  ELSE /\ IF c \in Keys THEN CallsHit(c, Rate(c), n) ELSE NoHit
       /\ IF c \in Keys => Pays(c, Rate(c), n)
          THEN active' = [active EXCEPT ![c] = @ + n] /\ UNCHANGED unlogged
          ELSE unlogged' = TRUE /\ UNCHANGED active

Submit(c, n) ==
  /\ active[c] + n <= MaxActive
  /\ Rejected \/ Enqueue(c, n)
  /\ UNCHANGED <<now, life, arrived, own, default, changes>>

(* A job is done, failed or cancelled.                                     *)
JobEnds(c) ==
  /\ active[c] > 0
  /\ active' = [active EXCEPT ![c] = @ - 1]
  /\ NoHit
  /\ UNCHANGED <<now, life, arrived, own, default, unlogged, changes>>

Tick ==
  /\ now < MaxTime
  /\ now' = now + 1
  /\ NoHit
  /\ UNCHANGED <<life, arrived, active, own, default, unlogged, changes>>

ChangeLimits ==
  /\ changes < MaxChanges
  /\ changes' = changes + 1
  /\ \E l \in NewLimits :
       \/ default' = l /\ UNCHANGED own
       \/ \E k \in Keys : own' = [own EXCEPT ![k] = l] /\ UNCHANGED default
  /\ NoHit
  /\ UNCHANGED <<now, life, arrived, active, unlogged>>

(* The limiter and the requests are gone, the jobs are not.                *)
Restart ==
  /\ changes < MaxChanges
  /\ changes' = changes + 1
  /\ life' = life + 1
  /\ queue' = [k \in Keys |-> {}]
  /\ arrived' = [q \in Requests |-> None]
  /\ UNCHANGED <<now, log, active, own, default, told, unlogged>>

Next ==
  \/ \E q \in Requests : (\E k \in Keys : Arrive(q, k)) \/ BodyRead(q)
  \/ \E c \in Callers : (\E n \in 1..MaxBatch : Submit(c, n)) \/ JobEnds(c)
  \/ Tick \/ ChangeLimits \/ Restart

Spec == Init /\ [][Next]_vars

-----------------------------------------------------------------------------
(* Properties                                                              *)

(* Entry n of the log and those of the 60 s before it.                     *)
Minute(k, n) == {i \in 1..n : log[k][n].at - log[k][i].at < Window}
Counted(k, n) == {i \in Minute(k, n) : /\ log[k][i].rate # 0
                                       /\ log[k][i].life = log[k][n].life}

(* Whenever a key is let through under a limit, it was let through at most *)
(* that often in the 60 s that end there, however single requests, batches *)
(* and requests that arrived under another limit mix, whatever the limit   *)
(* was before, and with no limit for a while; not counting what passed     *)
(* while there was no limit or before a restart (jobs.py 80-95).           *)
WindowRespected ==
  \A k \in Keys : \A n \in 1..Len(log[k]) :
    log[k][n].rate # 0 => Cardinality(Counted(k, n)) <= log[k][n].rate

(* The same with everything counted: it is false, the limiter does not     *)
(* record what passes without a limit and forgets all at a restart.        *)
WindowAlways ==
  \A k \in Keys : \A n \in 1..Len(log[k]) :
    log[k][n].rate # 0 => Cardinality(Minute(k, n)) <= log[k][n].rate

(* Whoever waits as long as Retry-After says finds fewer hits in his       *)
(* window than when he was refused, unless his key was let through         *)
(* meanwhile: at the edge of the half-open minute, after a batch that was  *)
(* cut short, whatever the limits have become and over a restart.  That is *)
(* room for one when the window held no more than the limit (hit, jobs.py  *)
(* 88-95); when it held more, the limit was lowered, see HintLetsIn.       *)
HintSuffices ==
  \A k \in Keys :
    told[k] # None /\ now >= told[k].until => Cardinality(Live(k)) < told[k].held

Fits(k, n) == Rate(k) = 0 \/ Cardinality(Live(k)) + n <= Rate(k)

(* He is let through: false with the limit lowered to less than the window *)
(* holds, before or after the refusal; the hint looks at the oldest hit    *)
(* only (jobs.py 91-92).                                                   *)
HintLetsIn ==
  \A k \in Keys :
    told[k] # None /\ told[k].size = 1 /\ now >= told[k].until => Fits(k, 1)

(* A batch that was refused fits: false also with limits that stay, the    *)
(* part that was let pass has taken the tokens the next attempt needs.     *)
BatchHintSuffices ==
  \A k \in Keys : told[k] # None /\ now >= told[k].until => Fits(k, told[k].size)

(* The queue of a caller grows only within his cap, and only by jobs he    *)
(* paid a token each for, when he is rate limited (mgmt.py 306-322).       *)
GrowsPaidAndCapped ==
  [][\A c \in Callers : active'[c] > active[c] =>
       /\ Cap(c) # 0 => active'[c] <= Cap(c)
       /\ c \in Keys /\ Rate(c) # 0 =>
            Len(log'[c]) - Len(log[c]) = active'[c] - active[c]]_vars

(* Whoever is over a limit is in the request log with status 429           *)
(* (README.md 217-218): false of the submission of jobs.                   *)
RefusalsLogged == ~unlogged
=============================================================================
