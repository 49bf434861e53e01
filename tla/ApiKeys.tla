------------------------------ MODULE ApiKeys ------------------------------
(***************************************************************************)
(* Who asks, and on whose behalf: the api_keys table with the calls of     *)
(* /mgmt/v1/keys (mgmt.py 503-572) and the forms of /ui/keys (ui.py        *)
(* 429-493), sessions of the GUI and their CSRF tokens (auth.py 36-63,     *)
(* ui.py 86-155), principal_from_request (auth.py 143-163), and what hangs *)
(* on the id of a key beyond its row: the jobs submitted with it.          *)
(*                                                                         *)
(* A key is known by its plaintext, of which the table has the hash: here  *)
(* a number that is never given out twice. limit stands for the columns    *)
(* max_jobs and rate_per_min, which are always written together by a form  *)
(* and one by one, but alike, by PUT.                                      *)
(***************************************************************************)
EXTENDS Naturals, FiniteSets, FiniteSetsExt

CONSTANTS
    Browsers,     \* browsers with the GUI open
    Patterns,     \* model patterns
    Limits,       \* values of a limit, 0 = the default from the settings
    None,
    Session,      \* the caller of the API that shows a session cookie
    MaxKeys,      \* bound on keys that are created
    MaxLogins     \* bound on sessions that are begun

(* What an instance has to give. *)
ConstantsOK ==
    /\ 0 \in Limits /\ Limits \subseteq Nat
    /\ MaxKeys \in Nat /\ MaxLogins \in Nat
    /\ None \notin Limits

VARIABLES
    keys,       \* the table: id -> row or None
    lastId,     \* the highest id ever given (AUTOINCREMENT)
    made,       \* how many keys were created; the plaintexts are 1 .. made
    jobs,       \* jobs in the queue: [key_id, by], by is the plaintext that submitted it
    cookie,     \* the session cookie of a browser, 0 = none
    logins,     \* sessions begun; 1 .. logins are those sessions
    expired,    \* sessions that are past SESSION_TTL
    page,       \* the page of keys a browser shows: [csrf, rows]
    sent        \* a form that is on its way to its handler

table == <<keys, lastId, made, jobs>>
browser == <<cookie, logins, expired, page, sent>>
vars == <<table, browser>>

Ids == 1 .. MaxKeys
Plain == 1 .. MaxKeys
Roles == {"admin", "client"}
Rows == [plain : Plain, role : Roles, models : SUBSET Patterns, limit : Limits]
Present == {id \in Ids : keys[id] # None}

Init ==
    /\ keys = [id \in Ids |-> None] /\ lastId = 0 /\ made = 0 /\ jobs = {}
    /\ cookie = [b \in Browsers |-> 0] /\ logins = 0 /\ expired = {}
    /\ page = [b \in Browsers |-> None] /\ sent = [b \in Browsers |-> None]

-----------------------------------------------------------------------------
(* Sessions: a cookie is good while its time is not over.                  *)
CurrentUser(b) == cookie[b] # 0 /\ cookie[b] \notin expired

(* A session is the user and the second in which it ends: who logs in      *)
(* within the second of the last login gets that very session, and with it *)
(* the token of the pages that are still open.                             *)
Login(b) ==
    /\ \E t \in {logins, logins + 1} :
          /\ t \in 1 .. MaxLogins /\ t \notin expired
          /\ logins' = t
          /\ cookie' = [cookie EXCEPT ![b] = t]
    /\ UNCHANGED <<table, expired, page, sent>>

Logout(b) ==
    /\ cookie[b] # 0
    /\ cookie' = [cookie EXCEPT ![b] = 0]
    /\ UNCHANGED <<table, logins, expired, page, sent>>

SessionExpires(t) ==
    /\ t \in 1 .. logins
    /\ expired' = expired \cup {t}
    /\ UNCHANGED <<table, cookie, logins, page, sent>>

(* principal_from_request: a plaintext by its row, else the session.       *)
Principal(by) ==
    IF by = Session
    THEN IF \E b \in Browsers : CurrentUser(b) THEN [kind |-> "session", role |-> "admin", key_id |-> None]
         ELSE None
    ELSE LET own == {id \in Present : keys[id].plain = by}
         IN  IF own = {} THEN None
             ELSE LET id == CHOOSE id \in own : TRUE
                  IN  [kind |-> "key", role |-> keys[id].role, key_id |-> id]

IsAdmin(by) == Principal(by) # None /\ Principal(by).role = "admin"
Callers == 1 .. made \cup {Session}

-----------------------------------------------------------------------------
\* Mutant: the table gives the id after the highest one that is there
ReusesId == IF Present = {} THEN 1 ELSE Max(Present) + 1

NewId == lastId + 1

CreateKey(role, models, limit) ==
    /\ made < MaxKeys
    /\ made' = made + 1
    /\ lastId' = NewId
    /\ keys' = [keys EXCEPT ![NewId] =
          [plain |-> made + 1, role |-> role, models |-> models, limit |-> limit]]
    /\ UNCHANGED jobs

(* Updates name a row by its id, and change nothing when there is none.    *)
UpdateModels(id, models) ==
    IF keys[id] = None THEN keys ELSE [keys EXCEPT ![id].models = models]

\* Mutant: a row that is not there is written anew
UpsertsKey(id, models, limit) ==
    /\ keys' = [keys EXCEPT ![id] = [plain |-> id, role |-> "client", models |-> models, limit |-> limit]]
    /\ UNCHANGED <<lastId, made, jobs>>

(* update_key_models and update_key_limits, as a form writes them.         *)
UpdateRow(id, models, limit) ==
    /\ keys' = IF keys[id] = None THEN keys
               ELSE [keys EXCEPT ![id].models = models, ![id].limit = limit]
    /\ UNCHANGED <<lastId, made, jobs>>

DeleteRow(id) ==
    /\ keys' = [keys EXCEPT ![id] = None]
    /\ UNCHANGED <<lastId, made, jobs>>

-----------------------------------------------------------------------------
(* The calls of the API. What PUT does not name (None) stays as it is.     *)
ApiCreate(by, role, models, limit) ==
    /\ IsAdmin(by)
    /\ CreateKey(role, models, limit)
    /\ UNCHANGED browser

ApiUpdate(by, id, models, limit) ==
    /\ IsAdmin(by)
    /\ keys[id] # None
    /\ UpdateRow(id, IF models = None THEN keys[id].models ELSE models,
                     IF limit = None THEN keys[id].limit ELSE limit)
    /\ UNCHANGED browser

ApiUpdateModels(by, id, models) ==
    /\ IsAdmin(by)
    /\ keys[id] # None
    /\ keys' = UpdateModels(id, models)
    /\ UNCHANGED <<lastId, made, jobs, browser>>

\* Mutant: any admin may delete any key
DeletesOwnKey(by, id) ==
    /\ IsAdmin(by)
    /\ keys[id] # None
    /\ DeleteRow(id)
    /\ UNCHANGED browser

ApiDelete(by, id) ==
    /\ IsAdmin(by)
    /\ Principal(by).key_id # id
    /\ keys[id] # None
    /\ DeleteRow(id)
    /\ UNCHANGED browser

(* POST /mgmt/v1/jobs with a key: the job belongs to the id of the key.    *)
SubmitJob(by) ==
    LET p == Principal(by)
    IN  /\ by # Session
        /\ p # None
        /\ jobs' = jobs \cup {[key_id |-> p.key_id, by |-> by]}
        /\ UNCHANGED <<keys, lastId, made, browser>>

-----------------------------------------------------------------------------
(* The GUI. The rows of the page are those of list_keys, which does not    *)
(* select the limits: the template shows 0 for a column that is missing.   *)
ListKeys(id) == [models |-> keys[id].models]
Shown(row) == [models |-> row.models, limit |-> IF "limit" \in DOMAIN row THEN row.limit ELSE 0]

KeysPage(b) ==
    /\ CurrentUser(b)
    /\ page[b] = None
    /\ page' = [page EXCEPT ![b] = [csrf |-> cookie[b], rows |-> [id \in Present |-> ListKeys(id)]]]
    /\ UNCHANGED <<table, cookie, logins, expired, sent>>

(* A button of the page: the handler finds the user and awaits the form.   *)
SendForm(b, f) ==
    /\ CurrentUser(b)
    /\ page[b] # None /\ sent[b] = None
    /\ sent' = [sent EXCEPT ![b] = [form |-> f, cookie |-> cookie[b], csrf |-> page[b].csrf,
                                    shown |-> IF f.op = "models" THEN Shown(page[b].rows[f.id]) ELSE None]]
    /\ page' = [page EXCEPT ![b] = None]
    /\ UNCHANGED <<table, cookie, logins, expired>>

SaveModels(b, id, models, limit) ==
    /\ page[b] # None /\ id \in DOMAIN page[b].rows
    /\ SendForm(b, [op |-> "models", id |-> id, models |-> models, limit |-> limit])

PressDelete(b, id) ==
    /\ page[b] # None /\ id \in DOMAIN page[b].rows
    /\ SendForm(b, [op |-> "delete", id |-> id])

NewKey(b, role, models, limit) ==
    SendForm(b, [op |-> "create", role |-> role, models |-> models, limit |-> limit])

(* form_with_csrf: the token of the page is that of the cookie it came     *)
(* with.                                                                   *)
FormWithCsrf(b) == sent[b].csrf = sent[b].cookie

Handled(b) ==
    /\ sent[b] # None
    /\ sent' = [sent EXCEPT ![b] = None]
    /\ UNCHANGED <<cookie, logins, expired, page>>

KeysModels(b) ==
    /\ Handled(b) /\ FormWithCsrf(b)
    /\ sent[b].form.op = "models"
    /\ UpdateRow(sent[b].form.id, sent[b].form.models, sent[b].form.limit)

KeysDelete(b) ==
    /\ Handled(b) /\ FormWithCsrf(b)
    /\ sent[b].form.op = "delete"
    /\ DeleteRow(sent[b].form.id)

KeysCreate(b) ==
    /\ Handled(b) /\ FormWithCsrf(b)
    /\ sent[b].form.op = "create"
    /\ CreateKey(sent[b].form.role, sent[b].form.models, sent[b].form.limit)

FormExpired(b) == Handled(b) /\ ~FormWithCsrf(b) /\ UNCHANGED table

Gui(b) ==
    \/ Login(b) \/ Logout(b) \/ KeysPage(b)
    \/ \E id \in Ids : PressDelete(b, id)
                       \/ \E models \in SUBSET Patterns, limit \in Limits : SaveModels(b, id, models, limit)
    \/ \E role \in Roles, models \in SUBSET Patterns, limit \in Limits : NewKey(b, role, models, limit)
    \/ KeysModels(b) \/ KeysDelete(b) \/ KeysCreate(b) \/ FormExpired(b)

Api(by) ==
    \/ \E role \in Roles, models \in SUBSET Patterns, limit \in Limits : ApiCreate(by, role, models, limit)
    \/ \E id \in Ids, models \in (SUBSET Patterns) \cup {None}, limit \in Limits \cup {None} :
          ApiUpdate(by, id, models, limit)
    \/ \E id \in Ids : ApiDelete(by, id) \/ \E models \in SUBSET Patterns : ApiUpdateModels(by, id, models)
    \/ SubmitJob(by)

Next ==
    \/ \E b \in Browsers : Gui(b)
    \/ \E by \in Callers : Api(by)
    \/ \E t \in 1 .. MaxLogins : SessionExpires(t)

Spec == Init /\ [][Next]_vars

-----------------------------------------------------------------------------
(* The types; no two rows have one plaintext, and no id is above lastId.   *)
TypeOK ==
    /\ keys \in [Ids -> Rows \cup {None}]
    /\ lastId \in 0 .. MaxKeys /\ made \in 0 .. MaxKeys
    /\ jobs \subseteq [key_id : Ids, by : Plain]
    /\ cookie \in [Browsers -> 0 .. logins] /\ expired \subseteq 1 .. logins
    /\ \A id \in Present : id <= lastId /\ keys[id].plain <= made
    /\ \A i, j \in Present : keys[i].plain = keys[j].plain => i = j

(* README 195: a client key sees only its own jobs. The queue knows the id *)
(* of the key: a key that is created when another one is gone must not     *)
(* find that one's jobs (list_jobs, get_job, cancel_job filter by key_id). *)
SeesOwnJobsOnly == \A j \in jobs : keys[j.key_id] # None => keys[j.key_id].plain = j.by

(* With the types, in which ids and plaintexts are never shared.           *)
IdsInOrder == TypeOK /\ SeesOwnJobsOnly

(* Whoever was turned away stays turned away: a key that was deleted does  *)
(* not work again, whatever form about it is still on its way, and no call *)
(* raises the rights of a key.                                             *)
DeletedStaysDeleted == [][\A p \in 1 .. made :
    LET before == {id \in Present : keys[id].plain = p}
        after == {id \in Ids : keys'[id] # None /\ keys'[id].plain = p}
    IN  /\ after \subseteq before
        /\ \A id \in after : keys'[id].role = keys[id].role]_vars

(* Calls of the API made with keys never lock the API: however many admins *)
(* delete each other's keys, an admin key is left. (The GUI and a session  *)
(* may delete the last one; they need none.)                               *)
AdminKeyLeft == [][
    ((\E by \in Callers \ {Session}, id \in Ids : ApiDelete(by, id)) /\ keys' # keys) =>
        \E id \in Ids : keys'[id] # None /\ keys'[id].role = "admin"]_vars

(* keys.html 22: the fields of a row show the limits of the key: false, a  *)
(* form that is saved as it is shown, while nobody else changed the row,   *)
(* sets them to 0.                                                         *)
SavedAsShown == [][\A b \in Browsers :
    (sent[b] # None /\ KeysModels(b) /\ keys[sent[b].form.id] # None
     /\ [models |-> sent[b].form.models, limit |-> sent[b].form.limit] = sent[b].shown
     /\ keys[sent[b].form.id].models = sent[b].form.models)
    => keys' = keys]_vars
=============================================================================
