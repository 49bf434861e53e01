---------------------------- MODULE FormsProofs -----------------------------
(* The two pages that administrators change things with, for any tables,   *)
(* any browsers and any number of forms on their way.                      *)
EXTENDS Forms, Integers, TLAPS

-----------------------------------------------------------------------------
(* Providers. What is written is a row in order.                           *)
LEMMA SavedIs ==
  ASSUME TypeOK, RoutedByKind, NEW f, Accepted(f), f.slug \in Slugs \cup {"ollama"},
         f.kind \in Kinds, f.enabled \in BOOLEAN, f.models \in SUBSET Patterns,
         NEW key \in Secrets \cup {"", None}, SaveProvider(f, key)
  PROVE  provider' \in [Slugs -> Rows \cup {None}] /\ RoutedByKind'
<1> DEFINE row == [kind |-> f.kind, enabled |-> f.enabled,
                   models |-> IF f.kind = "gpu" THEN f.models ELSE {},
                   key |-> IF key = None THEN KeyOf(provider[f.slug]) ELSE key]
<1>1. f.slug \in Slugs /\ provider \in [Slugs -> Rows \cup {None}]
  BY DEF Accepted, TypeOK
<1>2. provider' = [provider EXCEPT ![f.slug] = row]
  BY DEF SaveProvider
<1>3. row.kind = f.kind /\ row.models = IF f.kind = "gpu" THEN f.models ELSE {}
  OBVIOUS
<1>4. row \in Rows
  <2>1. KeyOf(provider[f.slug]) \in Secrets \cup {""}
    BY <1>1 DEF KeyOf, Rows
  <2> QED
    BY <2>1 DEF Rows
<1> HIDE DEF row
<1>5. provider' \in [Slugs -> Rows \cup {None}]
  BY <1>1, <1>2, <1>4
<1>6. RoutedByKind'
  <2> SUFFICES ASSUME NEW s \in Slugs, provider'[s] # None
               PROVE  provider'[s].kind = "gpu" <=> provider'[s].models # {}
    BY DEF RoutedByKind
  <2>1. CASE s = f.slug
    <3>1. provider'[s] = row
      BY <1>1, <1>2, <2>1
    <3>2. f.kind = "gpu" => f.models # {}
      BY DEF Accepted
    <3> QED
      BY <1>3, <3>1, <3>2
  <2>2. CASE s # f.slug
    <3>1. provider'[s] = provider[s]
      BY <1>1, <1>2, <2>2
    <3> QED
      BY <3>1 DEF RoutedByKind
  <2> QED
    BY <2>1, <2>2
<1> QED
  BY <1>5, <1>6

(* What a form says of the key is a key or that the stored one stays.      *)
LEMMA KeyArgumentIs ==
  ASSUME NEW f \in Forms
  PROVE  KeyArgument(f) \in Secrets \cup {"", None}
  BY DEF KeyArgument, Forms

LEMMA SentIs ==
  ASSUME TypeOK, NEW b \in Browsers, sent[b] # None
  PROVE  /\ sent[b].form \in Forms /\ sent[b].page \in Pages
         /\ sent[b].page.slug # None => sent[b].form.slug = sent[b].page.slug
<1>1. sent[b] \in [form : Forms, page : Pages]
  BY DEF TypeOK
<1> QED
  BY DEF TypeOK

LEMMA ProvidersInit == Init => RowsInOrder
  BY DEF Init, RowsInOrder, TypeOK, RoutedByKind

LEMMA ProvidersNext == RowsInOrder /\ [Next]_vars => RowsInOrder'
<1> SUFFICES ASSUME TypeOK, RoutedByKind, [Next]_vars
             PROVE  TypeOK' /\ RoutedByKind'
  BY DEF RowsInOrder
<1>1. /\ provider \in [Slugs -> Rows \cup {None}]
      /\ page \in [Browsers -> Pages \cup {None}]
      /\ sent \in [Browsers -> [form : Forms, page : Pages] \cup {None}]
  BY DEF TypeOK
<1>2. ASSUME NEW body \in Bodies, CreateProvider(body) \/ UpdateProvider(body)
      PROVE  TypeOK' /\ RoutedByKind'
  <2>1. PICK key \in Secrets \cup {"", None} : SaveProvider(body, key)
    BY <1>2 DEF CreateProvider, UpdateProvider, Bodies
  <2>2. /\ Accepted(body) /\ body.slug \in Slugs \cup {"ollama"} /\ body.kind \in Kinds
        /\ body.enabled \in BOOLEAN /\ body.models \in SUBSET Patterns
        /\ UNCHANGED <<page, sent>>
    BY <1>2 DEF CreateProvider, UpdateProvider, Bodies
  <2>3. provider' \in [Slugs -> Rows \cup {None}] /\ RoutedByKind'
    BY <2>1, <2>2, SavedIs
  <2> QED
    BY <2>2, <2>3 DEF TypeOK
<1>3. ASSUME NEW s \in Slugs, DeleteProvider(s) \/ ProvidersDelete(s)
      PROVE  TypeOK' /\ RoutedByKind'
  <2>1. provider' = [provider EXCEPT ![s] = None] /\ UNCHANGED <<page, sent>>
    BY <1>3 DEF DeleteProvider, ProvidersDelete, DeleteRow
  <2>2. provider' \in [Slugs -> Rows \cup {None}]
    BY <1>1, <2>1
  <2>3. RoutedByKind'
    BY <2>1 DEF RoutedByKind
  <2> QED
    BY <2>1, <2>3 DEF TypeOK
<1>4. ASSUME NEW b \in Browsers, NEW s \in Slugs, ProvidersPage(b, s)
      PROVE  TypeOK' /\ RoutedByKind'
  <2>1. page' \in [Browsers -> Pages \cup {None}]
    <3>1. (IF provider[s] = None THEN [slug |-> None, row |-> None]
           ELSE [slug |-> s, row |-> provider[s]]) \in Pages
      BY <1>1 DEF Pages
    <3> QED
      BY <1>1, <1>4, <3>1 DEF ProvidersPage
  <2> QED
    BY <1>4, <2>1 DEF ProvidersPage, TypeOK, RoutedByKind
<1>5. ASSUME NEW b \in Browsers, NEW f \in Forms, Submit(b, f)
      PROVE  TypeOK' /\ RoutedByKind'
  <2> DEFINE x == [form |-> f, page |-> page[b]]
  <2>1. /\ sent' = [sent EXCEPT ![b] = x] /\ page' = [page EXCEPT ![b] = None]
        /\ UNCHANGED provider
    BY <1>5 DEF Submit
  <2>2. x \in [form : Forms, page : Pages]
    BY <1>1, <1>5 DEF Submit
  <2>3. x.page.slug # None => x.form.slug = x.page.slug
    BY <1>5 DEF Submit
  <2> HIDE DEF x
  <2>4. /\ sent' \in [Browsers -> [form : Forms, page : Pages] \cup {None}]
        /\ page' \in [Browsers -> Pages \cup {None}]
    BY <1>1, <2>1, <2>2
  <2>5. ASSUME NEW d \in Browsers, sent'[d] # None, sent'[d].page.slug # None
        PROVE  sent'[d].form.slug = sent'[d].page.slug
    <3>1. sent'[d] = IF d = b THEN x ELSE sent[d]
      BY <1>1, <2>1
    <3> QED
      BY <2>3, <2>5, <3>1 DEF TypeOK
  <2> QED
    BY <2>1, <2>4, <2>5 DEF TypeOK, RoutedByKind
<1>6. ASSUME NEW b \in Browsers, ProvidersSave(b) \/ ProvidersRefuse(b)
      PROVE  TypeOK' /\ RoutedByKind'
  <2>1. /\ sent[b] # None /\ sent' = [sent EXCEPT ![b] = None] /\ UNCHANGED page
        /\ \/ UNCHANGED provider
           \/ Accepted(sent[b].form) /\ SaveProvider(sent[b].form, KeyArgument(sent[b].form))
    BY <1>6 DEF ProvidersSave, ProvidersRefuse
  <2>2. provider' \in [Slugs -> Rows \cup {None}] /\ RoutedByKind'
    <3>1. CASE UNCHANGED provider
      BY <1>1, <3>1 DEF RoutedByKind
    <3>2. CASE /\ Accepted(sent[b].form)
               /\ SaveProvider(sent[b].form, KeyArgument(sent[b].form))
      <4>1. /\ sent[b].form.slug \in Slugs \cup {"ollama"} /\ sent[b].form.kind \in Kinds
            /\ sent[b].form.enabled \in BOOLEAN /\ sent[b].form.models \in SUBSET Patterns
            /\ KeyArgument(sent[b].form) \in Secrets \cup {"", None}
        BY <2>1, SentIs, KeyArgumentIs DEF Forms
      <4> QED
        BY <3>2, <4>1, SavedIs
    <3> QED
      BY <2>1, <3>1, <3>2
  <2>3. /\ sent' \in [Browsers -> [form : Forms, page : Pages] \cup {None}]
        /\ \A d \in Browsers : sent'[d] # None => sent'[d] = sent[d]
    BY <1>1, <2>1
  <2> QED
    BY <2>1, <2>2 DEF TypeOK
<1>7. CASE UNCHANGED vars
  BY <1>7 DEF vars, TypeOK, RoutedByKind
<1> QED
  BY <1>2, <1>3, <1>4, <1>5, <1>6, <1>7 DEF Next

(* A row has patterns exactly when it is a GPU service, whichever way it   *)
(* was written, however late.                                              *)
THEOREM RowsAreInOrder == Spec => []RowsInOrder
  BY ProvidersInit, ProvidersNext, PTL DEF Spec

(* The stored key of a provider is what somebody asked for in that step:   *)
(* no form that comes late loses a key or brings one back.                 *)
THEOREM KeysAreWhatWasAskedFor == Spec => KeysAreAskedFor
<1> DEFINE Asked(s) ==
      (provider'[s] # None /\ KeyOf(provider'[s]) # KeyOf(provider[s])) =>
        LET k == provider'[s].key
        IN  \/ \E body \in Bodies : body.slug = s /\ body.key = k /\ UpdateProvider(body)
            \/ \E body \in Bodies : body.slug = s /\ body.key \in {k, None} /\ CreateProvider(body)
            \/ \E b \in Browsers : /\ sent[b] # None /\ sent'[b] = None
                                   /\ sent[b].form.slug = s
                                   /\ sent[b].form.clear \/ (k # "" /\ sent[b].form.key = k)
<1>1. ASSUME TypeOK, Next, NEW s \in Slugs PROVE Asked(s)
  <2> SUFFICES ASSUME provider'[s] # None, KeyOf(provider'[s]) # KeyOf(provider[s])
               PROVE  LET k == provider'[s].key
        IN  \/ \E body \in Bodies : body.slug = s /\ body.key = k /\ UpdateProvider(body)
            \/ \E body \in Bodies : body.slug = s /\ body.key \in {k, None} /\ CreateProvider(body)
            \/ \E b \in Browsers : /\ sent[b] # None /\ sent'[b] = None
                                   /\ sent[b].form.slug = s
                                   /\ sent[b].form.clear \/ (k # "" /\ sent[b].form.key = k)
    OBVIOUS
  <2>1. /\ provider \in [Slugs -> Rows \cup {None}]
        /\ sent \in [Browsers -> [form : Forms, page : Pages] \cup {None}]
        /\ KeyOf(provider'[s]) = provider'[s].key /\ provider' # provider
    BY <1>1 DEF TypeOK, KeyOf
  (* Whoever saves, saves for s, and not what was there.                   *)
  <2>2. ASSUME NEW f, NEW key, SaveProvider(f, key)
        PROVE  f.slug = s /\ key # None /\ provider'[s].key = key /\ key # KeyOf(provider[s])
    <3> DEFINE row == [kind |-> f.kind, enabled |-> f.enabled,
                       models |-> IF f.kind = "gpu" THEN f.models ELSE {},
                       key |-> IF key = None THEN KeyOf(provider[f.slug]) ELSE key]
    <3>1. provider' = [provider EXCEPT ![f.slug] = row]
      BY <2>2 DEF SaveProvider
    <3>2. row.key = IF key = None THEN KeyOf(provider[f.slug]) ELSE key
      OBVIOUS
    <3> HIDE DEF row
    <3>3. f.slug = s /\ provider'[s] = row
      BY <3>1
    <3> QED
      BY <2>1, <3>2, <3>3
  <2>3. CASE \E body \in Bodies : CreateProvider(body) \/ UpdateProvider(body)
    BY <2>2, <2>3 DEF CreateProvider, UpdateProvider
  <2>4. CASE \E b \in Browsers : ProvidersSave(b)
    <3>1. PICK b \in Browsers : ProvidersSave(b)
      BY <2>4
    <3> DEFINE f == sent[b].form
    <3>2. sent[b] # None /\ SaveProvider(f, KeyArgument(f)) /\ sent'[b] = None
      BY <2>1, <3>1 DEF ProvidersSave
    <3>3. /\ f.slug = s /\ KeyArgument(f) # None /\ provider'[s].key = KeyArgument(f)
          /\ KeyArgument(f) # KeyOf(provider[s])
      BY <2>2, <3>2
    <3>4. f.clear \/ (KeyArgument(f) # "" /\ f.key = KeyArgument(f))
      BY <3>3 DEF KeyArgument, KeyOf
    <3> QED
      BY <3>2, <3>3, <3>4
  <2>5. ASSUME NEW d \in Slugs, DeleteProvider(d) \/ ProvidersDelete(d) PROVE FALSE
    BY <2>1, <2>5 DEF DeleteProvider, ProvidersDelete, DeleteRow
  <2> QED
    BY <1>1, <2>3, <2>4, <2>5 DEF Next, ProvidersPage, Submit, ProvidersRefuse
<1>2. RowsInOrder /\ [Next]_vars => [\A s \in Slugs : Asked(s)]_vars
  BY <1>1 DEF RowsInOrder
<1> QED
  BY <1>2, RowsAreInOrder, PTL DEF Spec, KeysAreAskedFor

(* A page that is opened and saved as it is changes nothing, as long as    *)
(* nobody else changed the row.                                            *)
THEOREM WhatIsShownIsSaved == Spec => SavedAsShown
<1>1. ASSUME RowsInOrder, NEW b \in Browsers, sent[b] # None, sent[b].page.row # None,
             sent[b].form = Untouched(sent[b].page),
             provider[sent[b].form.slug] = sent[b].page.row, ProvidersSave(b)
      PROVE  provider' = provider
  <2> DEFINE f == sent[b].form  row == sent[b].page.row
             new == [kind |-> f.kind, enabled |-> f.enabled,
                     models |-> IF f.kind = "gpu" THEN f.models ELSE {},
                     key |-> IF KeyArgument(f) = None THEN KeyOf(provider[f.slug])
                             ELSE KeyArgument(f)]
  <2>1. /\ f \in Forms /\ sent[b].page \in Pages /\ TypeOK
        /\ provider \in [Slugs -> Rows \cup {None}] /\ f.slug \in Slugs
    BY <1>1 DEF RowsInOrder, TypeOK, ProvidersSave, Accepted, Forms
  <2>2. row \in Rows /\ provider[f.slug] = row /\ row # None
    BY <1>1, <2>1
  <2>7. /\ f.kind = row.kind /\ f.key = "" /\ ~f.clear
        /\ f.enabled = row.enabled /\ f.models = row.models
    <3>1. f = [slug |-> sent[b].page.slug, kind |-> row.kind, key |-> "", clear |-> FALSE,
               enabled |-> row.enabled, models |-> row.models]
      BY <1>1 DEF Untouched
    <3> HIDE DEF f, row
    <3> QED
      BY <3>1
  <2>3. provider' = [provider EXCEPT ![f.slug] = new]
    BY <1>1 DEF ProvidersSave, SaveProvider
  <2>4. row.kind = "gpu" <=> row.models # {}
    BY <1>1, <2>1 DEF RowsInOrder, RoutedByKind
  <2>5. KeyArgument(f) = None
    BY <2>2, <2>7 DEF KeyArgument
  <2>6. new = row
    <3>1. new = [kind |-> row.kind, enabled |-> row.enabled, models |-> row.models,
                 key |-> row.key]
      BY <2>2, <2>4, <2>5, <2>7 DEF KeyOf
    <3> HIDE DEF f, row, new
    <3> QED
      BY <2>2, <3>1 DEF Rows
  <2> HIDE DEF f, row, new
  <2> QED
    BY <2>1, <2>2, <2>3, <2>6
<1>2. RowsInOrder /\ [Next]_vars => [\A b \in Browsers :
        (/\ sent[b] # None
         /\ sent[b].page.row # None
         /\ sent[b].form = Untouched(sent[b].page)
         /\ provider[sent[b].form.slug] = sent[b].page.row
         /\ ProvidersSave(b)) => provider' = provider]_vars
  BY <1>1
<1> QED
  BY <1>2, RowsAreInOrder, PTL DEF Spec, SavedAsShown

-----------------------------------------------------------------------------
(* Keys. lastId = made because a key is the only thing that takes an id.   *)
TableInv ==
  /\ keys \in [K!Ids -> K!Rows \cup {None}]
  /\ lastId \in 0..MaxKeys /\ made \in 0..MaxKeys /\ lastId = made
  /\ jobs \subseteq [key_id : K!Ids, by : K!Plain]
  /\ \A i \in K!Ids : keys[i] # None => i <= lastId /\ keys[i].plain <= made
  /\ \A i, j \in K!Ids :
       keys[i] # None /\ keys[j] # None /\ keys[i].plain = keys[j].plain => i = j
  /\ \A j \in jobs : j.key_id <= lastId
  /\ K!SeesOwnJobsOnly

FormTyped(f) ==
  /\ f.op \in {"models", "delete"} => f.id \in K!Ids
  /\ f.op \in {"models", "create"} => f.models \in SUBSET Patterns /\ f.limit \in Limits
  /\ f.op = "create" => f.role \in K!Roles

BrowserInv ==
  /\ logins \in Nat
  /\ cookie \in [KeyBrowsers -> 0..logins] /\ expired \subseteq 1..logins
  /\ keysSent = [b \in KeyBrowsers |-> keysSent[b]]
  /\ \A b \in KeyBrowsers : keysSent[b] # None => FormTyped(keysSent[b].form)

KeysInv == TableInv /\ BrowserInv

(* Rows are deleted, or keep their key and its rights.                     *)
Shrinks ==
  /\ keys' \in [K!Ids -> K!Rows \cup {None}]
  /\ \A i \in K!Ids : keys'[i] # None =>
       keys[i] # None /\ keys'[i].plain = keys[i].plain /\ keys'[i].role = keys[i].role
  /\ UNCHANGED <<lastId, made, jobs>>
Grows ==
  \E role \in K!Roles, models \in SUBSET Patterns, limit \in Limits : K!CreateKey(role, models, limit)
Hires == \E by \in K!Callers : K!SubmitJob(by)

LEMMA BoundsAre == MaxKeys \in Nat /\ MaxLogins \in Nat
  BY FormsAssumption DEF K!ConstantsOK

LEMMA KeysInit == K!Init => KeysInv
<1> SUFFICES ASSUME K!Init PROVE TableInv /\ BrowserInv
  BY DEF KeysInv
<1>1. TableInv
  BY BoundsAre DEF K!Init, TableInv, K!SeesOwnJobsOnly
<1>2. BrowserInv
  BY DEF K!Init, BrowserInv
<1> QED
  BY <1>1, <1>2

-----------------------------------------------------------------------------
(* What a handler does to the table.                                       *)
LEMMA UpdateShrinks ==
  ASSUME TableInv, NEW id \in K!Ids, NEW models \in SUBSET Patterns, NEW limit \in Limits,
         K!UpdateRow(id, models, limit)
  PROVE  Shrinks
<1>1. keys \in [K!Ids -> K!Rows \cup {None}] /\ UNCHANGED <<lastId, made, jobs>>
  BY DEF TableInv, K!UpdateRow
<1>2. CASE keys[id] = None
  BY <1>1, <1>2 DEF K!UpdateRow, Shrinks
<1>3. CASE keys[id] # None
  <2> DEFINE row == [keys[id] EXCEPT !.models = models, !.limit = limit]
  <2>1. keys[id] \in K!Rows
    BY <1>1, <1>3
  <2>2. row \in K!Rows /\ row.plain = keys[id].plain /\ row.role = keys[id].role
    BY <2>1 DEF K!Rows
  <2>3. keys' = [keys EXCEPT ![id] = row]
    BY <1>3 DEF K!UpdateRow
  <2> HIDE DEF row
  <2> QED
    BY <1>1, <1>3, <2>2, <2>3 DEF Shrinks
<1> QED
  BY <1>2, <1>3

LEMMA UpdateModelsShrinks ==
  ASSUME TableInv, NEW id \in K!Ids, NEW models \in SUBSET Patterns, keys[id] # None,
         keys' = K!UpdateModels(id, models), UNCHANGED <<lastId, made, jobs>>
  PROVE  Shrinks
<1>1. keys \in [K!Ids -> K!Rows \cup {None}]
  BY DEF TableInv
<1> DEFINE row == [keys[id] EXCEPT !.models = models]
<1>2. row \in K!Rows /\ row.plain = keys[id].plain /\ row.role = keys[id].role
  BY <1>1 DEF K!Rows
<1>3. keys' = [keys EXCEPT ![id] = row]
  BY DEF K!UpdateModels
<1> HIDE DEF row
<1> QED
  BY <1>1, <1>2, <1>3 DEF Shrinks

LEMMA DeleteShrinks ==
  ASSUME TableInv, NEW id \in K!Ids, K!DeleteRow(id)
  PROVE  Shrinks
  BY DEF TableInv, K!DeleteRow, Shrinks

LEMMA NothingShrinks ==
  ASSUME TableInv, UNCHANGED <<keys, lastId, made, jobs>>
  PROVE  Shrinks
  BY DEF TableInv, Shrinks

(* What the table may do, and what it may not.                             *)
LEMMA ShrinksKeep ==
  ASSUME TableInv, Shrinks
  PROVE  TableInv'
<1>1. K!SeesOwnJobsOnly'
  BY DEF TableInv, Shrinks, K!SeesOwnJobsOnly
<1> QED
  BY <1>1 DEF TableInv, Shrinks

LEMMA PrincipalIs ==
  ASSUME TableInv, NEW by \in K!Callers, by # Session, K!Principal(by) # None
  PROVE  /\ K!Principal(by).key_id \in K!Ids
         /\ keys[K!Principal(by).key_id] # None
         /\ keys[K!Principal(by).key_id].plain = by
         /\ keys[K!Principal(by).key_id].role = K!Principal(by).role
<1> DEFINE own == {id \in K!Present : keys[id].plain = by}
<1>1. own # {}
  BY DEF K!Principal
<1>2. PICK id : id \in own /\ K!Principal(by) = [kind |-> "key", role |-> keys[id].role, key_id |-> id]
  BY DEF K!Principal
<1> QED
  BY <1>2 DEF K!Present

LEMMA HiresKeep ==
  ASSUME TableInv, Hires
  PROVE  TableInv' /\ UNCHANGED keys
<1>1. PICK by \in K!Callers : K!SubmitJob(by)
  BY DEF Hires
<1> DEFINE id == K!Principal(by).key_id
           job == [key_id |-> id, by |-> by]
<1>2. jobs' = jobs \cup {job} /\ UNCHANGED <<keys, lastId, made>>
  BY <1>1 DEF K!SubmitJob
<1>3. id \in K!Ids /\ keys[id] # None /\ keys[id].plain = by
  BY <1>1, PrincipalIs DEF K!SubmitJob
<1> HIDE DEF id
<1>4. id <= lastId /\ by \in K!Plain
  BY <1>3 DEF TableInv, K!Rows
<1>5. jobs' \subseteq [key_id : K!Ids, by : K!Plain] /\ \A j \in jobs' : j.key_id <= lastId
  BY <1>2, <1>3, <1>4 DEF TableInv
<1>6. K!SeesOwnJobsOnly'
  BY <1>2, <1>3 DEF TableInv, K!SeesOwnJobsOnly
<1> QED
  BY <1>2, <1>5, <1>6 DEF TableInv

(* A new key has an id and a plaintext of its own.                         *)
LEMMA GrowsKeep ==
  ASSUME TableInv, Grows
  PROVE  /\ TableInv'
         /\ \A i \in K!Ids : keys'[i] = keys[i] \/ keys'[i].plain = made + 1
<1>1. PICK role \in K!Roles, models \in SUBSET Patterns, limit \in Limits :
        K!CreateKey(role, models, limit)
  BY DEF Grows
<1> DEFINE id == lastId + 1
           row == [plain |-> made + 1, role |-> role, models |-> models, limit |-> limit]
<1>2. /\ made < MaxKeys /\ made' = made + 1 /\ lastId' = id /\ UNCHANGED jobs
      /\ keys' = [keys EXCEPT ![id] = row]
  BY <1>1 DEF K!CreateKey, K!NewId
<1>3. /\ made \in 0..MaxKeys /\ lastId = made /\ MaxKeys \in Nat
      /\ keys \in [K!Ids -> K!Rows \cup {None}]
  BY BoundsAre DEF TableInv
<1>4. made + 1 \in K!Plain /\ id \in K!Ids
  BY <1>2, <1>3 DEF K!Plain, K!Ids
<1>5. row \in K!Rows /\ row.plain = made + 1
  BY <1>4 DEF K!Rows
<1>6. id = made + 1
  BY <1>3
<1> HIDE DEF id, row
<1>7. keys' \in [K!Ids -> K!Rows \cup {None}] /\ keys'[id] = row
      /\ \A i \in K!Ids \ {id} : keys'[i] = keys[i]
  BY <1>2, <1>3, <1>4, <1>5
<1>8. ASSUME NEW i \in K!Ids, keys[i] # None
      PROVE  i <= made /\ keys[i].plain <= made /\ keys[i].plain \in Nat
  <2>1. keys[i].plain \in K!Plain
    BY <1>3, <1>8 DEF K!Rows
  <2> QED
    BY <1>8, <2>1 DEF TableInv, K!Plain
<1>9. ASSUME NEW i \in K!Ids, keys'[i] # None
      PROVE  i <= lastId' /\ keys'[i].plain <= made'
  BY <1>2, <1>3, <1>5, <1>6, <1>8, <1>9 DEF K!Ids
<1>10. ASSUME NEW i \in K!Ids, NEW j \in K!Ids, keys'[i] # None, keys'[j] # None,
              keys'[i].plain = keys'[j].plain
       PROVE  i = j
  BY <1>5, <1>7, <1>10 DEF TableInv
<1>11. ASSUME NEW j \in jobs
       PROVE  /\ j.key_id \in K!Ids /\ j.key_id # id /\ j.key_id <= lastId'
              /\ keys'[j.key_id] # None => keys'[j.key_id].plain = j.by
  <2>1. j.key_id \in K!Ids /\ j.key_id <= made
    BY DEF TableInv
  <2>2. j.key_id \in Nat
    BY <2>1 DEF K!Ids
  <2>3. keys'[j.key_id] = keys[j.key_id]
    BY <1>3, <1>6, <1>7, <2>1
  <2> QED
    BY <1>2, <1>6, <2>2 DEF TableInv, K!SeesOwnJobsOnly
<1>12. lastId' \in 0..MaxKeys /\ made' \in 0..MaxKeys /\ lastId' = made'
  BY <1>2, <1>3, <1>6
<1>13. TableInv'
  <2>1. K!SeesOwnJobsOnly'
    BY <1>2, <1>11 DEF K!SeesOwnJobsOnly
  <2>2. jobs' \subseteq [key_id : K!Ids, by : K!Plain]
    BY <1>2 DEF TableInv
  <2>3. \A j \in jobs' : j.key_id <= lastId'
    BY <1>2, <1>11
  <2> QED
    BY <1>7, <1>9, <1>10, <1>12, <2>1, <2>2, <2>3 DEF TableInv
<1> QED
  BY <1>5, <1>7, <1>13

-----------------------------------------------------------------------------
(* Every handler does one of these to the table.                           *)
LEMMA GuiDoes ==
  ASSUME KeysInv, NEW b \in KeyBrowsers, K!Gui(b)
  PROVE  (Shrinks \/ Grows) /\ BrowserInv'
<1>1. TableInv /\ BrowserInv
  BY DEF KeysInv
<1>2. /\ logins \in Nat /\ cookie \in [KeyBrowsers -> 0..logins] /\ expired \subseteq 1..logins
      /\ keysSent = [d \in KeyBrowsers |-> keysSent[d]]
      /\ \A d \in KeyBrowsers : keysSent[d] # None => FormTyped(keysSent[d].form)
  BY <1>1 DEF BrowserInv
<1>3. CASE K!Login(b)
  <2>1. Shrinks
    BY <1>1, <1>3, NothingShrinks DEF K!Login, K!table
  <2>2. /\ logins' \in {logins, logins + 1} /\ cookie' = [cookie EXCEPT ![b] = logins']
        /\ UNCHANGED <<expired, keysSent>>
    BY <1>3 DEF K!Login
  <2>3. logins' \in Nat /\ cookie' \in [KeyBrowsers -> 0..logins'] /\ expired' \subseteq 1..logins'
    BY <1>2, <2>2
  <2> QED
    BY <1>2, <2>1, <2>2 DEF BrowserInv
<1>4. CASE K!Logout(b)
  <2>1. Shrinks
    BY <1>1, <1>4, NothingShrinks DEF K!Logout, K!table
  <2>2. cookie' = [cookie EXCEPT ![b] = 0] /\ UNCHANGED <<logins, expired, keysSent>>
    BY <1>4 DEF K!Logout
  <2> QED
    BY <1>2, <2>1, <2>2 DEF BrowserInv
<1>5. CASE K!KeysPage(b)
  <2>1. Shrinks
    BY <1>1, <1>5, NothingShrinks DEF K!KeysPage, K!table
  <2>2. UNCHANGED <<logins, cookie, expired, keysSent>>
    BY <1>5 DEF K!KeysPage
  <2> QED
    BY <1>2, <2>1, <2>2 DEF BrowserInv
<1>6. ASSUME NEW f, FormTyped(f), K!SendForm(b, f) PROVE Shrinks /\ BrowserInv'
  <2>1. Shrinks
    BY <1>1, <1>6, NothingShrinks DEF K!SendForm, K!table
  <2> DEFINE x == [form |-> f, cookie |-> cookie[b], csrf |-> keysPage[b].csrf,
                   shown |-> IF f.op = "models" THEN K!Shown(keysPage[b].rows[f.id]) ELSE None]
  <2>2. keysSent' = [keysSent EXCEPT ![b] = x] /\ x.form = f
    BY <1>6 DEF K!SendForm
  <2> HIDE DEF x
  <2>3. UNCHANGED <<logins, cookie, expired>>
    BY <1>6 DEF K!SendForm
  <2>4. /\ keysSent' = [d \in KeyBrowsers |-> keysSent'[d]]
        /\ \A d \in KeyBrowsers : keysSent'[d] = IF d = b THEN x ELSE keysSent[d]
    BY <1>2, <2>2
  <2> QED
    BY <1>2, <1>6, <2>1, <2>2, <2>3 DEF BrowserInv
<1>7. ASSUME NEW id \in K!Ids, NEW models \in SUBSET Patterns, NEW limit \in Limits,
             K!PressDelete(b, id) \/ K!SaveModels(b, id, models, limit)
      PROVE  Shrinks /\ BrowserInv'
  <2>1. /\ FormTyped([op |-> "delete", id |-> id])
        /\ FormTyped([op |-> "models", id |-> id, models |-> models, limit |-> limit])
    BY DEF FormTyped
  <2> QED
    BY <1>6, <1>7, <2>1 DEF K!PressDelete, K!SaveModels
<1>8. ASSUME NEW id \in K!Ids, K!PressDelete(b, id)
      PROVE  Shrinks /\ BrowserInv'
  <2>1. FormTyped([op |-> "delete", id |-> id])
    BY DEF FormTyped
  <2> QED
    BY <1>6, <1>8, <2>1 DEF K!PressDelete
<1>9. ASSUME NEW role \in K!Roles, NEW models \in SUBSET Patterns, NEW limit \in Limits,
             K!NewKey(b, role, models, limit)
      PROVE  Shrinks /\ BrowserInv'
  <2>1. FormTyped([op |-> "create", role |-> role, models |-> models, limit |-> limit])
    BY DEF FormTyped
  <2> QED
    BY <1>6, <1>9, <2>1 DEF K!NewKey
<1>10. CASE K!KeysModels(b) \/ K!KeysDelete(b) \/ K!KeysCreate(b) \/ K!FormExpired(b)
  <2>1. K!Handled(b)
    BY <1>10 DEF K!KeysModels, K!KeysDelete, K!KeysCreate, K!FormExpired
  <2>2. /\ keysSent[b] # None /\ keysSent' = [keysSent EXCEPT ![b] = None]
        /\ UNCHANGED <<cookie, logins, expired>>
    BY <2>1 DEF K!Handled
  <2>3. FormTyped(keysSent[b].form)
    BY <1>2, <2>2
  <2>4. BrowserInv'
    BY <1>2, <2>2 DEF BrowserInv
  <2>5. CASE K!KeysModels(b)
    BY <1>1, <2>3, <2>4, <2>5, UpdateShrinks DEF K!KeysModels, FormTyped
  <2>6. CASE K!KeysDelete(b)
    BY <1>1, <2>3, <2>4, <2>6, DeleteShrinks DEF K!KeysDelete, FormTyped
  <2>7. CASE K!KeysCreate(b)
    BY <2>3, <2>4, <2>7 DEF K!KeysCreate, FormTyped, Grows
  <2>8. CASE K!FormExpired(b)
    BY <1>1, <2>4, <2>8, NothingShrinks DEF K!FormExpired, K!table
  <2> QED
    BY <1>10, <2>5, <2>6, <2>7, <2>8
<1> QED
  BY <1>3, <1>4, <1>5, <1>7, <1>8, <1>9, <1>10 DEF K!Gui

LEMMA ApiDoes ==
  ASSUME KeysInv, NEW by \in K!Callers, K!Api(by)
  PROVE  /\ Shrinks \/ Grows \/ Hires
         /\ UNCHANGED <<cookie, logins, expired, keysPage, keysSent>>
<1>1. TableInv /\ keys \in [K!Ids -> K!Rows \cup {None}]
  BY DEF KeysInv, TableInv
<1>2. ASSUME NEW role \in K!Roles, NEW models \in SUBSET Patterns, NEW limit \in Limits,
             K!ApiCreate(by, role, models, limit)
      PROVE  Grows /\ UNCHANGED <<cookie, logins, expired, keysPage, keysSent>>
  BY <1>2 DEF K!ApiCreate, K!browser, Grows
<1>3. ASSUME NEW id \in K!Ids, NEW models \in (SUBSET Patterns) \cup {None},
             NEW limit \in Limits \cup {None}, K!ApiUpdate(by, id, models, limit)
      PROVE  Shrinks /\ UNCHANGED <<cookie, logins, expired, keysPage, keysSent>>
  <2> DEFINE ms == IF models = None THEN keys[id].models ELSE models
             l == IF limit = None THEN keys[id].limit ELSE limit
  <2>1. K!UpdateRow(id, ms, l) /\ UNCHANGED <<cookie, logins, expired, keysPage, keysSent>>
    BY <1>3 DEF K!ApiUpdate, K!browser
  <2>2. keys[id] \in K!Rows
    BY <1>1, <1>3 DEF K!ApiUpdate
  <2>3. ms \in SUBSET Patterns /\ l \in Limits
    <3>1. keys[id].models \in SUBSET Patterns /\ keys[id].limit \in Limits
      BY <2>2 DEF K!Rows
    <3>2. models # None => models \in SUBSET Patterns
      OBVIOUS
    <3>3. limit # None => limit \in Limits
      OBVIOUS
    <3> QED
      BY <3>1
  <2> HIDE DEF ms, l
  <2> QED
    BY <1>1, <2>1, <2>3, UpdateShrinks
<1>4. ASSUME NEW id \in K!Ids, K!ApiDelete(by, id)
      PROVE  Shrinks /\ UNCHANGED <<cookie, logins, expired, keysPage, keysSent>>
  BY <1>1, <1>4, DeleteShrinks DEF K!ApiDelete, K!browser
<1>5. ASSUME NEW id \in K!Ids, NEW models \in SUBSET Patterns, K!ApiUpdateModels(by, id, models)
      PROVE  Shrinks /\ UNCHANGED <<cookie, logins, expired, keysPage, keysSent>>
  BY <1>1, <1>5, UpdateModelsShrinks DEF K!ApiUpdateModels, K!browser
<1>6. CASE K!SubmitJob(by)
  BY <1>6 DEF Hires, K!SubmitJob, K!browser
<1> QED
  BY <1>2, <1>3, <1>4, <1>5, <1>6 DEF K!Api

LEMMA KeysDo ==
  ASSUME KeysInv, [K!Next]_K!vars
  PROVE  (Shrinks \/ Grows \/ Hires) /\ BrowserInv'
<1>1. TableInv /\ BrowserInv
  BY DEF KeysInv
<1>2. CASE \E b \in KeyBrowsers : K!Gui(b)
  BY <1>2, GuiDoes
<1>3. CASE \E by \in K!Callers : K!Api(by)
  BY <1>1, <1>3, ApiDoes DEF BrowserInv
<1>4. CASE \E t \in 1..MaxLogins : K!SessionExpires(t)
  <2>1. Shrinks
    BY <1>1, <1>4, NothingShrinks DEF K!SessionExpires, K!table
  <2>2. /\ expired' \subseteq 1..logins /\ UNCHANGED <<cookie, logins, keysSent>>
    BY <1>1, <1>4 DEF K!SessionExpires, BrowserInv
  <2> QED
    BY <1>1, <2>1, <2>2 DEF BrowserInv
<1>5. CASE UNCHANGED K!vars
  <2>1. Shrinks
    BY <1>1, <1>5, NothingShrinks DEF K!vars, K!table
  <2>2. UNCHANGED <<cookie, logins, expired, keysSent>>
    BY <1>5 DEF K!vars, K!browser
  <2> QED
    BY <1>1, <2>1, <2>2 DEF BrowserInv
<1> QED
  BY <1>2, <1>3, <1>4, <1>5 DEF K!Next

LEMMA KeysNext ==
  ASSUME KeysInv, [K!Next]_K!vars
  PROVE  KeysInv'
  BY KeysDo, ShrinksKeep, GrowsKeep, HiresKeep DEF KeysInv

LEMMA AlwaysKeysInv == K!Spec => []KeysInv
  BY KeysInit, KeysNext, PTL DEF K!Spec

-----------------------------------------------------------------------------
(* Ids and plaintexts are never shared, and a key never finds the jobs of  *)
(* another one that had its id before.                                     *)
THEOREM IdsAreInOrder == K!Spec => []IdsInOrder
<1>1. KeysInv => IdsInOrder
  BY DEF KeysInv, TableInv, BrowserInv, IdsInOrder, K!IdsInOrder, K!TypeOK, K!Present
<1> QED
  BY <1>1, AlwaysKeysInv, PTL

(* A key that was deleted does not work again, whatever form about it is   *)
(* on its way, and nothing raises the rights of a key.                     *)
THEOREM DeletedForGood == K!Spec => DeletedStaysDeleted
<1> DEFINE Gone(p) ==
      LET before == {id \in K!Present : keys[id].plain = p}
          after == {id \in K!Ids : keys'[id] # None /\ keys'[id].plain = p}
      IN  /\ after \subseteq before
          /\ \A id \in after : keys'[id].role = keys[id].role
<1>1. ASSUME KeysInv, [K!Next]_K!vars, NEW p \in 1..made PROVE Gone(p)
  <2> SUFFICES ASSUME NEW id \in K!Ids, keys'[id] # None, keys'[id].plain = p
               PROVE  keys[id] # None /\ keys[id].plain = p /\ keys'[id].role = keys[id].role
    BY DEF K!Present
  <2>1. CASE Shrinks
    BY <2>1 DEF Shrinks
  <2>2. CASE Grows
    <3>1. made \in Nat
      BY <1>1 DEF KeysInv, TableInv
    <3>2. keys'[id] = keys[id]
      BY <1>1, <2>2, <3>1, GrowsKeep DEF KeysInv
    <3> QED
      BY <3>2
  <2>3. CASE Hires
    BY <1>1, <2>3, HiresKeep DEF KeysInv
  <2> QED
    BY <1>1, <2>1, <2>2, <2>3, KeysDo
<1>2. KeysInv /\ [K!Next]_K!vars => [\A p \in 1..made : Gone(p)]_K!vars
  BY <1>1
<1> QED
  BY <1>2, AlwaysKeysInv, PTL DEF K!Spec, DeletedStaysDeleted, K!DeletedStaysDeleted

(* However many admins delete each other's keys by the API, one that is    *)
(* called with a key leaves an admin key: the caller's.                    *)
THEOREM AnAdminKeyIsLeft == K!Spec => AdminKeyLeft
<1>1. ASSUME KeysInv, NEW by \in K!Callers \ {Session}, NEW id \in K!Ids, K!ApiDelete(by, id)
      PROVE  \E i \in K!Ids : keys'[i] # None /\ keys'[i].role = "admin"
  <2> DEFINE i == K!Principal(by).key_id
  <2>1. /\ K!Principal(by) # None /\ K!Principal(by).role = "admin" /\ i # id
        /\ keys' = [keys EXCEPT ![id] = None]
    BY <1>1 DEF K!ApiDelete, K!IsAdmin, K!DeleteRow
  <2>2. /\ keys \in [K!Ids -> K!Rows \cup {None}] /\ i \in K!Ids
        /\ keys[i] # None /\ keys[i].role = "admin"
    BY <1>1, <2>1, PrincipalIs DEF KeysInv, TableInv
  <2> QED
    BY <2>1, <2>2
<1>2. KeysInv /\ [K!Next]_K!vars =>
        [((\E by \in K!Callers \ {Session}, id \in K!Ids : K!ApiDelete(by, id)) /\ keys' # keys) =>
           \E id \in K!Ids : keys'[id] # None /\ keys'[id].role = "admin"]_K!vars
  BY <1>1
<1> QED
  BY <1>2, AlwaysKeysInv, PTL DEF K!Spec, AdminKeyLeft, K!AdminKeyLeft
=============================================================================
