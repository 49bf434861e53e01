----------------------------- MODULE Providers -----------------------------
(***************************************************************************)
(* The providers table and the two ways to change it: the calls of         *)
(* /mgmt/v1/providers (mgmt.py 410-484), which begin and end within one    *)
(* step of the event loop, and the form of /ui/providers (ui.py 359-405),  *)
(* which is filled in from a page that may be long out of date and whose   *)
(* handler awaits the form between the look at the user and the write.     *)
(*                                                                         *)
(* Name, address, price list and inject_usage are copied and checked but   *)
(* never decide anything but whether a body is refused as a whole, which   *)
(* changes nothing: the reserved slug stands for every such body.          *)
(***************************************************************************)
EXTENDS FiniteSets

CONSTANTS
    Slugs,      \* identifiers of providers
    Secrets,    \* keys of providers
    Patterns,   \* model patterns of GPU services
    Browsers,   \* pages of the GUI that are open at a time
    None        \* no row, no page, a field that is not sent

ASSUME ProvidersAssumption ==
    /\ None \notin Slugs \cup Secrets \cup {""}
    /\ "" \notin Secrets
    /\ "ollama" \notin Slugs

VARIABLES
    provider,   \* the table: a row or None for each slug
    page,       \* the form that is open in a browser: [slug, row]
    sent        \* the form that is on its way to the handler: [form, page]

vars == <<provider, page, sent>>

Kinds == {"openai", "gpu"}      \* all that are not gpu behave alike here
Rows == [kind : Kinds, key : Secrets \cup {""}, enabled : BOOLEAN, models : SUBSET Patterns]

(* What a browser can fill in, and what a call of the API can carry.       *)
Forms == [slug : Slugs \cup {"ollama"}, kind : Kinds, key : Secrets \cup {""}, clear : BOOLEAN,
          enabled : BOOLEAN, models : SUBSET Patterns]
Bodies == [slug : Slugs \cup {"ollama"}, kind : Kinds, key : Secrets \cup {"", None},
           enabled : BOOLEAN, models : SUBSET Patterns]

(* What a page was filled in from: a row, or nothing for a new one.        *)
Pages == [slug : Slugs \cup {None}, row : Rows \cup {None}]

KeyOf(row) == IF row = None THEN "" ELSE row.key

Init ==
    /\ provider = [s \in Slugs |-> None]
    /\ page = [b \in Browsers |-> None]
    /\ sent = [b \in Browsers |-> None]

-----------------------------------------------------------------------------
\* Mutant: the patterns are saved whatever the kind
PatternsKept(f, key) ==
    provider' = [provider EXCEPT ![f.slug] =
        [kind |-> f.kind, enabled |-> f.enabled, models |-> f.models,
         key |-> IF key = None THEN KeyOf(provider[f.slug]) ELSE key]]

(* db.save_provider: key None keeps the stored one.                        *)
SaveProvider(f, key) ==
    provider' = [provider EXCEPT ![f.slug] =
        [kind |-> f.kind, enabled |-> f.enabled,
         models |-> IF f.kind = "gpu" THEN f.models ELSE {},
         key |-> IF key = None THEN KeyOf(provider[f.slug]) ELSE key]]

(* A body that is not refused (422 in the API, a message in the GUI).      *)
Accepted(f) ==
    /\ f.slug # "ollama"
    /\ f.kind = "gpu" => f.models # {}

(* POST /providers, on a slug that exists, too.                            *)
CreateProvider(body) ==
    /\ Accepted(body)
    /\ SaveProvider(body, IF body.key = None THEN "" ELSE body.key)
    /\ UNCHANGED <<page, sent>>

(* PUT /providers/{slug}.                                                  *)
UpdateProvider(body) ==
    /\ Accepted(body)
    /\ provider[body.slug] # None
    /\ SaveProvider(body, body.key)
    /\ UNCHANGED <<page, sent>>

DeleteRow(s) ==
    /\ provider' = [provider EXCEPT ![s] = None]
    /\ UNCHANGED <<page, sent>>

(* DELETE /providers/{slug}, and the button of the page, which does not    *)
(* ask whether there is a row.                                             *)
DeleteProvider(s) == provider[s] # None /\ DeleteRow(s)
ProvidersDelete(s) == DeleteRow(s)

-----------------------------------------------------------------------------
(* The page: the form is filled in from the row as get_provider returned   *)
(* it; the masked key is added to the rows of the table only.              *)
OffersClear(row) == row # None /\ "masked" \in DOMAIN row /\ row.masked # ""

ProvidersPage(b, s) ==
    /\ page[b] = None /\ sent[b] = None
    /\ page' = [page EXCEPT ![b] = IF provider[s] = None THEN [slug |-> None, row |-> None]
                                   ELSE [slug |-> s, row |-> provider[s]]]
    /\ UNCHANGED <<provider, sent>>

(* The form as the page shows it, before anybody has typed.                *)
Untouched(p) == [slug |-> p.slug, kind |-> p.row.kind, key |-> "", clear |-> FALSE,
                 enabled |-> p.row.enabled, models |-> p.row.models]

(* "Save" in the browser: the handler has found the user and awaits the    *)
(* form. The slug is read-only when a row is edited.                       *)
Submit(b, f) ==
    /\ page[b] # None
    /\ page[b].slug # None => f.slug = page[b].slug
    /\ f.clear => OffersClear(page[b].row)
    /\ sent' = [sent EXCEPT ![b] = [form |-> f, page |-> page[b]]]
    /\ page' = [page EXCEPT ![b] = None]
    /\ UNCHANGED provider

(* What the form says of the key: the row is read after the await.         *)
KeyArgument(f) ==
    IF f.clear THEN ""
    ELSE IF f.key # "" THEN f.key
    ELSE IF provider[f.slug] # None THEN None ELSE ""

\* Mutant: the row is the one that the page showed
KeyOfThePage(b) ==
    LET f == sent[b].form
    IN  /\ sent[b] # None
        /\ Accepted(f)
        /\ SaveProvider(f, IF f.key # "" THEN f.key
                           ELSE IF sent[b].page.row # None THEN None ELSE "")
        /\ sent' = [sent EXCEPT ![b] = None]
        /\ UNCHANGED page

\* Mutant: a box that is not ticked is not sent, and counts as the default
TickIsTheDefault(b) ==
    LET f == sent[b].form
    IN  /\ sent[b] # None
        /\ Accepted(f)
        /\ SaveProvider([f EXCEPT !.enabled = TRUE], KeyArgument(f))
        /\ sent' = [sent EXCEPT ![b] = None]
        /\ UNCHANGED page

ProvidersSave(b) ==
    LET f == sent[b].form
    IN  /\ sent[b] # None
        /\ Accepted(f)
        /\ SaveProvider(f, KeyArgument(f))
        /\ sent' = [sent EXCEPT ![b] = None]
        /\ UNCHANGED page

(* The form is refused, or its CSRF token is not that of the session.      *)
ProvidersRefuse(b) ==
    /\ sent[b] # None
    /\ sent' = [sent EXCEPT ![b] = None]
    /\ UNCHANGED <<provider, page>>

Next ==
    \/ \E body \in Bodies : CreateProvider(body) \/ UpdateProvider(body)
    \/ \E s \in Slugs : DeleteProvider(s) \/ ProvidersDelete(s) \/ \E b \in Browsers : ProvidersPage(b, s)
    \/ \E b \in Browsers : (\E f \in Forms : Submit(b, f)) \/ ProvidersSave(b) \/ ProvidersRefuse(b)

Spec == Init /\ [][Next]_vars

-----------------------------------------------------------------------------
(* The types; the masked key is never part of what a page was filled from. *)
TypeOK ==
    /\ provider \in [Slugs -> Rows \cup {None}]
    /\ page \in [Browsers -> Pages \cup {None}]
    /\ sent \in [Browsers -> [form : Forms, page : Pages] \cup {None}]
    /\ \A b \in Browsers : sent[b] # None /\ sent[b].page.slug # None =>
          sent[b].form.slug = sent[b].page.slug

(* Requests are routed to a GPU service by its patterns and to any other   *)
(* provider by its address: whichever way a row was written, and from      *)
(* whatever kind it was changed, it has patterns exactly when it is a GPU  *)
(* service (provider_for_model, gpu_providers).                            *)
RoutedByKind == \A s \in Slugs : provider[s] # None =>
    (provider[s].kind = "gpu" <=> provider[s].models # {})

(* Whatever wrote a row, it is one the rest of the program can use.        *)
RowsInOrder == TypeOK /\ RoutedByKind

(* The stored key of a provider is what somebody asked for in that very    *)
(* step: a call that carries it, POST (which always sets one) or a form in *)
(* which it was typed. Forms that come late, after another one created,    *)
(* changed or deleted the row, neither lose a key nor bring one back.      *)
KeysAreAskedFor == [][\A s \in Slugs :
    (provider'[s] # None /\ KeyOf(provider'[s]) # KeyOf(provider[s])) =>
        LET k == provider'[s].key
        IN  \/ \E body \in Bodies : body.slug = s /\ body.key = k /\ UpdateProvider(body)
            \/ \E body \in Bodies : body.slug = s /\ body.key \in {k, None} /\ CreateProvider(body)
            \/ \E b \in Browsers : /\ sent[b] # None /\ sent'[b] = None
                                   /\ sent[b].form.slug = s
                                   /\ sent[b].form.clear \/ (k # "" /\ sent[b].form.key = k)]_vars

(* A page that is opened and saved as it is changes nothing, as long as    *)
(* nobody else changed the row: what the form leaves out (the key) or      *)
(* sends by leaving out (the boxes) is read back as it was.                *)
SavedAsShown == [][\A b \in Browsers :
    (/\ sent[b] # None
     /\ sent[b].page.row # None
     /\ sent[b].form = Untouched(sent[b].page)
     /\ provider[sent[b].form.slug] = sent[b].page.row
     /\ ProvidersSave(b)) => provider' = provider]_vars

(* mgmt.py 415 says of api_key: None = do not change it. False of POST.    *)
NoKeyMeansKeep == [][\A s \in Slugs : \A body \in Bodies :
    (body.slug = s /\ body.key = None /\ provider[s] # None /\ (CreateProvider(body) \/ UpdateProvider(body)))
        => provider'[s].key = provider[s].key]_vars

(* providers.html 51: the page of a provider with a stored key offers to   *)
(* delete the key: false.                                                  *)
ClearIsOffered == \A b \in Browsers :
    (page[b] # None /\ page[b].row # None /\ page[b].row.key # "") => OffersClear(page[b].row)
=============================================================================
