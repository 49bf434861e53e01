------------------------------- MODULE Forms --------------------------------
(***************************************************************************)
(* The two pages that administrators change things with: Providers and, as *)
(* K, ApiKeys (ui.py 340-494).  The two tables have nothing in common, and *)
(* each page has its browsers.                                             *)
(***************************************************************************)
EXTENDS Providers

CONSTANTS
    KeyBrowsers,  \* browsers with the page of keys open
    Limits, Session, MaxKeys, MaxLogins     \* as in ApiKeys

VARIABLES keys, lastId, made, jobs, cookie, logins, expired, keysPage, keysSent

K == INSTANCE ApiKeys WITH page <- keysPage, sent <- keysSent, Browsers <- KeyBrowsers

ASSUME FormsAssumption == K!ConstantsOK

(* The properties of ApiKeys, under names of this module.                  *)
IdsInOrder == K!IdsInOrder
DeletedStaysDeleted == K!DeletedStaysDeleted
AdminKeyLeft == K!AdminKeyLeft
=============================================================================
