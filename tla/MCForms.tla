------------------------------ MODULE MCForms ------------------------------
(***************************************************************************)
(* Small instances of the two pages of Forms. A run works on one of the    *)
(* tables, chosen at the start, and the other one rests.                   *)
(***************************************************************************)
EXTENDS Forms, TLC

CONSTANTS s1, sk1, p1, b1, b2, b3

MCSlugs == {s1}
MCSecrets == {sk1}
MCPatterns == {p1}
MCBrowsers == {b1, b2}
MCKeyBrowsers == {b3}
MCLimits == {0}
MCSymmetry == Permutations(MCBrowsers)

VARIABLE tab

keysVars == <<keys, lastId, made, jobs, cookie, logins, expired, keysPage, keysSent>>

FormsInit == Init /\ K!Init /\ tab \in {"providers", "keys"}
FormsNext ==
    \/ tab = "providers" /\ Next /\ UNCHANGED <<keysVars, tab>>
    \/ tab = "keys" /\ K!Next /\ UNCHANGED <<vars, tab>>
FormsSpec == FormsInit /\ [][FormsNext]_<<vars, keysVars, tab>>
=============================================================================
