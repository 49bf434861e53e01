---------------------------- MODULE MCModelLoad -----------------------------
(* Instances of ModelLoad for TLC: two models.                             *)
EXTENDS ModelLoad

CONSTANTS c1, c2, t1, t2, chat, voice

MCModels == {chat, voice}
=============================================================================
