----------------------------- MODULE MCJobQueue -----------------------------
(* Instances of JobQueue for TLC. *)
EXTENDS JobQueue

CONSTANTS a, b, t, k           \* jobs: two of Ollama, of a GPU service, commercial
CONSTANTS chat, code, tts, gpt \* models

MCJobModel == [j \in Jobs |-> CASE j = a -> chat [] j = b -> code
                                [] j = t -> tts [] OTHER -> gpt]
MCModels == {MCJobModel[j] : j \in Jobs}
MCProvider == [j \in Jobs |-> CASE j = t -> "gpu" [] j = k -> "commercial"
                                [] OTHER -> "ollama"]
Ranked == [j \in Jobs |-> IF j = a THEN 7 ELSE 5]
Equal == [j \in Jobs |-> 5]
=============================================================================
