------------------------------ MODULE MCProxy -------------------------------
(* Instances of Proxy for TLC: Ollama and two providers, of which one is a *)
(* service on the card at first; which of them is may change.              *)
EXTENDS Proxy

CONSTANTS r1, r2, k1, chat, voice, tts, openai

Shape(road, path, model, by, patient) ==
  [road |-> road, post |-> path # "tags", path |-> path, model |-> model,
   by |-> by, patient |-> patient, odd |-> FALSE]
Odd(shape) == [shape EXCEPT !.odd = TRUE]

MCKeys == {k1}
MCModels == {chat, voice}
MCSlugs == {tts, openai}

(* By model and by slug, scheduled and not, with and without key, and two  *)
(* no request can be built from, one of them for Ollama.                   *)
MCShapes ==
  { Shape(Ollama, "chat", chat, k1, TRUE), Shape(Ollama, "speech", voice, k1, FALSE),
    Shape(Ollama, "tags", None, k1, TRUE), Shape(Ollama, "embed", chat, None, FALSE),
    Shape(Ollama, "speech", voice, None, TRUE),
    Shape(tts, "speech", voice, k1, TRUE), Shape(tts, "chat", None, Session, TRUE),
    Shape(openai, "chat", chat, k1, TRUE), Shape(openai, "tags", None, k1, TRUE),
    Odd(Shape(Ollama, "chat", chat, None, FALSE)), Odd(Shape(tts, "show", voice, Session, TRUE)) }

Policy(valid, slugs, models) ==
  [valid |-> valid, admin |-> FALSE, slugs |-> slugs, models |-> models]
AnyPolicy == Policy(TRUE, {}, {})
MCPolicies == {AnyPolicy, Policy(TRUE, {openai}, {}), Policy(TRUE, {}, {chat}),
               Policy(FALSE, {}, {})}
MCFirstPolicy == [k \in Keys |-> AnyPolicy]

(* A row that is on, that is off, that is gone, without a proper address.  *)
Service(serves) ==
  [exists |-> TRUE, enabled |-> TRUE, gpu |-> TRUE, address |-> TRUE, serves |-> serves]
Commercial == [Service({}) EXCEPT !.gpu = FALSE]
MCRows == {Service({voice}), Commercial, [Service({voice}) EXCEPT !.enabled = FALSE],
           [Commercial EXCEPT !.exists = FALSE], [Service({voice}) EXCEPT !.address = FALSE]}
MCFirstRow == [s \in Slugs |-> IF s = tts THEN Service({voice}) ELSE Commercial]
=============================================================================
