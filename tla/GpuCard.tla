------------------------------- MODULE GpuCard -------------------------------
(***************************************************************************)
(* What the scheduler promises of the card, without queues, models or time *)
(* (src/ollamaproxy/scheduler.py, docstring 16-23): the card has one owner *)
(* at a time, one backend; any number of its requests use the card side by *)
(* side; it changes owner only after it was closed, and it is closed only  *)
(* while nobody uses it.  The card may get out of order (an answer was     *)
(* acted upon too late): then nothing is promised until it is empty again. *)
(***************************************************************************)
CONSTANTS Req, Backends, Nobody,
          BackendOfReq   \* the backend a caller's model belongs to

VARIABLES owner, users, closed,
          sound   \* the card is in order

cardVars == <<owner, users, closed, sound>>

CardTypeOK == /\ owner \in Backends \cup {Nobody}
              /\ users \subseteq Req
              /\ closed \in BOOLEAN
              /\ sound \in BOOLEAN

CallersOf(b) == {r \in Req : BackendOfReq[r] = b}

CardInit == owner = Nobody /\ users = {} /\ closed = FALSE /\ sound = TRUE

(* The first use: somebody enters, or what is found in the card's memory   *)
(* makes its backend the owner, to be emptied at once.                     *)
Take(b, entering) ==
  /\ owner = Nobody
  /\ owner' = b
  /\ users' = entering
  /\ closed' \in BOOLEAN
  /\ closed' => entering = {}

Enter(entering) ==
  /\ ~closed
  /\ entering \subseteq CallersOf(owner)
  /\ users' = users \cup entering
  /\ UNCHANGED <<owner, closed>>

Exit(leaving) ==
  /\ users' = users \ leaving
  /\ UNCHANGED <<owner, closed>>

Close == /\ owner # Nobody
         /\ users = {}
         /\ closed' = TRUE
         /\ UNCHANGED <<owner, users>>

HandOver(b, entering) ==
  /\ closed
  /\ users = {}
  /\ owner' = b
  /\ users' = entering
  /\ closed' = FALSE

CardStep ==
  \/ \E b \in Backends : \E entering \in SUBSET CallersOf(b) :
       Take(b, entering) \/ HandOver(b, entering)
  \/ \E some \in SUBSET Req : Enter(some) \/ Exit(some)
  \/ Close
  \/ UNCHANGED <<owner, users, closed>>

Break == sound' = FALSE
Recover == ~sound /\ sound' = TRUE /\ users' = {} /\ closed' = FALSE

CardNext == (sound /\ sound' /\ CardStep) \/ Break \/ Recover

CardSpec == CardInit /\ [][CardNext]_cardVars
=============================================================================
