---------------------------- MODULE FixedWindow ----------------------------
(***************************************************************************)
(* What a rate limiter promises.  There are several windows; each gives    *)
(* Limit passes before it starts over.  A request draws from one window    *)
(* after another, and is told what it drew last, or that there was an      *)
(* error.                                                                  *)
(***************************************************************************)
EXTENDS Naturals

CONSTANTS Requests, Windows, Limit

VARIABLES
  used,   \* how many passes of each window are gone
  drawn,  \* what each request drew last
  told    \* what it was told

vars == <<used, drawn, told>>

Init ==
  /\ used = [w \in Windows |-> 0]
  /\ drawn = [r \in Requests |-> "nothing"]
  /\ told = [r \in Requests |-> "nothing"]

StartOver(w) ==
  /\ used' = [used EXCEPT ![w] = 0]
  /\ UNCHANGED <<drawn, told>>

Draw(r, w) ==
  /\ told[r] = "nothing"
  /\ IF used[w] < Limit
     THEN /\ used' = [used EXCEPT ![w] = @ + 1]
          /\ drawn' = [drawn EXCEPT ![r] = "yes"]
     ELSE /\ used' = used
          /\ drawn' = [drawn EXCEPT ![r] = "no"]

\* what a request draws may never reach it
Waste(w) ==
  /\ used[w] < Limit
  /\ used' = [used EXCEPT ![w] = @ + 1]
  /\ UNCHANGED <<drawn, told>>

Wait(r, w) == Draw(r, w) /\ UNCHANGED told

Tell(r) ==
  /\ told[r] = "nothing"
  /\ told' = [told EXCEPT ![r] = drawn[r]]
  /\ UNCHANGED <<used, drawn>>

DrawAndTell(r, w) == Draw(r, w) /\ told' = [told EXCEPT ![r] = drawn'[r]]

GiveUp(r) ==
  /\ told[r] = "nothing"
  /\ told' = [told EXCEPT ![r] = "error"]
  /\ UNCHANGED <<used, drawn>>

Next ==
  \/ \E w \in Windows : StartOver(w) \/ Waste(w)
  \/ \E r \in Requests : \/ Tell(r) \/ GiveUp(r)
                         \/ \E w \in Windows : Wait(r, w) \/ DrawAndTell(r, w)

Spec == Init /\ [][Next]_vars
============================================================================
