--------------------------- MODULE SigningPromise ---------------------------
(***************************************************************************)
(* What a signature request promises, seen from outside: signers are asked *)
(* and sign step by step, what was signed stands, and the signed document  *)
(* is filed when everybody signed.  Only starting over takes it all back.  *)
(***************************************************************************)
EXTENDS Naturals

CONSTANTS Signers,  \* in their sort order
          Step      \* of each of them

VARIABLES standing,  \* of each signer: waiting, asked, signed, or out
          filed      \* the signed document is

Expected == {r \in Signers : standing[r] \in {"waiting", "asked"}}
Turn == {r \in Expected : \A q \in Expected : Step[r] <= Step[q]}

Init ==
  /\ standing = [r \in Signers |-> "waiting"]
  /\ filed = FALSE

\* S become what is said of them
Become(S, how) == standing' = [r \in Signers |-> IF r \in S THEN how ELSE standing[r]]

Ask(S) ==
  /\ S \subseteq Turn
  /\ Become(S, "asked")
  /\ UNCHANGED filed

Sign(r) ==
  /\ r \in Turn
  /\ Become({r}, "signed")
  /\ UNCHANGED filed

\* Who signed cannot be left out any more.
LeaveOut(S) ==
  /\ \A r \in S : standing[r] # "signed"
  /\ Become(S, "out")
  /\ UNCHANGED filed

\* With nobody left to sign the office may enter another result for the first
\* signer, until the document is filed.
Enter(r) ==
  /\ Expected = {} /\ ~filed
  /\ \A q \in Signers : r <= q
  /\ \E how \in {"signed", "out"} : Become({r}, how)
  /\ UNCHANGED filed

File ==
  /\ \A r \in Signers : standing[r] = "signed"
  /\ filed' = TRUE
  /\ UNCHANGED standing

StartOver ==
  /\ Become(Signers, "waiting")
  /\ filed' = FALSE

Next ==
  \/ \E S \in SUBSET Signers : Ask(S) \/ LeaveOut(S)
  \/ \E r \in Signers : Sign(r) \/ Enter(r)
  \/ File \/ StartOver

Spec == Init /\ [][Next]_<<standing, filed>>
=============================================================================
