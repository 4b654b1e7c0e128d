---------------------------- MODULE SecureCopies ----------------------------
(***************************************************************************)
(* What finishing a signed project packet promises, seen from outside:     *)
(* each document gets one signed file, once; that file is what the archive *)
(* keeps; and each party is mailed a link to that file, at most once.      *)
(***************************************************************************)
EXTENDS Naturals, Sequences

CONSTANTS Docs,     \* the documents of a packet
          Parties   \* those who get a copy

VARIABLES official,  \* the signed file of each document; 0 is none
          archive,   \* the file in the project archive; 0 is none
          mailed     \* the files whose links each party was mailed

copies == <<official, archive, mailed>>

Init ==
  /\ official = [d \in Docs |-> 0]
  /\ archive = [d \in Docs |-> 0]
  /\ mailed = [d \in Docs |-> [p \in Parties |-> <<>>]]

\* A new file, of no other document, becomes the signed copy.
Adopt(d) ==
  /\ official[d] = 0
  /\ official' = [official EXCEPT ![d] = official'[d]]
  /\ official'[d] \in Nat \ ({0} \cup {official[c] : c \in Docs})
  /\ UNCHANGED <<archive, mailed>>

File(d) ==
  /\ official[d] # 0 /\ archive[d] = 0
  /\ archive' = [archive EXCEPT ![d] = official[d]]
  /\ UNCHANGED <<official, mailed>>

\* Links are mailed of archived documents only.
Mail(d, p) ==
  /\ archive[d] # 0 /\ mailed[d][p] = <<>>
  /\ mailed' = [mailed EXCEPT ![d][p] = <<archive[d]>>]
  /\ UNCHANGED <<official, archive>>

Next == \E d \in Docs : Adopt(d) \/ File(d) \/ \E p \in Parties : Mail(d, p)

Spec == Init /\ [][Next]_copies
=============================================================================
