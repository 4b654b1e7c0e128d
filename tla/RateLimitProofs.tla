-------------------------- MODULE RateLimitProofs --------------------------
(***************************************************************************)
(* Proofs about RateLimit, for any number of requests and connections.     *)
(*                                                                         *)
(* Answers carry no name: that they have the type a request can be told,   *)
(* and later that they are its own, rests on Aligned: on an open           *)
(* connection the commands without an answer are those of the answers on   *)
(* their way followed by those Redis has not executed, and AUTH comes      *)
(* before everything else.                                                 *)
(***************************************************************************)
EXTENDS RateLimit, FiniteSetTheorems, SequenceTheorems, TLAPS

Sockets  == {"unused", "connecting", "open", "dying", "closed"}
Promises == {"new", "ready", "rejected"}
Commands == Requests \cup {Auth}
Answers  == {"OK", "yes", "no", "error"}

Waiters  == Seq(Requests)
Queues   == Seq(Commands)
Replies  == Seq(Answers)

ConnRecord == [socket : Sockets, promise : Promises, waiting : Waiters,
               pending : Queues, sent : Queues, back : Replies]

\* the commands p without an answer, those on their way s, the answers on theirs b
Matches(p, s, b) ==
  /\ Len(p) = Len(b) + Len(s)
  /\ \A i \in 1..Len(b) : /\ b[i] = "OK" => p[i] = Auth
                          /\ b[i] \in {"yes", "no"} => p[i] # Auth
  /\ \A j \in 1..Len(s) : s[j] = p[Len(b) + j]

NoAuth(p) == \A i \in 1..Len(p) : p[i] # Auth

Aligned(k) ==
  /\ k.socket \in {"unused", "connecting"} =>
       k.pending = <<>> /\ k.sent = <<>> /\ k.back = <<>> /\ k.promise = "new"
  /\ k.socket = "open" =>
       /\ k.promise \in {"new", "ready"}
       /\ Matches(k.pending, k.sent, k.back)
       /\ k.promise = "new" => Len(k.pending) = 1 /\ k.pending[1] = Auth
       /\ k.promise = "ready" => NoAuth(k.pending)

LEMMA TypeParts ==
  TypeOK <=> /\ req \in [Requests -> {"idle", "asking", "failed", "yes", "no", "error"}]
             /\ current \in Conns \cup {None}
             /\ conn \in [Conns -> ConnRecord]
             /\ count \in Nat
             /\ memory \in 0..Limit
             /\ drawn \in [Requests -> {"nothing", "yes", "no"}]
  BY DEF TypeOK, ConnRecord, Sockets, Promises, Commands, Answers, Waiters, Queues, Replies

LEMMA TypePartsNext ==
  TypeOK' <=> /\ req' \in [Requests -> {"idle", "asking", "failed", "yes", "no", "error"}]
              /\ current' \in Conns \cup {None}
              /\ conn' \in [Conns -> ConnRecord]
              /\ count' \in Nat
              /\ memory' \in 0..Limit
              /\ drawn' \in [Requests -> {"nothing", "yes", "no"}]
  BY DEF TypeOK, ConnRecord, Sockets, Promises, Commands, Answers, Waiters, Queues, Replies

IInv ==
  /\ TypeOK
  /\ \A c \in Conns : Aligned(conn[c])

----------------------------------------------------------------------------
(* Commands and answers *)

LEMMA RequestIsCommand ==
  /\ Auth \in Commands
  /\ \A r \in Requests : r \in Commands /\ r # Auth
  /\ \A x \in Commands : x # Auth => x \in Requests
  BY RateAssumption DEF Commands

\* a command is written
LEMMA MatchesWrite ==
  ASSUME NEW p \in Seq(Commands), NEW s \in Seq(Commands), NEW b \in Seq(Answers),
         NEW x \in Commands, Matches(p, s, b)
  PROVE  /\ Append(p, x) \in Seq(Commands) /\ Append(s, x) \in Seq(Commands)
         /\ Matches(Append(p, x), Append(s, x), b)
         /\ NoAuth(p) /\ x # Auth => NoAuth(Append(p, x))
<1> DEFINE P == Append(p, x)
           S == Append(s, x)
<1>1. /\ P \in Seq(Commands) /\ Len(P) = Len(p) + 1
      /\ \A i \in 1..Len(p) : P[i] = p[i]
      /\ P[Len(p) + 1] = x
  BY AppendProperties
<1>2. /\ S \in Seq(Commands) /\ Len(S) = Len(s) + 1
      /\ \A i \in 1..Len(s) : S[i] = s[i]
      /\ S[Len(s) + 1] = x
  BY AppendProperties
<1>3. Len(p) \in Nat /\ Len(s) \in Nat /\ Len(b) \in Nat
  BY LenProperties
<1> HIDE DEF P, S
<1>4. Len(P) = Len(b) + Len(S)
  BY <1>1, <1>2, <1>3 DEF Matches
<1>5. ASSUME NEW i \in 1..Len(b)
      PROVE  /\ b[i] = "OK" => P[i] = Auth
             /\ b[i] \in {"yes", "no"} => P[i] # Auth
  <2>1. i \in 1..Len(p)
    BY <1>3 DEF Matches
  <2> QED BY <1>1, <2>1 DEF Matches
<1>6. ASSUME NEW j \in 1..Len(S)
      PROVE  S[j] = P[Len(b) + j]
  <2>1. CASE j \in 1..Len(s)
    <3>1. Len(b) + j \in 1..Len(p)
      BY <1>3, <2>1 DEF Matches
    <3>2. P[Len(b) + j] = p[Len(b) + j] /\ S[j] = s[j]
      BY <1>1, <1>2, <2>1, <3>1
    <3>3. s[j] = p[Len(b) + j]
      BY <2>1 DEF Matches
    <3> QED BY <3>2, <3>3
  <2>2. CASE j = Len(s) + 1
    <3>1. Len(b) + j = Len(p) + 1
      BY <1>3, <2>2 DEF Matches
    <3> QED BY <1>1, <1>2, <2>2, <3>1
  <2> QED BY <1>2, <1>3, <2>1, <2>2
<1>7. ASSUME NoAuth(p), x # Auth
      PROVE  NoAuth(P)
  <2> SUFFICES ASSUME NEW i \in 1..Len(P) PROVE P[i] # Auth
    BY DEF NoAuth
  <2>1. i \in 1..Len(p) \/ i = Len(p) + 1
    BY <1>1, <1>3
  <2> QED BY <1>1, <1>7, <2>1 DEF NoAuth
<1>8. Matches(P, S, b)
  BY <1>4, <1>5, <1>6 DEF Matches
<1> QED BY <1>1, <1>2, <1>7, <1>8 DEF P, S

\* Redis executes a command and answers
LEMMA MatchesServe ==
  ASSUME NEW p \in Seq(Commands), NEW s \in Seq(Commands), NEW b \in Seq(Answers),
         s # <<>>, Matches(p, s, b), NEW ans \in Answers,
         ans = "OK" => Head(s) = Auth,
         ans \in {"yes", "no"} => Head(s) # Auth
  PROVE  /\ Tail(s) \in Seq(Commands) /\ Append(b, ans) \in Seq(Answers)
         /\ Matches(p, Tail(s), Append(b, ans))
         /\ Head(s) = p[Len(b) + 1] /\ Len(b) + 1 \in 1..Len(p)
<1> DEFINE S == Tail(s)
           B == Append(b, ans)
<1>1. /\ B \in Seq(Answers) /\ Len(B) = Len(b) + 1
      /\ \A i \in 1..Len(b) : B[i] = b[i]
      /\ B[Len(b) + 1] = ans
  BY AppendProperties
<1>2. /\ S \in Seq(Commands) /\ Len(S) = Len(s) - 1
      /\ \A i \in 1..Len(S) : S[i] = s[i + 1]
  BY HeadTailProperties
<1>3. Len(p) \in Nat /\ Len(s) \in Nat \ {0} /\ Len(b) \in Nat
  BY LenProperties, EmptySeq
<1>4. Head(s) = s[1]
  OBVIOUS
<1> HIDE DEF S, B
<1>5. Head(s) = p[Len(b) + 1] /\ Len(b) + 1 \in 1..Len(p)
  BY <1>3, <1>4 DEF Matches
<1>6. Len(p) = Len(B) + Len(S)
  BY <1>1, <1>2, <1>3 DEF Matches
<1>7. ASSUME NEW i \in 1..Len(B)
      PROVE  /\ B[i] = "OK" => p[i] = Auth
             /\ B[i] \in {"yes", "no"} => p[i] # Auth
  <2>1. CASE i \in 1..Len(b)
    BY <1>1, <2>1 DEF Matches
  <2>2. CASE i = Len(b) + 1
    BY <1>1, <1>5, <2>2
  <2> QED BY <1>1, <1>3, <2>1, <2>2
<1>8. ASSUME NEW j \in 1..Len(S)
      PROVE  S[j] = p[Len(B) + j]
  <2>1. j + 1 \in 1..Len(s) /\ Len(B) + j = Len(b) + (j + 1)
    BY <1>1, <1>2, <1>3
  <2>2. s[j + 1] = p[Len(b) + (j + 1)]
    BY <2>1 DEF Matches
  <2> QED BY <1>2, <2>1, <2>2
<1>9. Matches(p, S, B)
  BY <1>6, <1>7, <1>8 DEF Matches
<1> QED BY <1>1, <1>2, <1>5, <1>9 DEF S, B

\* an answer is read
LEMMA MatchesAnswer ==
  ASSUME NEW p \in Seq(Commands), NEW s \in Seq(Commands), NEW b \in Seq(Answers),
         b # <<>>, Matches(p, s, b)
  PROVE  /\ p # <<>> /\ Head(p) \in Commands /\ Head(p) = p[1] /\ Head(b) = b[1]
         /\ Tail(p) \in Seq(Commands) /\ Tail(b) \in Seq(Answers)
         /\ Matches(Tail(p), s, Tail(b))
         /\ NoAuth(p) => Head(p) # Auth /\ NoAuth(Tail(p))
         /\ Head(p) # Auth /\ Head(b) # "error" => Head(b) \in {"yes", "no"}
<1> DEFINE P == Tail(p)
           B == Tail(b)
<1>1. Len(p) \in Nat /\ Len(s) \in Nat /\ Len(b) \in Nat \ {0}
  BY LenProperties, EmptySeq
<1>2. Len(p) \in Nat \ {0} /\ p # <<>>
  BY <1>1, EmptySeq DEF Matches
<1>3. /\ P \in Seq(Commands) /\ Len(P) = Len(p) - 1 /\ Head(p) \in Commands
      /\ \A i \in 1..Len(P) : P[i] = p[i + 1]
  BY <1>2, HeadTailProperties
<1>4. /\ B \in Seq(Answers) /\ Len(B) = Len(b) - 1 /\ Head(b) \in Answers
      /\ \A i \in 1..Len(B) : B[i] = b[i + 1]
  BY HeadTailProperties
<1>5. Head(p) = p[1] /\ Head(b) = b[1] /\ 1 \in 1..Len(p) /\ 1 \in 1..Len(b)
  BY <1>1, <1>2
<1> HIDE DEF P, B
<1>6. Len(P) = Len(B) + Len(s)
  BY <1>1, <1>2, <1>3, <1>4 DEF Matches
<1>7. ASSUME NEW i \in 1..Len(B)
      PROVE  /\ B[i] = "OK" => P[i] = Auth
             /\ B[i] \in {"yes", "no"} => P[i] # Auth
  <2>1. i \in 1..Len(P) /\ i + 1 \in 1..Len(b)
    BY <1>1, <1>4, <1>6
  <2> QED BY <1>3, <1>4, <2>1 DEF Matches
<1>8. ASSUME NEW j \in 1..Len(s)
      PROVE  s[j] = P[Len(B) + j]
  <2>1. Len(B) + j \in 1..Len(P) /\ (Len(B) + j) + 1 = Len(b) + j
    BY <1>1, <1>4, <1>6
  <2>2. s[j] = p[Len(b) + j]
    BY DEF Matches
  <2> QED BY <1>3, <2>1, <2>2
<1>9. ASSUME NoAuth(p)
      PROVE  Head(p) # Auth /\ NoAuth(P)
  <2> SUFFICES ASSUME NEW i \in 1..Len(P) PROVE P[i] # Auth
    BY <1>5, <1>9 DEF NoAuth
  <2>1. i + 1 \in 1..Len(p)
    BY <1>1, <1>3
  <2> QED BY <1>3, <1>9, <2>1 DEF NoAuth
<1>10. Head(p) # Auth /\ Head(b) # "error" => Head(b) \in {"yes", "no"}
  BY <1>4, <1>5 DEF Matches, Answers
<1>11. Matches(P, s, B)
  BY <1>6, <1>7, <1>8 DEF Matches
<1> QED BY <1>2, <1>3, <1>4, <1>5, <1>9, <1>10, <1>11 DEF P, B

\* those who waited for AUTH write
LEMMA MatchesWaiting ==
  ASSUME NEW w \in Seq(Requests)
  PROVE  w \in Seq(Commands) /\ Matches(w, w, <<>>) /\ NoAuth(w)
<1>1. w \in Seq(Commands) /\ Len(w) \in Nat /\ \A i \in 1..Len(w) : w[i] \in Requests
  BY SeqMonotonic, LenProperties, ElementOfSeq DEF Commands
<1>2. Len(<<>>) = 0
  OBVIOUS
<1>3. NoAuth(w)
  BY <1>1, RequestIsCommand DEF NoAuth
<1>4. Matches(w, w, <<>>)
  BY <1>1, <1>2 DEF Matches
<1> QED BY <1>1, <1>3, <1>4

----------------------------------------------------------------------------
(* What happens to one connection *)

LEMMA Names ==
  /\ {"unused", "connecting", "open", "dying", "closed"} \subseteq Sockets
  /\ {"new", "ready", "rejected"} \subseteq Promises
  BY DEF Sockets, Promises

LEMMA Fields ==
  ASSUME NEW k \in ConnRecord
  PROVE  /\ k.socket \in Sockets /\ k.promise \in Promises /\ k.waiting \in Seq(Requests)
         /\ k.pending \in Seq(Commands) /\ k.sent \in Seq(Commands) /\ k.back \in Seq(Answers)
  BY DEF ConnRecord, Waiters, Queues, Replies

LEMMA Empty == /\ <<>> \in Seq(Requests) /\ <<>> \in Seq(Commands) /\ <<>> \in Seq(Answers)
               /\ Len(<<>>) = 0
  BY EmptySeq

LEMMA UnusedFacts == Unused \in ConnRecord /\ Aligned(Unused)
<1>1. <<>> \in Waiters /\ <<>> \in Queues /\ <<>> \in Replies
  BY Empty DEF Waiters, Queues, Replies
<1>2. Unused \in ConnRecord
  BY <1>1, Names DEF ConnRecord, Unused
<1> QED BY <1>2 DEF Aligned, Unused

\* a request writes to a connection that is ready, or starts to wait
LEMMA CommandedFacts ==
  ASSUME NEW k \in ConnRecord, Aligned(k), NEW r \in Requests, k.promise = "ready"
  PROVE  /\ Commanded(k, r) \in ConnRecord /\ Aligned(Commanded(k, r))
         /\ Commanded(k, r).socket = k.socket
<1> DEFINE P == Append(k.pending, r)
           S == Append(k.sent, r)
           n == Commanded(k, r)
<1>1. P \in Queues /\ S \in Queues
  BY Fields, RequestIsCommand, AppendProperties DEF Queues
<1>2. CASE k.socket = "open"
  <2>1. Matches(P, S, k.back) /\ NoAuth(P)
    BY <1>2, Fields, RequestIsCommand, MatchesWrite DEF Aligned
  <2>2. n = [k EXCEPT !.pending = P, !.sent = S]
    BY <1>2 DEF Commanded
  <2> HIDE DEF P, S, n
  <2>3. /\ n \in ConnRecord /\ n.socket = "open" /\ n.promise = "ready"
        /\ n.pending = P /\ n.sent = S /\ n.back = k.back
    BY <1>1, <1>2, <2>2 DEF ConnRecord
  <2>4. Aligned(n)
    BY <2>1, <2>3 DEF Aligned
  <2> QED BY <1>2, <2>3, <2>4 DEF n
<1>3. CASE k.socket # "open"
  <2>1. n = [k EXCEPT !.pending = P, !.sent = k.sent]
    BY <1>3 DEF Commanded
  <2> HIDE DEF P, S, n
  <2>2. n \in ConnRecord /\ n.socket = k.socket /\ n.promise = "ready"
    BY <1>1, <2>1 DEF ConnRecord
  <2>3. k.socket \notin {"unused", "connecting"}
    BY DEF Aligned
  <2>4. Aligned(n)
    BY <1>3, <2>2, <2>3 DEF Aligned
  <2> QED BY <2>2, <2>4 DEF n
<1> QED BY <1>2, <1>3

LEMMA WaitingFacts ==
  ASSUME NEW k \in ConnRecord, Aligned(k), NEW r \in Requests
  PROVE  Waiting(k, r) \in ConnRecord /\ Aligned(Waiting(k, r)) /\ Waiting(k, r).socket = k.socket
<1> DEFINE W == Append(k.waiting, r)
           n == [k EXCEPT !.waiting = W]
<1>1. W \in Waiters
  BY Fields, AppendProperties DEF Waiters
<1> HIDE DEF W
<1>2. /\ n \in ConnRecord /\ n.socket = k.socket /\ n.promise = k.promise
      /\ n.pending = k.pending /\ n.sent = k.sent /\ n.back = k.back
  BY <1>1 DEF ConnRecord
<1> HIDE DEF n
<1>3. Aligned(n)
  BY <1>2 DEF Aligned
<1> QED BY <1>2, <1>3 DEF n, Waiting, W

LEMMA OpeningFacts ==
  ASSUME NEW r \in Requests
  PROVE  Opening(r) \in ConnRecord /\ Aligned(Opening(r)) /\ Opening(r).socket = "connecting"
<1> DEFINE n == [Unused EXCEPT !.socket = "connecting", !.waiting = <<r>>]
<1>1. <<r>> \in Seq(Requests)
  OBVIOUS
<1>2. <<r>> \in Waiters
  BY <1>1 DEF Waiters
<1>3. n \in ConnRecord /\ n.socket = "connecting"
  BY <1>2, UnusedFacts, Names DEF ConnRecord
<1>4. n.pending = <<>> /\ n.sent = <<>> /\ n.back = <<>> /\ n.promise = "new"
  BY DEF Unused
<1> HIDE DEF n
<1>5. Aligned(n)
  BY <1>3, <1>4 DEF Aligned
<1> QED BY <1>3, <1>5 DEF n, Opening

LEMMA ConnectFacts ==
  ASSUME NEW k \in ConnRecord, Aligned(k), k.socket = "connecting"
  PROVE  LET n == Commanded([k EXCEPT !.socket = "open"], Auth)
         IN n \in ConnRecord /\ Aligned(n) /\ n.socket = "open"
<1> DEFINE q == <<Auth>>
           o == [k EXCEPT !.socket = "open"]
           n == Commanded(o, Auth)
<1>1. k.pending = <<>> /\ k.sent = <<>> /\ k.back = <<>> /\ k.promise = "new"
  BY DEF Aligned
<1>2. Append(<<>>, Auth) = q /\ q \in Seq(Commands) /\ Len(q) = 1 /\ q[1] = Auth
  BY RequestIsCommand
<1>3. q \in Queues
  BY <1>2 DEF Queues
<1>4. Matches(q, q, <<>>)
  BY Empty DEF Matches
<1> HIDE DEF q
<1>5. /\ o \in ConnRecord /\ o.socket = "open" /\ o.promise = "new"
      /\ o.pending = <<>> /\ o.sent = <<>> /\ o.back = <<>>
  BY <1>1, Names DEF ConnRecord
<1> HIDE DEF o
<1>6. n = [o EXCEPT !.pending = q, !.sent = q]
  BY <1>2, <1>5 DEF Commanded
<1> HIDE DEF n
<1>7. /\ n \in ConnRecord /\ n.socket = "open" /\ n.promise = "new"
      /\ n.pending = q /\ n.sent = q /\ n.back = <<>>
  BY <1>3, <1>5, <1>6 DEF ConnRecord
<1>8. Aligned(n)
  BY <1>2, <1>4, <1>7 DEF Aligned
<1> QED BY <1>7, <1>8 DEF n, o

LEMMA ServeFacts ==
  ASSUME NEW k \in ConnRecord, Aligned(k), k.sent # <<>>, NEW ans \in Answers,
         ans = "OK" => Head(k.sent) = Auth,
         ans \in {"yes", "no"} => Head(k.sent) # Auth
  PROVE  Served(k, ans) \in ConnRecord /\ Aligned(Served(k, ans)) /\ Served(k, ans).socket = k.socket
<1> DEFINE S == Tail(k.sent)
           B == IF k.socket = "open" THEN Append(k.back, ans) ELSE k.back
           n == [k EXCEPT !.sent = S, !.back = B]
<1>1. S \in Queues /\ B \in Replies
  BY Fields, HeadTailProperties, AppendProperties DEF Queues, Replies
<1>2. k.socket = "open" => Matches(k.pending, S, B)
  BY Fields, MatchesServe DEF Aligned
<1>3. k.socket \notin {"unused", "connecting"}
  BY DEF Aligned
<1> HIDE DEF S, B
<1>4. /\ n \in ConnRecord /\ n.socket = k.socket /\ n.promise = k.promise
      /\ n.pending = k.pending /\ n.sent = S /\ n.back = B
  BY <1>1 DEF ConnRecord
<1> HIDE DEF n
<1>5. Aligned(n)
  BY <1>2, <1>3, <1>4 DEF Aligned
<1> QED BY <1>4, <1>5 DEF n, Served, S, B

LEMMA DyingFacts ==
  ASSUME NEW k \in ConnRecord
  PROVE  Dying(k) \in ConnRecord /\ Aligned(Dying(k)) /\ Dying(k).socket = "dying"
<1>1. <<>> \in Waiters /\ <<>> \in Queues /\ <<>> \in Replies
  BY Empty DEF Waiters, Queues, Replies
<1>2. Dying(k) \in ConnRecord /\ Dying(k).socket = "dying"
  BY <1>1, Names DEF ConnRecord, Dying
<1> QED BY <1>2 DEF Aligned

LEMMA GoneFacts == Gone \in ConnRecord /\ Aligned(Gone) /\ Gone.socket = "closed"
<1>1. Gone \in ConnRecord /\ Gone.socket = "closed"
  BY UnusedFacts, Names DEF Gone, ConnRecord
<1> QED BY <1>1 DEF Aligned

LEMMA HangUpFacts ==
  ASSUME NEW k \in ConnRecord
  PROVE  Ending(k) \in ConnRecord /\ Aligned(Ending(k)) /\ Ending(k).socket = "dying"
<1> DEFINE n == [k EXCEPT !.socket = "dying", !.back = <<>>]
<1>1. <<>> \in Replies
  BY Empty DEF Replies
<1>2. n \in ConnRecord /\ n.socket = "dying"
  BY <1>1, Names DEF ConnRecord
<1> HIDE DEF n
<1>3. Aligned(n)
  BY <1>2 DEF Aligned
<1> QED BY <1>2, <1>3 DEF n, Ending

\* the answer to AUTH: everybody who waits writes
LEMMA AuthAnsweredFacts ==
  ASSUME NEW k \in ConnRecord, Aligned(k), k.socket = "open", k.back # <<>>,
         Head(k.pending) = Auth
  PROVE  LetIn(k) \in ConnRecord /\ Aligned(LetIn(k)) /\ LetIn(k).socket = "open" /\ k.promise = "new"
<1> DEFINE B == Tail(k.back)
           n == [k EXCEPT !.promise = "ready", !.back = B, !.waiting = <<>>,
                          !.pending = k.waiting, !.sent = k.waiting]
<1>0. /\ k.pending \in Seq(Commands) /\ k.sent \in Seq(Commands) /\ k.back \in Seq(Answers)
      /\ Matches(k.pending, k.sent, k.back)
  BY Fields DEF Aligned
<1>1. k.promise = "new"
  BY <1>0, MatchesAnswer DEF Aligned
<1>2. Len(k.pending) = 1
  BY <1>1 DEF Aligned
<1>3. B = <<>>
  <2>1. /\ B \in Seq(Answers) /\ Tail(k.pending) \in Seq(Commands) /\ k.pending # <<>>
        /\ Matches(Tail(k.pending), k.sent, B)
    BY <1>0, MatchesAnswer
  <2>2. Len(Tail(k.pending)) = 0
    BY <1>0, <1>2, <2>1, HeadTailProperties
  <2>3. Len(B) \in Nat /\ Len(k.sent) \in Nat
    BY <1>0, <2>1, LenProperties
  <2> HIDE DEF B
  <2>4. Len(B) = 0
    BY <2>1, <2>2, <2>3 DEF Matches
  <2> QED BY <2>1, <2>4, EmptySeq
<1>4. k.waiting \in Seq(Commands) /\ Matches(k.waiting, k.waiting, <<>>) /\ NoAuth(k.waiting)
  BY Fields, MatchesWaiting
<1>5. k.waiting \in Queues /\ <<>> \in Waiters /\ <<>> \in Replies
  BY <1>4, Empty DEF Queues, Waiters, Replies
<1> HIDE DEF B
<1>6. /\ n \in ConnRecord /\ n.socket = "open" /\ n.promise = "ready"
      /\ n.pending = k.waiting /\ n.sent = k.waiting /\ n.back = <<>>
  BY <1>3, <1>5, Names DEF ConnRecord
<1> HIDE DEF n
<1>7. Aligned(n)
  BY <1>4, <1>6 DEF Aligned
<1> QED BY <1>1, <1>6, <1>7 DEF n, LetIn, B

LEMMA AnsweredFacts ==
  ASSUME NEW k \in ConnRecord, Aligned(k), k.socket = "open", k.back # <<>>,
         Head(k.pending) # Auth, Head(k.back) # "error"
  PROVE  /\ Taken(k) \in ConnRecord /\ Aligned(Taken(k)) /\ Taken(k).socket = "open"
     /\ Head(k.pending) \in Requests /\ Head(k.back) \in {"yes", "no"}
     /\ k.promise = "ready"
<1> DEFINE P == Tail(k.pending)
           B == Tail(k.back)
           n == [k EXCEPT !.back = B, !.pending = P]
<1>0. /\ k.pending \in Seq(Commands) /\ k.sent \in Seq(Commands) /\ k.back \in Seq(Answers)
      /\ Matches(k.pending, k.sent, k.back)
  BY Fields DEF Aligned
<1>1. /\ Head(k.pending) \in Commands /\ Head(k.pending) = k.pending[1]
      /\ P \in Seq(Commands) /\ B \in Seq(Answers) /\ Matches(P, k.sent, B)
      /\ Head(k.back) \in {"yes", "no"}
      /\ NoAuth(k.pending) => NoAuth(P)
  BY <1>0, MatchesAnswer
<1>2. k.promise = "ready"
  BY <1>1 DEF Aligned
<1>3. NoAuth(P)
  BY <1>1, <1>2 DEF Aligned
<1>4. Head(k.pending) \in Requests
  BY <1>1, RequestIsCommand
<1>5. P \in Queues /\ B \in Replies
  BY <1>1 DEF Queues, Replies
<1> HIDE DEF P, B
<1>6. /\ n \in ConnRecord /\ n.socket = "open" /\ n.promise = "ready"
      /\ n.pending = P /\ n.sent = k.sent /\ n.back = B
  BY <1>2, <1>5 DEF ConnRecord
<1> HIDE DEF n
<1>7. Aligned(n)
  BY <1>1, <1>3, <1>6 DEF Aligned
<1> QED BY <1>1, <1>2, <1>4, <1>6, <1>7 DEF n, Taken, Shifted, P, B

----------------------------------------------------------------------------
(* The type invariant *)

LEMMA Replaced ==
  ASSUME conn \in [Conns -> ConnRecord], \A x \in Conns : Aligned(conn[x]),
         NEW c \in Conns, NEW n \in ConnRecord, Aligned(n),
         conn' = [conn EXCEPT ![c] = n]
  PROVE  /\ conn' \in [Conns -> ConnRecord]
         /\ \A x \in Conns : Aligned(conn'[x])
         /\ conn'[c] = n
         /\ \A x \in Conns : x # c => conn'[x] = conn[x]
  OBVIOUS

LEMMA AlignedNext ==
  ASSUME \A x \in Conns : Aligned(conn'[x])
  PROVE  (\A x \in Conns : Aligned(conn[x]))'
  BY DEF Aligned, Matches, NoAuth

LEMMA PassFacts == \A n : Pass(n) \in {"yes", "no"}
  BY DEF Pass

LEMMA InvInit == Init => IInv
<1> SUFFICES ASSUME Init PROVE IInv
  OBVIOUS
<1>1. conn \in [Conns -> ConnRecord] /\ \A c \in Conns : Aligned(conn[c])
  BY UnusedFacts DEF Init
<1>2. 0 \in 0..Limit
  BY RateAssumption
<1> QED BY <1>1, <1>2, TypeParts DEF Init, IInv

LEMMA AskKeeps ==
  ASSUME IInv, NEW r \in Requests, Ask(r)
  PROVE  IInv'
<1>1. conn \in [Conns -> ConnRecord] /\ \A x \in Conns : Aligned(conn[x])
  BY TypeParts DEF IInv
<1>2. req' \in [Requests -> {"idle", "asking", "failed", "yes", "no", "error"}]
      /\ UNCHANGED <<count, memory, drawn>>
  BY TypeParts DEF IInv, Ask
<1>3. /\ conn' \in [Conns -> ConnRecord] /\ \A x \in Conns : Aligned(conn'[x])
      /\ current' \in Conns \cup {None}
  <2>1. CASE current # None
    <3>1. current \in Conns /\ current' = current
      BY <2>1, TypeParts DEF IInv, Ask
    <3>2. CASE conn[current].promise = "ready"
      <4>1. conn' = [conn EXCEPT ![current] = Commanded(conn[current], r)]
        BY <1>1, <2>1, <3>1, <3>2 DEF Ask
      <4>2. Commanded(conn[current], r) \in ConnRecord /\ Aligned(Commanded(conn[current], r))
        BY <1>1, <3>1, <3>2, CommandedFacts
      <4> QED BY <1>1, <3>1, <4>1, <4>2, Replaced
    <3>3. CASE conn[current].promise # "ready"
      <4> DEFINE n == Waiting(conn[current], r)
      <4>1. conn' = [conn EXCEPT ![current] = n]
        BY <1>1, <2>1, <3>1, <3>3 DEF Ask
      <4>2. n \in ConnRecord /\ Aligned(n)
        BY <1>1, <3>1, WaitingFacts
      <4> HIDE DEF n
      <4> QED BY <1>1, <3>1, <4>1, <4>2, Replaced
    <3> QED BY <3>2, <3>3
  <2>2. CASE current = None
    <3> DEFINE c == CHOOSE c \in Conns : conn[c] = Unused
               n == Opening(r)
    <3>1. c \in Conns
      BY <2>2 DEF Ask
    <3>2. conn' = [conn EXCEPT ![c] = n] /\ current' = c
      BY <2>2 DEF Ask, Registered
    <3>3. n \in ConnRecord /\ Aligned(n)
      BY OpeningFacts
    <3> HIDE DEF n, c
    <3> QED BY <1>1, <3>1, <3>2, <3>3, Replaced
  <2> QED BY <2>1, <2>2
<1>4. \A x \in Conns : Aligned(conn[x])'
  BY <1>3, AlignedNext
<1> QED BY <1>2, <1>3, <1>4, TypeParts, TypePartsNext DEF IInv

LEMMA ServeKeeps ==
  ASSUME IInv, NEW c \in Conns, Serve(c)
  PROVE  IInv'
<1>1. conn \in [Conns -> ConnRecord] /\ \A x \in Conns : Aligned(conn[x])
  BY TypeParts DEF IInv
<1> DEFINE cmd == Head(conn[c].sent)
<1>2. PICK ans \in Outcomes(cmd) :
        /\ conn' = [conn EXCEPT ![c] = Served(conn[c], ans)]
        /\ count' = IF ans \in {"yes", "no"} THEN count + 1 ELSE count
        /\ drawn' = IF ans \in {"yes", "no"} /\ conn[c].socket = "open"
                    THEN [drawn EXCEPT ![cmd] = ans] ELSE drawn
  BY DEF Serve
<1>3. /\ ans \in Answers /\ (ans = "OK" => cmd = Auth)
      /\ (ans \in {"yes", "no"} => cmd # Auth)
  BY <1>2, PassFacts DEF Answers, Outcomes
<1>4. conn[c].sent # <<>> /\ UNCHANGED <<req, current, memory>>
  BY DEF Serve
<1>5. count' \in Nat
  BY <1>2, TypeParts DEF IInv
<1>6. drawn' \in [Requests -> {"nothing", "yes", "no"}]
  BY <1>2, TypeParts DEF IInv
<1>7. Served(conn[c], ans) \in ConnRecord /\ Aligned(Served(conn[c], ans))
  <2>1. conn[c] \in ConnRecord /\ Aligned(conn[c])
    BY <1>1
  <2> QED BY <1>3, <1>4, <2>1, ServeFacts
<1>8. conn' \in [Conns -> ConnRecord] /\ \A x \in Conns : Aligned(conn[x])'
  BY <1>1, <1>2, <1>7, Replaced, AlignedNext
<1> QED BY <1>4, <1>5, <1>6, <1>8, TypeParts, TypePartsNext DEF IInv

LEMMA AnswerKeeps ==
  ASSUME IInv, NEW c \in Conns, Answer(c)
  PROVE  IInv'
<1> DEFINE k == conn[c]
<1>1. /\ conn \in [Conns -> ConnRecord] /\ \A x \in Conns : Aligned(conn[x])
      /\ k \in ConnRecord /\ Aligned(k)
      /\ k.socket = "open" /\ k.back # <<>> /\ Head(k.back) # "error"
      /\ UNCHANGED <<current, count, memory, drawn>>
  BY TypeParts DEF IInv, Answer
<1>2. CASE Head(k.pending) = Auth
  <2> DEFINE n == LetIn(k)
  <2>1. conn' = [conn EXCEPT ![c] = n] /\ req' = req
    <3>1. Shifted(k.pending).who = Auth
      BY <1>2 DEF Shifted
    <3> QED BY <3>1, Zenon DEF Answer
  <2>2. n \in ConnRecord /\ Aligned(n)
    BY <1>1, <1>2, AuthAnsweredFacts
  <2> HIDE DEF n
  <2>3. conn' \in [Conns -> ConnRecord] /\ \A x \in Conns : Aligned(conn[x])'
    BY <1>1, <2>1, <2>2, Replaced, AlignedNext
  <2> QED BY <1>1, <2>1, <2>3, TypeParts, TypePartsNext DEF IInv
<1>3. CASE Head(k.pending) # Auth
  <2> DEFINE n == Taken(k)
  <2>1. conn' = [conn EXCEPT ![c] = n] /\ req' = [req EXCEPT ![Head(k.pending)] = Head(k.back)]
    <3>1. Shifted(k.pending).who = Head(k.pending) /\ Shifted(k.pending).rest = Tail(k.pending)
      BY DEF Shifted
    <3> QED BY <1>3, <3>1, Zenon DEF Answer
  <2>2. /\ n \in ConnRecord /\ Aligned(n)
        /\ Head(k.pending) \in Requests /\ Head(k.back) \in {"yes", "no"}
    BY <1>1, <1>3, AnsweredFacts
  <2> HIDE DEF n
  <2>3. conn' \in [Conns -> ConnRecord] /\ \A x \in Conns : Aligned(conn[x])'
    BY <1>1, <2>1, <2>2, Replaced, AlignedNext
  <2>4. req' \in [Requests -> {"idle", "asking", "failed", "yes", "no", "error"}]
    BY <2>1, <2>2, TypeParts DEF IInv
  <2> QED BY <1>1, <2>3, <2>4, TypeParts, TypePartsNext DEF IInv
<1> QED BY <1>2, <1>3

\* a connection is replaced by another record and some requests fail
LEMMA LoseKeeps ==
  ASSUME IInv, NEW c \in Conns, NEW n \in ConnRecord, Aligned(n), NEW rs, Lose(c, n, rs),
         current' \in {current, None}
  PROVE  IInv'
<1>1. conn \in [Conns -> ConnRecord] /\ \A x \in Conns : Aligned(conn[x])
  BY TypeParts DEF IInv
<1>2. conn' \in [Conns -> ConnRecord] /\ \A x \in Conns : Aligned(conn[x])'
  BY <1>1, Replaced, AlignedNext DEF Lose
<1>3. req' \in [Requests -> {"idle", "asking", "failed", "yes", "no", "error"}]
  BY TypeParts DEF IInv, Lose
<1> QED BY <1>2, <1>3, TypeParts, TypePartsNext DEF IInv, Lose

\* one step per action
LEMMA InvStep == IInv /\ [Next]_vars => IInv'
<1> SUFFICES ASSUME IInv, [Next]_vars
             PROVE  IInv'
  OBVIOUS
<1>0. conn \in [Conns -> ConnRecord] /\ \A x \in Conns : Aligned(conn[x])
  BY TypeParts DEF IInv
<1>1. ASSUME NEW r \in Requests, Ask(r) PROVE IInv'
  BY <1>1, AskKeeps
<1>2. ASSUME NEW r \in Requests, FallBack(r) PROVE IInv'
  <2>1. /\ req' \in [Requests -> {"idle", "asking", "failed", "yes", "no", "error"}]
        /\ drawn' \in [Requests -> {"nothing", "yes", "no"}]
    BY <1>2, PassFacts, TypeParts DEF IInv, FallBack
  <2>2. memory' \in 0..Limit
    BY <1>2, RateAssumption, TypeParts DEF IInv, FallBack
  <2>3. UNCHANGED <<current, conn, count>>
    BY <1>2 DEF FallBack
  <2> QED BY <1>0, <2>1, <2>2, <2>3, AlignedNext, TypeParts, TypePartsNext DEF IInv
<1>3. ASSUME NEW c \in Conns, Connect(c) PROVE IInv'
  <2> DEFINE n == Commanded([conn[c] EXCEPT !.socket = "open"], Auth)
  <2>1. conn' = [conn EXCEPT ![c] = n] /\ UNCHANGED <<req, current, count, memory, drawn>>
    BY <1>3 DEF Connect
  <2>2. n \in ConnRecord /\ Aligned(n)
    BY <1>0, <1>3, ConnectFacts DEF Connect
  <2> HIDE DEF n
  <2>3. conn' \in [Conns -> ConnRecord] /\ \A x \in Conns : Aligned(conn[x])'
    BY <1>0, <2>1, <2>2, Replaced, AlignedNext
  <2> QED BY <2>1, <2>3, TypeParts, TypePartsNext DEF IInv
<1>4. ASSUME NEW c \in Conns, Answer(c) PROVE IInv'
  BY <1>4, AnswerKeeps
<1>5. ASSUME NEW c \in Conns, AnswerError(c) PROVE IInv'
  <2>1. Dying(conn[c]) \in ConnRecord /\ Aligned(Dying(conn[c]))
    BY <1>0, DyingFacts
  <2> QED BY <1>5, <2>1, LoseKeeps DEF AnswerError
<1>6. ASSUME NEW c \in Conns, Error(c) PROVE IInv'
  <2>1. Dying(conn[c]) \in ConnRecord /\ Aligned(Dying(conn[c]))
    BY <1>0, DyingFacts
  <2> QED BY <1>6, <2>1, LoseKeeps DEF Error
<1>7. ASSUME NEW c \in Conns, Close(c) PROVE IInv'
  BY <1>7, GoneFacts, LoseKeeps DEF Close
<1>8. ASSUME NEW c \in Conns, Serve(c) PROVE IInv'
  BY <1>8, ServeKeeps
<1>9. ASSUME NEW c \in Conns, HangUp(c) PROVE IInv'
  <2> DEFINE n == Ending(conn[c])
  <2>1. conn' = [conn EXCEPT ![c] = n] /\ UNCHANGED <<req, current, count, memory, drawn>>
    BY <1>9 DEF HangUp
  <2>2. n \in ConnRecord /\ Aligned(n)
    BY <1>0, <1>9, HangUpFacts
  <2> HIDE DEF n
  <2>3. conn' \in [Conns -> ConnRecord] /\ \A x \in Conns : Aligned(conn[x])'
    BY <1>0, <2>1, <2>2, Replaced, AlignedNext
  <2> QED BY <2>1, <2>3, TypeParts, TypePartsNext DEF IInv
<1>10. CASE Expire
  BY <1>0, <1>10, AlignedNext, TypeParts, TypePartsNext DEF IInv, Expire
<1>11. CASE MemoryExpires
  <2>1. memory' \in 0..Limit /\ UNCHANGED <<req, current, conn, count, drawn>>
    BY <1>11, RateAssumption DEF MemoryExpires
  <2> QED BY <1>0, <2>1, AlignedNext, TypeParts, TypePartsNext DEF IInv
<1>12. CASE UNCHANGED vars
  BY <1>0, <1>12, AlignedNext, TypeParts, TypePartsNext DEF IInv, vars
<1> QED BY <1>1, <1>2, <1>3, <1>4, <1>5, <1>6, <1>7, <1>8, <1>9, <1>10, <1>11, <1>12
        DEF Next, Moves

\* Requests, connections and counters keep their shape; in particular no request
\* is ever told the answer to AUTH (data handler of connectRedisConnection).
THEOREM TypeCorrect == Spec => []TypeOK
<1>1. IInv => TypeOK
  BY DEF IInv
<1> QED BY <1>1, InvInit, InvStep, PTL DEF Spec

----------------------------------------------------------------------------
(* One left for each lost: a connection that is not registered was forgotten  *)
(* when another one closed.                                                   *)

LeakInv ==
  /\ IInv
  /\ Cardinality(Live \ {current}) <= Cardinality(ClosedOnes)

LEMMA LiveFinite ==
  /\ IsFiniteSet(Live) /\ IsFiniteSet(ClosedOnes)
  /\ Cardinality(Live) \in Nat /\ Cardinality(ClosedOnes) \in Nat
  /\ \A x : Cardinality(Live \ {x}) \in Nat
<1>1. Live \in SUBSET Conns /\ ClosedOnes \in SUBSET Conns
  BY DEF Live, ClosedOnes
<1>2. IsFiniteSet(Live) /\ IsFiniteSet(ClosedOnes)
  BY <1>1, RateAssumption, FS_Subset
<1>3. \A x : IsFiniteSet(Live \ {x})
  BY <1>2, FS_RemoveElement
<1> QED BY <1>2, <1>3, FS_CardinalityType

\* whatever is registered counts for one
LEMMA AllButOne ==
  ASSUME NEW x
  PROVE  /\ Cardinality(Live \ {x}) <= Cardinality(Live)
         /\ Cardinality(Live) <= Cardinality(Live \ {x}) + 1
         /\ x \in Live => Cardinality(Live \ {x}) = Cardinality(Live) - 1
<1>1. Cardinality(Live \ {x}) = IF x \in Live THEN Cardinality(Live) - 1 ELSE Cardinality(Live)
  BY LiveFinite, FS_RemoveElement
<1> QED BY <1>1, LiveFinite

\* no socket starts or ends
LEMMA SocketsStay ==
  ASSUME LeakInv, current' = current,
         \A x \in Conns : \/ conn'[x].socket = conn[x].socket
                          \/ conn[x].socket = "connecting" /\ conn'[x].socket = "open"
  PROVE  Cardinality(Live' \ {current'}) <= Cardinality(ClosedOnes')
<1>1. Live' = Live /\ ClosedOnes' = ClosedOnes
  BY DEF Live, ClosedOnes
<1> QED BY <1>1 DEF LeakInv

\* a live one starts to die; another may be forgotten
LEMMA LiveDies ==
  ASSUME LeakInv, NEW c \in Conns, conn[c].socket \in {"connecting", "open"},
         conn'[c].socket = "dying", \A x \in Conns : x # c => conn'[x] = conn[x],
         current' \in {current, None}
  PROVE  Cardinality(Live' \ {current'}) <= Cardinality(ClosedOnes')
<1>1. Live' = Live \ {c} /\ ClosedOnes' = ClosedOnes /\ c \in Live
  BY DEF Live, ClosedOnes
<1>2. CASE current' = current
  <2>1. Live' \ {current'} \in SUBSET (Live \ {current}) /\ IsFiniteSet(Live \ {current})
    BY <1>1, <1>2, LiveFinite, FS_RemoveElement
  <2>2. Cardinality(Live' \ {current'}) <= Cardinality(Live \ {current})
    BY <2>1, FS_Subset
  <2>3. IsFiniteSet(Live' \ {current'})
    BY <2>1, FS_Subset
  <2>4. Cardinality(Live' \ {current'}) \in Nat
    BY <2>3, FS_CardinalityType
  <2> QED BY <1>1, <2>2, <2>4, LiveFinite DEF LeakInv
<1>3. CASE current' = None
  <2>1. Live' \ {current'} = Live \ {c}
    BY <1>1, <1>3, RateAssumption DEF Live
  <2>2. /\ Cardinality(Live \ {c}) = Cardinality(Live) - 1
        /\ Cardinality(Live) <= Cardinality(Live \ {current}) + 1
    BY <1>1, AllButOne
  <2>3. Cardinality(Live \ {current}) <= Cardinality(ClosedOnes)
    BY DEF LeakInv
  <2>4. /\ Cardinality(Live) \in Nat /\ Cardinality(Live \ {current}) \in Nat
        /\ Cardinality(ClosedOnes) \in Nat
    BY LiveFinite
  <2>5. Cardinality(Live \ {c}) <= Cardinality(ClosedOnes)
    BY <2>2, <2>3, <2>4
  <2> QED BY <1>1, <2>1, <2>5
<1> QED BY <1>2, <1>3

\* one closes and the registered one is forgotten
LEMMA OneCloses ==
  ASSUME LeakInv, NEW c \in Conns, conn[c].socket = "dying", conn'[c].socket = "closed",
         \A x \in Conns : x # c => conn'[x] = conn[x], current' = None
  PROVE  Cardinality(Live' \ {current'}) <= Cardinality(ClosedOnes')
<1>1. Live' = Live /\ ClosedOnes' = ClosedOnes \cup {c} /\ c \notin ClosedOnes
  BY DEF Live, ClosedOnes
<1>2. Cardinality(ClosedOnes') = Cardinality(ClosedOnes) + 1
  BY <1>1, LiveFinite, FS_AddElement
<1>3. Live' \ {current'} = Live
  BY <1>1, RateAssumption DEF Live
<1>4. Cardinality(Live) <= Cardinality(Live \ {current}) + 1
  BY AllButOne
<1>5. Cardinality(Live \ {current}) <= Cardinality(ClosedOnes)
  BY DEF LeakInv
<1>6. /\ Cardinality(Live) \in Nat /\ Cardinality(Live \ {current}) \in Nat
      /\ Cardinality(ClosedOnes) \in Nat
  BY LiveFinite
<1>7. Cardinality(Live) <= Cardinality(ClosedOnes) + 1
  BY <1>4, <1>5, <1>6
<1> QED BY <1>2, <1>3, <1>7

\* one is opened where none is registered
LEMMA OneOpens ==
  ASSUME LeakInv, NEW c \in Conns, current = None, current' = c,
         conn[c].socket = "unused", conn'[c].socket = "connecting",
         \A x \in Conns : x # c => conn'[x] = conn[x]
  PROVE  Cardinality(Live' \ {current'}) <= Cardinality(ClosedOnes')
<1>1. Live' \ {current'} = Live /\ ClosedOnes' = ClosedOnes
  BY DEF Live, ClosedOnes
<1>2. Live \ {current} = Live
  BY RateAssumption DEF Live
<1> QED BY <1>1, <1>2 DEF LeakInv

LEMMA LeakInit == Init => LeakInv
<1> SUFFICES ASSUME Init PROVE LeakInv
  OBVIOUS
<1>1. Live \ {current} = {}
  BY DEF Init, Live, Unused
<1>2. Cardinality({}) = 0
  BY FS_EmptySet
<1> QED BY <1>1, <1>2, LiveFinite, InvInit DEF LeakInv

LEMMA LeakStep == LeakInv /\ [Next]_vars => LeakInv'
<1> SUFFICES ASSUME LeakInv, [Next]_vars
             PROVE  Cardinality(Live' \ {current'}) <= Cardinality(ClosedOnes')
  BY InvStep DEF LeakInv
<1>0. conn \in [Conns -> ConnRecord] /\ \A x \in Conns : Aligned(conn[x])
  BY TypeParts DEF IInv, LeakInv
<1>1. ASSUME NEW r \in Requests, Ask(r)
      PROVE  Cardinality(Live' \ {current'}) <= Cardinality(ClosedOnes')
  <2>1. CASE current # None
    <3> DEFINE n == IF conn[current].promise = "ready" THEN Commanded(conn[current], r)
                    ELSE Waiting(conn[current], r)
    <3>1. current \in Conns /\ current' = current /\ conn' = [conn EXCEPT ![current] = n]
      BY <1>1, <2>1, TypeParts DEF IInv, LeakInv, Ask
    <3>2. n.socket = conn[current].socket
      <4>1. conn[current] \in ConnRecord /\ Aligned(conn[current])
        BY <1>0, <3>1
      <4> QED BY <4>1, CommandedFacts, WaitingFacts
    <3> HIDE DEF n
    <3>3. \A x \in Conns : conn'[x].socket = conn[x].socket
      BY <1>0, <3>1, <3>2
    <3> QED BY <3>1, <3>3, SocketsStay
  <2>2. CASE current = None
    <3> DEFINE c == CHOOSE c \in Conns : conn[c] = Unused
    <3>1. c \in Conns /\ conn[c] = Unused
      BY <1>1, <2>2 DEF Ask
    <3>2. conn' = [conn EXCEPT ![c] = Opening(r)] /\ current' = c
      BY <1>1, <2>2 DEF Ask, Registered
    <3> HIDE DEF c
    <3>3. conn[c].socket = "unused"
      BY <3>1 DEF Unused
    <3>4. conn'[c].socket = "connecting" /\ \A x \in Conns : x # c => conn'[x] = conn[x]
      BY <1>0, <3>1, <3>2, OpeningFacts
    <3> QED BY <2>2, <3>1, <3>2, <3>3, <3>4, OneOpens
  <2> QED BY <2>1, <2>2
<1>2. ASSUME NEW c \in Conns, Connect(c)
      PROVE  Cardinality(Live' \ {current'}) <= Cardinality(ClosedOnes')
  <2> DEFINE n == Commanded([conn[c] EXCEPT !.socket = "open"], Auth)
  <2>1. conn' = [conn EXCEPT ![c] = n] /\ current' = current /\ conn[c].socket = "connecting"
    BY <1>2 DEF Connect
  <2>2. n.socket = "open"
    BY <1>0, <2>1, ConnectFacts
  <2> HIDE DEF n
  <2>3. \A x \in Conns : \/ conn'[x].socket = conn[x].socket
                         \/ conn[x].socket = "connecting" /\ conn'[x].socket = "open"
    BY <1>0, <2>1, <2>2
  <2> QED BY <2>1, <2>3, SocketsStay
<1>3. ASSUME NEW c \in Conns, Answer(c)
      PROVE  Cardinality(Live' \ {current'}) <= Cardinality(ClosedOnes')
  <2> DEFINE n == IF Shifted(conn[c].pending).who = Auth THEN LetIn(conn[c]) ELSE Taken(conn[c])
  <2>1. /\ conn' = [conn EXCEPT ![c] = n] /\ current' = current
        /\ conn[c].socket = "open" /\ conn[c].back # <<>> /\ Head(conn[c].back) # "error"
    BY <1>3, Zenon DEF Answer
  <2>2. n.socket = "open"
    BY <1>0, <2>1, AuthAnsweredFacts, AnsweredFacts DEF Shifted
  <2> HIDE DEF n
  <2>3. \A x \in Conns : conn'[x].socket = conn[x].socket
    BY <1>0, <2>1, <2>2
  <2> QED BY <2>1, <2>3, SocketsStay
<1>4. ASSUME NEW c \in Conns, AnswerError(c) \/ Error(c)
      PROVE  Cardinality(Live' \ {current'}) <= Cardinality(ClosedOnes')
  <2>1. /\ conn' = [conn EXCEPT ![c] = Dying(conn[c])] /\ current' \in {current, None}
        /\ conn[c].socket \in {"connecting", "open"}
    BY <1>4 DEF AnswerError, Error, Lose
  <2>2. Dying(conn[c]).socket = "dying"
    BY <1>0, DyingFacts
  <2>3. conn'[c].socket = "dying" /\ \A x \in Conns : x # c => conn'[x] = conn[x]
    BY <1>0, <2>1, <2>2
  <2> QED BY <2>1, <2>3, LiveDies
<1>5. ASSUME NEW c \in Conns, HangUp(c)
      PROVE  Cardinality(Live' \ {current'}) <= Cardinality(ClosedOnes')
  <2>1. /\ conn' = [conn EXCEPT ![c] = Ending(conn[c])] /\ current' = current
        /\ conn[c].socket \in {"connecting", "open"}
    BY <1>5 DEF HangUp
  <2>2. Ending(conn[c]).socket = "dying"
    BY <1>0, HangUpFacts
  <2>3. conn'[c].socket = "dying" /\ \A x \in Conns : x # c => conn'[x] = conn[x]
    BY <1>0, <2>1, <2>2
  <2> QED BY <2>1, <2>3, LiveDies
<1>6. ASSUME NEW c \in Conns, Close(c)
      PROVE  Cardinality(Live' \ {current'}) <= Cardinality(ClosedOnes')
  <2>1. conn' = [conn EXCEPT ![c] = Gone] /\ current' = None /\ conn[c].socket = "dying"
    BY <1>6 DEF Close, Lose
  <2>2. conn'[c].socket = "closed" /\ \A x \in Conns : x # c => conn'[x] = conn[x]
    BY <1>0, <2>1, GoneFacts
  <2> QED BY <2>1, <2>2, OneCloses
<1>7. ASSUME NEW c \in Conns, Serve(c)
      PROVE  Cardinality(Live' \ {current'}) <= Cardinality(ClosedOnes')
  <2>1. PICK ans \in Outcomes(Head(conn[c].sent)) : conn' = [conn EXCEPT ![c] = Served(conn[c], ans)]
    BY <1>7 DEF Serve
  <2>2. Served(conn[c], ans).socket = conn[c].socket
    BY <1>0 DEF Served, ConnRecord
  <2>3. \A x \in Conns : conn'[x].socket = conn[x].socket
    BY <1>0, <2>1, <2>2
  <2>4. current' = current
    BY <1>7 DEF Serve
  <2> QED BY <2>3, <2>4, SocketsStay
<1>8. ASSUME UNCHANGED <<conn, current>>
      PROVE  Cardinality(Live' \ {current'}) <= Cardinality(ClosedOnes')
  BY <1>8, SocketsStay
<1> QED BY <1>1, <1>2, <1>3, <1>4, <1>5, <1>6, <1>7, <1>8
        DEF Next, Moves, FallBack, Expire, MemoryExpires, vars

\* Connections do not pile up: besides the registered one, at most one is alive
\* for each that has closed (getRedisConnection, its close and error handlers).
THEOREM NoPileOfConnections == Spec => []OneLeftForEachLost
<1>1. LeakInv => OneLeftForEachLost
  BY AllButOne, LiveFinite DEF LeakInv, OneLeftForEachLost
<1> QED BY <1>1, LeakInit, LeakStep, PTL DEF Spec

----------------------------------------------------------------------------
(* Own answers: a request that asks is in one place only, and the answers on  *)
(* their way are what the commands they will be given to drew.                *)

In(x, s) == \E i \in 1..Len(s) : s[i] = x
Once(s)  == \A i, j \in 1..Len(s) : s[i] = s[j] => i = j

\* the connection holds the request: as a command without an answer, or waiting
Holds(k, r) == In(r, k.pending) \/ In(r, k.waiting)

Distinct(k) ==
  /\ Once(k.pending) /\ Once(k.waiting)
  /\ \A i \in 1..Len(k.pending), j \in 1..Len(k.waiting) : k.pending[i] # k.waiting[j]

Truthful(k, d) ==
  k.socket = "open" =>
    \A i \in 1..Len(k.back) : k.back[i] \in {"yes", "no"} => d[k.pending[i]] = k.back[i]

Own ==
  /\ \A c \in Conns : Distinct(conn[c]) /\ Truthful(conn[c], drawn)
  /\ \A c \in Conns, r \in Requests : Holds(conn[c], r) => req[r] = "asking"
  /\ \A c, d \in Conns, r \in Requests : Holds(conn[c], r) /\ Holds(conn[d], r) => c = d

OwnInv == IInv /\ Own

\* the parts of Own in the next state
LEMMA OwnNext ==
  ASSUME \A x \in Conns : Distinct(conn'[x]) /\ Truthful(conn'[x], drawn'),
         \A x \in Conns, r \in Requests : Holds(conn'[x], r) => req'[r] = "asking",
         \A x, y \in Conns, r \in Requests : Holds(conn'[x], r) /\ Holds(conn'[y], r) => x = y
  PROVE  Own'
  BY DEF Own, Distinct, Truthful, Holds, In, Once

\* whose answer a yes or a no is
LEMMA MatchesWhose ==
  ASSUME NEW p \in Seq(Commands), NEW s \in Seq(Commands), NEW b \in Seq(Answers),
         Matches(p, s, b), NEW i \in 1..Len(b)
  PROVE  /\ i \in 1..Len(p) /\ p[i] \in Commands
         /\ b[i] \in {"yes", "no"} => p[i] \in Requests
<1>1. Len(p) \in Nat /\ Len(s) \in Nat /\ Len(b) \in Nat
  BY LenProperties
<1>2. Len(p) = Len(b) + Len(s)
  BY DEF Matches
<1>3. i \in 1..Len(p)
  BY <1>1, <1>2
<1>4. p[i] \in Commands
  BY <1>3, ElementOfSeq
<1>5. b[i] \in {"yes", "no"} => p[i] # Auth
  BY DEF Matches
<1> QED BY <1>3, <1>4, <1>5, RequestIsCommand

LEMMA WhoseAnswer ==
  ASSUME NEW k \in ConnRecord, Aligned(k), k.socket = "open",
         NEW i \in 1..Len(k.back), k.back[i] \in {"yes", "no"}
  PROVE  k.pending[i] \in Requests /\ Holds(k, k.pending[i]) /\ i \in 1..Len(k.pending)
<1>1. i \in 1..Len(k.pending) /\ k.pending[i] \in Requests
  <2>1. Matches(k.pending, k.sent, k.back)
    BY DEF Aligned
  <2> QED BY <2>1, Fields, MatchesWhose
<1> QED BY <1>1 DEF Holds, In

\* no connection changes, and nobody who asks
LEMMA OwnElsewhere ==
  ASSUME OwnInv, conn' = conn,
         \A r \in Requests : req[r] = "asking" => req'[r] = "asking" /\ drawn'[r] = drawn[r]
  PROVE  Own'
<1>1. ASSUME NEW x \in Conns PROVE Truthful(conn[x], drawn')
  <2> SUFFICES ASSUME conn[x].socket = "open", NEW i \in 1..Len(conn[x].back),
                      conn[x].back[i] \in {"yes", "no"}
               PROVE  drawn'[conn[x].pending[i]] = conn[x].back[i]
    BY DEF Truthful
  <2>1. conn[x] \in ConnRecord /\ Aligned(conn[x])
    BY TypeParts DEF OwnInv, IInv
  <2>2. conn[x].pending[i] \in Requests /\ Holds(conn[x], conn[x].pending[i])
    BY <2>1, WhoseAnswer
  <2>3. drawn[conn[x].pending[i]] = conn[x].back[i] /\ req[conn[x].pending[i]] = "asking"
    BY <2>2 DEF OwnInv, Own, Truthful
  <2> QED BY <2>2, <2>3
<1>2. \A x \in Conns : Distinct(conn'[x]) /\ Truthful(conn'[x], drawn')
  BY <1>1 DEF OwnInv, Own
<1>3. \A x \in Conns, r \in Requests : Holds(conn'[x], r) => req'[r] = "asking"
  BY DEF OwnInv, Own
<1>4. \A x, y \in Conns, r \in Requests : Holds(conn'[x], r) /\ Holds(conn'[y], r) => x = y
  BY DEF OwnInv, Own
<1> QED BY <1>2, <1>3, <1>4, OwnNext

\* one connection changes: whoever it holds now it held, or did not ask yet
LEMMA OwnReplaced ==
  ASSUME OwnInv, NEW c \in Conns, NEW n, conn' = [conn EXCEPT ![c] = n],
         Distinct(n), Truthful(n, drawn'),
         \A r \in Requests : Holds(n, r) =>
           req'[r] = "asking" /\ (Holds(conn[c], r) \/ req[r] # "asking"),
         \A r \in Requests : req[r] = "asking" /\ ~Holds(conn[c], r) =>
           req'[r] = "asking" /\ drawn'[r] = drawn[r]
  PROVE  Own'
<1>0. conn \in [Conns -> ConnRecord] /\ \A x \in Conns : Aligned(conn[x])
  BY TypeParts DEF OwnInv, IInv
<1>1. conn'[c] = n /\ \A x \in Conns : x # c => conn'[x] = conn[x]
  BY <1>0
<1>2. \A x \in Conns, r \in Requests :
        x # c /\ Holds(conn[x], r) => req[r] = "asking" /\ ~Holds(conn[c], r)
  BY DEF OwnInv, Own
<1>3. ASSUME NEW x \in Conns, x # c PROVE Truthful(conn[x], drawn')
  <2> SUFFICES ASSUME conn[x].socket = "open", NEW i \in 1..Len(conn[x].back),
                      conn[x].back[i] \in {"yes", "no"}
               PROVE  drawn'[conn[x].pending[i]] = conn[x].back[i]
    BY DEF Truthful
  <2>1. conn[x] \in ConnRecord /\ Aligned(conn[x])
    BY <1>0
  <2>2. conn[x].pending[i] \in Requests /\ Holds(conn[x], conn[x].pending[i])
    BY <2>1, WhoseAnswer
  <2>3. drawn[conn[x].pending[i]] = conn[x].back[i]
    BY DEF OwnInv, Own, Truthful
  <2> QED BY <1>2, <1>3, <2>2, <2>3
<1>4. \A x \in Conns : Distinct(conn'[x]) /\ Truthful(conn'[x], drawn')
  BY <1>1, <1>3 DEF OwnInv, Own
<1>5. \A x \in Conns, r \in Requests : Holds(conn'[x], r) => req'[r] = "asking"
  BY <1>1, <1>2
<1>6. \A x, y \in Conns, r \in Requests : Holds(conn'[x], r) /\ Holds(conn'[y], r) => x = y
  <2> SUFFICES ASSUME NEW x \in Conns, NEW y \in Conns, NEW r \in Requests, x # y,
                      Holds(conn'[x], r), Holds(conn'[y], r)
               PROVE  FALSE
    OBVIOUS
  <2>1. CASE x = c
    BY <1>1, <1>2, <2>1
  <2>2. CASE y = c
    BY <1>1, <1>2, <2>2
  <2>3. CASE x # c /\ y # c
    BY <1>1, <2>3 DEF OwnInv, Own
  <2> QED BY <2>1, <2>2, <2>3
<1> QED BY <1>4, <1>5, <1>6, OwnNext

\* a request that is nowhere is added at the end
LEMMA OnceAppend ==
  ASSUME NEW S, NEW s \in Seq(S), NEW x \in S, Once(s), ~In(x, s)
  PROVE  /\ Once(Append(s, x))
         /\ \A y : In(y, Append(s, x)) => In(y, s) \/ y = x
         /\ \A i \in 1..Len(Append(s, x)) : i \in 1..Len(s) \/ Append(s, x)[i] = x
         /\ \A i \in 1..Len(s) : Append(s, x)[i] = s[i]
<1> DEFINE t == Append(s, x)
<1>1. /\ Len(t) = Len(s) + 1 /\ Len(s) \in Nat
      /\ \A i \in 1..Len(s) : t[i] = s[i]
      /\ t[Len(s) + 1] = x
  BY AppendProperties, LenProperties
<1> HIDE DEF t
<1>2. \A i \in 1..Len(t) : i \in 1..Len(s) \/ i = Len(s) + 1
  BY <1>1
<1>3. \A i \in 1..Len(s) : s[i] # x
  BY DEF In
<1>4. Once(t)
  BY <1>1, <1>2, <1>3 DEF Once
<1>5. \A y : In(y, t) => In(y, s) \/ y = x
  BY <1>1, <1>2 DEF In
<1> QED BY <1>1, <1>2, <1>4, <1>5 DEF t

\* the first is taken away
LEMMA OnceTail ==
  ASSUME NEW S, NEW s \in Seq(S), s # <<>>, Once(s)
  PROVE  /\ Once(Tail(s)) /\ In(Head(s), s) /\ ~In(Head(s), Tail(s))
         /\ \A y : In(y, Tail(s)) => In(y, s)
         /\ \A i \in 1..Len(Tail(s)) : Tail(s)[i] = s[i + 1] /\ i + 1 \in 1..Len(s)
<1> DEFINE t == Tail(s)
<1>1. Len(t) = Len(s) - 1 /\ \A i \in 1..Len(t) : t[i] = s[i + 1]
  BY HeadTailProperties
<1>2. Len(s) \in Nat \ {0} /\ Head(s) = s[1]
  BY LenProperties, EmptySeq
<1> HIDE DEF t
<1>3. \A i \in 1..Len(t) : i \in Nat /\ i + 1 \in 1..Len(s) /\ i + 1 # 1
  BY <1>1, <1>2
<1>4. ASSUME NEW i \in 1..Len(t), NEW j \in 1..Len(t), t[i] = t[j] PROVE i = j
  <2>1. i + 1 = j + 1
    BY <1>1, <1>3, <1>4 DEF Once
  <2> QED BY <1>3, <2>1
<1>5. 1 \in 1..Len(s)
  BY <1>2
<1>6. ~In(Head(s), t)
  BY <1>1, <1>2, <1>3, <1>5 DEF In, Once
<1>7. In(Head(s), s)
  BY <1>2, <1>5 DEF In
<1>8. \A y : In(y, t) => In(y, s)
  BY <1>1, <1>3 DEF In
<1> QED BY <1>1, <1>3, <1>4, <1>6, <1>7, <1>8 DEF t, Once

LEMMA EmptyHolds ==
  /\ Once(<<>>) /\ \A x : ~In(x, <<>>)
  BY Empty DEF Once, In

\* the same requests in the same order
LEMMA SameHolds ==
  ASSUME NEW k, NEW n, n.pending = k.pending, n.waiting = k.waiting
  PROVE  (Distinct(k) => Distinct(n)) /\ \A r : Holds(n, r) <=> Holds(k, r)
  BY DEF Distinct, Holds

\* nobody is left
LEMMA NobodyHeld ==
  ASSUME NEW n, n.pending = <<>>, n.waiting = <<>>, n.back = <<>>, NEW d
  PROVE  Distinct(n) /\ Truthful(n, d) /\ \A r : ~Holds(n, r)
  BY EmptyHolds, Empty DEF Distinct, Truthful, Holds

LEMMA HeldCommanded ==
  ASSUME NEW k \in ConnRecord, Aligned(k), Distinct(k), NEW d, Truthful(k, d),
         NEW r \in Requests, ~Holds(k, r)
  PROVE  LET n == Commanded(k, r)
         IN Distinct(n) /\ Truthful(n, d) /\ \A x \in Requests : Holds(n, x) => Holds(k, x) \/ x = r
<1> DEFINE P == Append(k.pending, r)
           n == Commanded(k, r)
<1>1. k.pending \in Seq(Commands) /\ r \in Commands /\ k.waiting \in Seq(Requests)
  BY Fields, RequestIsCommand
<1>2. /\ Once(P) /\ \A y : In(y, P) => In(y, k.pending) \/ y = r
      /\ \A i \in 1..Len(P) : i \in 1..Len(k.pending) \/ P[i] = r
      /\ \A i \in 1..Len(k.pending) : P[i] = k.pending[i]
  BY <1>1, OnceAppend DEF Distinct, Holds
<1>3. /\ n.pending = P /\ n.waiting = k.waiting /\ n.back = k.back /\ n.socket = k.socket
  BY DEF Commanded, ConnRecord
<1> HIDE DEF P, n
<1>4. \A i \in 1..Len(P), j \in 1..Len(k.waiting) : P[i] # k.waiting[j]
  BY <1>2 DEF Distinct, Holds, In
<1>5. Distinct(n)
  BY <1>2, <1>3, <1>4 DEF Distinct
<1>6. Truthful(n, d)
  <2> SUFFICES ASSUME k.socket = "open", NEW i \in 1..Len(k.back), k.back[i] \in {"yes", "no"}
               PROVE  d[P[i]] = k.back[i]
    BY <1>3 DEF Truthful
  <2>1. i \in 1..Len(k.pending)
    BY WhoseAnswer
  <2> QED BY <1>2, <2>1 DEF Truthful
<1>7. \A x \in Requests : Holds(n, x) => Holds(k, x) \/ x = r
  BY <1>2, <1>3 DEF Holds
<1> QED BY <1>5, <1>6, <1>7 DEF n

LEMMA HeldWaiting ==
  ASSUME NEW k \in ConnRecord, Distinct(k), NEW d, Truthful(k, d),
         NEW r \in Requests, ~Holds(k, r)
  PROVE  LET n == Waiting(k, r)
         IN Distinct(n) /\ Truthful(n, d) /\ \A x \in Requests : Holds(n, x) => Holds(k, x) \/ x = r
<1> DEFINE W == Append(k.waiting, r)
           n == Waiting(k, r)
<1>1. k.waiting \in Seq(Requests)
  BY Fields
<1>2. /\ Once(W) /\ \A y : In(y, W) => In(y, k.waiting) \/ y = r
      /\ \A i \in 1..Len(W) : i \in 1..Len(k.waiting) \/ W[i] = r
      /\ \A i \in 1..Len(k.waiting) : W[i] = k.waiting[i]
  BY <1>1, OnceAppend DEF Distinct, Holds
<1>3. /\ n.pending = k.pending /\ n.waiting = W /\ n.back = k.back /\ n.socket = k.socket
  BY DEF Waiting, ConnRecord
<1> HIDE DEF W, n
<1>4. \A i \in 1..Len(k.pending), j \in 1..Len(W) : k.pending[i] # W[j]
  BY <1>2 DEF Distinct, Holds, In
<1>5. Distinct(n)
  BY <1>2, <1>3, <1>4 DEF Distinct
<1>6. Truthful(n, d)
  BY <1>3 DEF Truthful
<1>7. \A x \in Requests : Holds(n, x) => Holds(k, x) \/ x = r
  BY <1>2, <1>3 DEF Holds
<1> QED BY <1>5, <1>6, <1>7 DEF n

LEMMA HeldOpening ==
  ASSUME NEW r \in Requests, NEW d
  PROVE  LET n == Opening(r)
         IN Distinct(n) /\ Truthful(n, d) /\ \A x \in Requests : Holds(n, x) => x = r
<1> DEFINE n == Opening(r)
<1>1. n.pending = <<>> /\ n.waiting = <<r>> /\ n.socket = "connecting"
  BY DEF Opening, Unused
<1>2. Len(<<r>>) = 1 /\ <<r>>[1] = r
  OBVIOUS
<1> HIDE DEF n
<1>3. \A i \in 1..1 : i = 1
  OBVIOUS
<1>4. Once(<<r>>) /\ \A x : In(x, <<r>>) => x = r
  BY <1>2, <1>3 DEF Once, In
<1>5. Distinct(n)
  BY <1>1, <1>4, EmptyHolds, Empty DEF Distinct
<1>6. Truthful(n, d)
  BY <1>1 DEF Truthful
<1> QED BY <1>1, <1>4, <1>5, <1>6, EmptyHolds DEF n, Holds

LEMMA HeldConnect ==
  ASSUME NEW k \in ConnRecord, Aligned(k), k.socket = "connecting", Distinct(k), NEW d
  PROVE  LET n == Commanded([k EXCEPT !.socket = "open"], Auth)
         IN Distinct(n) /\ Truthful(n, d) /\ \A x \in Requests : Holds(n, x) <=> Holds(k, x)
<1> DEFINE n == Commanded([k EXCEPT !.socket = "open"], Auth)
           q == <<Auth>>
<1>1. k.pending = <<>> /\ k.back = <<>> /\ k.waiting \in Seq(Requests)
  BY Fields DEF Aligned
<1>2. Append(<<>>, Auth) = q /\ Len(q) = 1 /\ q[1] = Auth
  OBVIOUS
<1>3. n.pending = q /\ n.waiting = k.waiting /\ n.back = <<>>
  BY <1>1, <1>2 DEF Commanded, ConnRecord
<1> HIDE DEF n, q
<1>4. Len(k.waiting) \in Nat /\ \A j \in 1..Len(k.waiting) : k.waiting[j] \in Requests
  BY <1>1, LenProperties, ElementOfSeq
<1>5. \A i \in 1..Len(q) : i = 1
  BY <1>2
<1>6. Distinct(n)
  BY <1>2, <1>3, <1>4, <1>5, RequestIsCommand DEF Distinct, Once
<1>7. Truthful(n, d)
  BY <1>3, Empty DEF Truthful
<1>8. \A x \in Requests : ~In(x, q)
  BY <1>2, <1>5, RequestIsCommand DEF In
<1>9. \A x \in Requests : Holds(n, x) <=> Holds(k, x)
  BY <1>1, <1>3, <1>8, EmptyHolds DEF Holds
<1> QED BY <1>6, <1>7, <1>9 DEF n

\* the answer is what its own command drew
LEMMA HeldServed ==
  ASSUME NEW k \in ConnRecord, Aligned(k), k.sent # <<>>, Distinct(k),
         NEW d \in [Requests -> {"nothing", "yes", "no"}], Truthful(k, d),
         NEW ans \in Answers, ans = "OK" => Head(k.sent) = Auth,
         ans \in {"yes", "no"} => Head(k.sent) # Auth,
         NEW e \in [Requests -> {"nothing", "yes", "no"}],
         k.socket = "open" /\ ans \in {"yes", "no"} => e[Head(k.sent)] = ans,
         \A r \in Requests : r # Head(k.sent) \/ ans \notin {"yes", "no"} => e[r] = d[r],
         NEW n, n = Served(k, ans)
  PROVE  /\ Distinct(n) /\ Truthful(n, e) /\ \A x \in Requests : Holds(n, x) <=> Holds(k, x)
         /\ k.socket = "open" /\ ans \in {"yes", "no"} =>
              Head(k.sent) \in Requests /\ Holds(k, Head(k.sent))
<1> DEFINE B == Append(k.back, ans)
<1>1. /\ n.pending = k.pending /\ n.waiting = k.waiting /\ n.socket = k.socket
      /\ k.socket = "open" => n.back = B
  BY DEF Served, ConnRecord
<1>2. /\ Len(B) = Len(k.back) + 1 /\ Len(k.back) \in Nat
      /\ \A i \in 1..Len(k.back) : B[i] = k.back[i]
      /\ B[Len(k.back) + 1] = ans
  BY Fields, AppendProperties, LenProperties
<1> HIDE DEF B
<1>3. ASSUME k.socket = "open"
      PROVE  /\ Head(k.sent) = k.pending[Len(k.back) + 1]
             /\ Len(k.back) + 1 \in 1..Len(k.pending)
             /\ Head(k.sent) \in Commands
  <2>1. Matches(k.pending, k.sent, k.back)
    BY <1>3 DEF Aligned
  <2>2. Head(k.sent) = k.pending[Len(k.back) + 1] /\ Len(k.back) + 1 \in 1..Len(k.pending)
    BY <2>1, Fields, MatchesServe
  <2> QED BY <2>2, Fields, ElementOfSeq
<1>4. k.socket = "open" /\ ans \in {"yes", "no"} =>
        Head(k.sent) \in Requests /\ Holds(k, Head(k.sent))
  BY <1>3, RequestIsCommand DEF Holds, In
<1>5. ASSUME k.socket = "open", NEW i \in 1..Len(B), B[i] \in {"yes", "no"}
      PROVE  e[k.pending[i]] = B[i]
  <2>1. CASE i = Len(k.back) + 1
    BY <1>2, <1>3, <1>5, <2>1
  <2>2. CASE i \in 1..Len(k.back)
    <3>1. k.back[i] = B[i]
      BY <1>2, <2>2
    <3>2. k.pending[i] \in Requests /\ i \in 1..Len(k.pending) /\ d[k.pending[i]] = k.back[i]
      BY <1>5, <2>2, <3>1, WhoseAnswer DEF Truthful
    <3>3. i # Len(k.back) + 1
      BY <1>2, <2>2
    <3>4. k.pending[i] # Head(k.sent)
      BY <1>3, <1>5, <3>2, <3>3 DEF Distinct, Once
    <3> QED BY <3>1, <3>2, <3>4
  <2> QED BY <1>2, <2>1, <2>2
<1>6. Truthful(n, e)
  BY <1>1, <1>5 DEF Truthful
<1> QED BY <1>1, <1>4, <1>6, SameHolds

\* no answer is on its way when Redis has not executed anything
LEMMA MatchesNone ==
  ASSUME NEW p \in Seq(Commands), NEW b \in Seq(Answers), Matches(p, p, b)
  PROVE  Len(b) = 0
<1>1. Len(p) \in Nat /\ Len(b) \in Nat
  BY LenProperties
<1>2. Len(p) = Len(b) + Len(p)
  BY DEF Matches
<1> QED BY <1>1, <1>2

\* whoever waited for AUTH is now a command
LEMMA HeldLetIn ==
  ASSUME NEW k \in ConnRecord, Aligned(k), k.socket = "open", k.back # <<>>,
         Head(k.pending) = Auth, Distinct(k), NEW d
  PROVE  LET n == LetIn(k)
         IN Distinct(n) /\ Truthful(n, d) /\ \A x \in Requests : Holds(n, x) => Holds(k, x)
<1> DEFINE n == LetIn(k)
<1>1. n \in ConnRecord /\ Aligned(n) /\ n.socket = "open"
  BY AuthAnsweredFacts
<1>2. n.pending = k.waiting /\ n.sent = k.waiting /\ n.waiting = <<>>
  BY DEF LetIn, ConnRecord
<1> HIDE DEF n
<1>3. Matches(n.pending, n.sent, n.back)
  BY <1>1 DEF Aligned
<1>4. Len(n.back) = 0
  BY <1>1, <1>2, <1>3, Fields, MatchesNone
<1>5. Truthful(n, d)
  BY <1>4 DEF Truthful
<1>6. Distinct(n)
  BY <1>2, EmptyHolds, Empty DEF Distinct
<1> QED BY <1>2, <1>5, <1>6, EmptyHolds DEF n, Holds

\* the first command has its answer, the one it drew
LEMMA HeldTaken ==
  ASSUME NEW k \in ConnRecord, Aligned(k), k.socket = "open", k.back # <<>>,
         Head(k.pending) # Auth, Head(k.back) # "error", Distinct(k), NEW d, Truthful(k, d)
  PROVE  LET n == Taken(k)
         IN /\ Distinct(n) /\ Truthful(n, d)
            /\ \A x \in Requests : Holds(n, x) => Holds(k, x) /\ x # Head(k.pending)
            /\ Holds(k, Head(k.pending)) /\ d[Head(k.pending)] = Head(k.back)
<1> DEFINE n == Taken(k)
           P == Tail(k.pending)
           B == Tail(k.back)
<1>1. n.pending = P /\ n.waiting = k.waiting /\ n.back = B /\ n.socket = "open"
  BY DEF Taken, Shifted, ConnRecord
<1>2. Matches(k.pending, k.sent, k.back)
  BY DEF Aligned
<1>3. /\ k.pending # <<>> /\ Head(k.pending) = k.pending[1] /\ Head(k.back) = k.back[1]
      /\ k.pending \in Seq(Commands) /\ k.back \in Seq(Answers)
  BY <1>2, Fields, MatchesAnswer
<1>4. /\ Once(P) /\ In(Head(k.pending), k.pending) /\ ~In(Head(k.pending), P)
      /\ \A y : In(y, P) => In(y, k.pending)
      /\ \A i \in 1..Len(P) : P[i] = k.pending[i + 1] /\ i + 1 \in 1..Len(k.pending)
  BY <1>3, OnceTail DEF Distinct
<1>5. /\ Len(B) = Len(k.back) - 1 /\ Len(k.back) \in Nat \ {0}
      /\ \A i \in 1..Len(B) : B[i] = k.back[i + 1]
  BY <1>3, HeadTailProperties, LenProperties, EmptySeq
<1>6. n \in ConnRecord /\ Aligned(n) /\ Head(k.back) \in {"yes", "no"}
  BY AnsweredFacts
<1> HIDE DEF n, P, B
<1>7. Distinct(n)
  BY <1>1, <1>4 DEF Distinct
<1>8. ASSUME NEW i \in 1..Len(B), B[i] \in {"yes", "no"}
      PROVE  d[P[i]] = B[i]
  <2>1. i + 1 \in 1..Len(k.back) /\ B[i] = k.back[i + 1]
    BY <1>5
  <2>2. d[k.pending[i + 1]] = k.back[i + 1]
    BY <1>8, <2>1 DEF Truthful
  <2>3. i \in 1..Len(P)
    BY <1>1, <1>6, <1>8, WhoseAnswer
  <2> QED BY <1>4, <2>1, <2>2, <2>3
<1>9. Truthful(n, d)
  BY <1>1, <1>8 DEF Truthful
<1>10. ~In(Head(k.pending), k.waiting) /\ Holds(k, Head(k.pending))
  BY <1>4 DEF Distinct, In, Holds
<1>11. \A x \in Requests : Holds(n, x) => Holds(k, x) /\ x # Head(k.pending)
  BY <1>1, <1>4, <1>10 DEF Holds
<1>12. d[Head(k.pending)] = Head(k.back)
  <2>1. 1 \in 1..Len(k.back)
    BY <1>5
  <2> QED BY <1>3, <1>6, <2>1 DEF Truthful
<1> QED BY <1>7, <1>9, <1>10, <1>11, <1>12 DEF n

\* whoever is left without an answer was held
LEMMA LeftHeld ==
  ASSUME NEW k \in ConnRecord, NEW r \in Requests, r \in LeftBy(k) \cup Elements(k.waiting)
  PROVE  Holds(k, r)
<1>1. DOMAIN k.pending = 1..Len(k.pending) /\ DOMAIN k.waiting = 1..Len(k.waiting)
  BY Fields, LenProperties
<1> QED BY <1>1 DEF LeftBy, Elements, Holds, In

LEMMA OwnInit == Init => OwnInv
<1> SUFFICES ASSUME Init PROVE Own
  BY InvInit DEF OwnInv
<1>1. \A c \in Conns : /\ conn[c].pending = <<>> /\ conn[c].waiting = <<>>
                       /\ conn[c].back = <<>>
  BY DEF Init, Unused
<1>2. \A c \in Conns : /\ Distinct(conn[c]) /\ Truthful(conn[c], drawn)
                       /\ \A r : ~Holds(conn[c], r)
  BY <1>1, NobodyHeld
<1> QED BY <1>2 DEF Own

LEMMA OwnAsk ==
  ASSUME OwnInv, NEW r \in Requests, Ask(r)
  PROVE  Own'
<1>0. conn \in [Conns -> ConnRecord] /\ \A x \in Conns : Aligned(conn[x])
  BY TypeParts DEF OwnInv, IInv
<1>1. /\ req[r] = "idle" /\ req'[r] = "asking" /\ drawn' = drawn
      /\ \A x \in Requests : x # r => req'[x] = req[x]
  BY TypeParts DEF OwnInv, IInv, Ask
<1>2. \A x \in Conns : /\ ~Holds(conn[x], r) /\ Distinct(conn[x]) /\ Truthful(conn[x], drawn')
                       /\ \A y \in Requests : Holds(conn[x], y) => req[y] = "asking"
  BY <1>1 DEF OwnInv, Own
<1>3. ASSUME NEW c \in Conns, NEW n, conn' = [conn EXCEPT ![c] = n],
             Distinct(n), Truthful(n, drawn'),
             \A y \in Requests : Holds(n, y) => Holds(conn[c], y) \/ y = r
      PROVE  Own'
  <2>1. \A y \in Requests : Holds(n, y) =>
          req'[y] = "asking" /\ (Holds(conn[c], y) \/ req[y] # "asking")
    BY <1>1, <1>2, <1>3
  <2>2. \A y \in Requests : req[y] = "asking" /\ ~Holds(conn[c], y) =>
          req'[y] = "asking" /\ drawn'[y] = drawn[y]
    BY <1>1
  <2> QED BY <1>3, <2>1, <2>2, OwnReplaced
<1>4. CASE current # None /\ conn[current].promise = "ready"
  <2>1. current \in Conns /\ conn' = [conn EXCEPT ![current] = Commanded(conn[current], r)]
    BY <1>0, <1>4, TypeParts DEF OwnInv, IInv, Ask
  <2>2. conn[current] \in ConnRecord /\ Aligned(conn[current])
    BY <1>0, <2>1
  <2>3. /\ Distinct(Commanded(conn[current], r)) /\ Truthful(Commanded(conn[current], r), drawn')
        /\ \A y \in Requests : Holds(Commanded(conn[current], r), y) =>
             Holds(conn[current], y) \/ y = r
    BY <1>2, <2>1, <2>2, HeldCommanded
  <2> QED BY <1>3, <2>1, <2>3
<1>5. CASE current # None /\ conn[current].promise # "ready"
  <2>1. current \in Conns /\ conn' = [conn EXCEPT ![current] = Waiting(conn[current], r)]
    BY <1>0, <1>5, TypeParts DEF OwnInv, IInv, Ask
  <2>2. conn[current] \in ConnRecord
    BY <1>0, <2>1
  <2>3. /\ Distinct(Waiting(conn[current], r)) /\ Truthful(Waiting(conn[current], r), drawn')
        /\ \A y \in Requests : Holds(Waiting(conn[current], r), y) =>
             Holds(conn[current], y) \/ y = r
    BY <1>2, <2>1, <2>2, HeldWaiting
  <2> QED BY <1>3, <2>1, <2>3
<1>6. CASE current = None
  <2> DEFINE c == CHOOSE c \in Conns : conn[c] = Unused
  <2>1. c \in Conns /\ conn' = [conn EXCEPT ![c] = Opening(r)]
    BY <1>6 DEF Ask
  <2> HIDE DEF c
  <2>2. /\ Distinct(Opening(r)) /\ Truthful(Opening(r), drawn')
        /\ \A y \in Requests : Holds(Opening(r), y) => y = r
    BY HeldOpening
  <2> QED BY <1>3, <2>1, <2>2
<1> QED BY <1>4, <1>5, <1>6

\* what Redis does with the command of one connection
LEMMA ServeOutcome ==
  ASSUME IInv, NEW c \in Conns, Serve(c)
  PROVE  \E ans \in Answers :
           LET cmd   == Head(conn[c].sent)
               gives == ans \in {"yes", "no"}
           IN /\ conn[c].sent # <<>>
              /\ ans = "OK" => cmd = Auth
              /\ gives => cmd # Auth /\ ans = Pass(count)
              /\ conn' = [conn EXCEPT ![c] = Served(conn[c], ans)]
              /\ count' = IF gives THEN count + 1 ELSE count
              /\ drawn' = IF gives /\ conn[c].socket = "open"
                          THEN [drawn EXCEPT ![cmd] = ans] ELSE drawn
              /\ UNCHANGED <<req, current, memory>>
<1>1. PICK ans \in Outcomes(Head(conn[c].sent)) :
        /\ conn' = [conn EXCEPT ![c] = Served(conn[c], ans)]
        /\ count' = IF ans \in {"yes", "no"} THEN count + 1 ELSE count
        /\ drawn' = IF ans \in {"yes", "no"} /\ conn[c].socket = "open"
                    THEN [drawn EXCEPT ![Head(conn[c].sent)] = ans] ELSE drawn
  BY DEF Serve
<1>2. /\ ans \in Answers /\ (ans = "OK" => Head(conn[c].sent) = Auth)
      /\ ans \in {"yes", "no"} => Head(conn[c].sent) # Auth /\ ans = Pass(count)
  BY <1>1, PassFacts DEF Answers, Outcomes
<1>3. conn[c].sent # <<>> /\ UNCHANGED <<req, current, memory>>
  BY DEF Serve
<1> QED BY <1>1, <1>2, <1>3

\* only a request that asks draws from Redis
LEMMA ServeOwn ==
  ASSUME OwnInv, NEW c \in Conns, NEW ans \in Answers, conn[c].sent # <<>>,
         ans = "OK" => Head(conn[c].sent) = Auth,
         ans \in {"yes", "no"} => Head(conn[c].sent) # Auth,
         conn' = [conn EXCEPT ![c] = Served(conn[c], ans)], req' = req,
         drawn' \in [Requests -> {"nothing", "yes", "no"}],
         \A r \in Requests :
           IF ans \in {"yes", "no"} /\ conn[c].socket = "open" /\ r = Head(conn[c].sent)
           THEN drawn'[r] = ans ELSE drawn'[r] = drawn[r]
  PROVE  /\ Own'
         /\ ans \in {"yes", "no"} /\ conn[c].socket = "open" =>
              Head(conn[c].sent) \in Requests /\ req[Head(conn[c].sent)] = "asking"
<1> DEFINE k == conn[c]
           n == Served(k, ans)
<1>0. /\ k \in ConnRecord /\ Aligned(k) /\ k.sent # <<>>
      /\ drawn \in [Requests -> {"nothing", "yes", "no"}]
      /\ Distinct(k) /\ Truthful(k, drawn)
      /\ \A x \in Requests : Holds(k, x) => req[x] = "asking"
  BY TypeParts DEF OwnInv, IInv, Own
<1>1. Head(k.sent) \in Commands
  BY <1>0, Fields, HeadTailProperties
<1>2. ans \in {"yes", "no"} => Head(k.sent) \in Requests
  BY <1>1, RequestIsCommand
<1>3. /\ k.socket = "open" /\ ans \in {"yes", "no"} => drawn'[Head(k.sent)] = ans
      /\ \A r \in Requests : r # Head(k.sent) \/ ans \notin {"yes", "no"} => drawn'[r] = drawn[r]
  BY <1>2
<1>4. n = Served(k, ans)
  OBVIOUS
<1> HIDE DEF n, k
<1>5. /\ Distinct(n) /\ Truthful(n, drawn')
      /\ \A x \in Requests : Holds(n, x) <=> Holds(k, x)
      /\ k.socket = "open" /\ ans \in {"yes", "no"} => Head(k.sent) \in Requests /\ Holds(k, Head(k.sent))
  <2>1. /\ ans = "OK" => Head(k.sent) = Auth
        /\ ans \in {"yes", "no"} => Head(k.sent) # Auth
    BY DEF k
  <2> QED BY <1>0, <1>3, <1>4, <2>1, HeldServed
<1>6. \A x \in Requests : Holds(n, x) => req'[x] = "asking" /\ (Holds(k, x) \/ req[x] # "asking")
  BY <1>0, <1>5
<1>7. \A x \in Requests : req[x] = "asking" /\ ~Holds(k, x) =>
        req'[x] = "asking" /\ drawn'[x] = drawn[x]
  BY <1>5 DEF k
<1>8. Own'
  BY <1>5, <1>6, <1>7, OwnReplaced DEF n, k
<1> QED BY <1>0, <1>5, <1>8 DEF k

LEMMA OwnServe ==
  ASSUME OwnInv, NEW c \in Conns, Serve(c)
  PROVE  Own'
<1>1. PICK ans \in Answers :
        LET cmd   == Head(conn[c].sent)
            gives == ans \in {"yes", "no"}
        IN /\ conn[c].sent # <<>>
           /\ ans = "OK" => cmd = Auth
           /\ gives => cmd # Auth /\ ans = Pass(count)
           /\ conn' = [conn EXCEPT ![c] = Served(conn[c], ans)]
           /\ count' = IF gives THEN count + 1 ELSE count
           /\ drawn' = IF gives /\ conn[c].socket = "open"
                       THEN [drawn EXCEPT ![cmd] = ans] ELSE drawn
           /\ UNCHANGED <<req, current, memory>>
  BY ServeOutcome DEF OwnInv
<1>2. drawn \in [Requests -> {"nothing", "yes", "no"}]
  BY TypeParts DEF OwnInv, IInv
<1>3. drawn' \in [Requests -> {"nothing", "yes", "no"}]
  BY <1>1, <1>2
<1>4. \A r \in Requests :
        IF ans \in {"yes", "no"} /\ conn[c].socket = "open" /\ r = Head(conn[c].sent)
        THEN drawn'[r] = ans ELSE drawn'[r] = drawn[r]
  BY <1>1, <1>2
<1> QED BY <1>1, <1>3, <1>4, ServeOwn

\* a request is told what it drew
LEMMA AnswerOwn ==
  ASSUME OwnInv, NEW c \in Conns, Answer(c)
  PROVE  /\ Own' /\ UNCHANGED <<current, count, memory, drawn>>
         /\ \/ req' = req
            \/ \E r \in Requests : /\ req[r] = "asking" /\ drawn[r] \in {"yes", "no"}
                                   /\ req' = [req EXCEPT ![r] = drawn[r]]
<1> DEFINE k == conn[c]
           h == Head(k.pending)
<1>0. /\ k \in ConnRecord /\ Aligned(k) /\ Distinct(k) /\ Truthful(k, drawn)
      /\ \A x \in Requests : Holds(k, x) => req[x] = "asking"
      /\ req \in [Requests -> {"idle", "asking", "failed", "yes", "no", "error"}]
  BY TypeParts DEF OwnInv, IInv, Own
<1>1. /\ k.socket = "open" /\ k.back # <<>> /\ Head(k.back) # "error"
      /\ UNCHANGED <<current, count, memory, drawn>> /\ Shifted(k.pending).who = h
      /\ conn' = [conn EXCEPT ![c] = IF h = Auth THEN LetIn(k) ELSE Taken(k)]
      /\ req' = IF h = Auth THEN req ELSE [req EXCEPT ![h] = Head(k.back)]
  BY Zenon DEF Answer, Shifted
<1> HIDE DEF k, h
<1>2. CASE h = Auth
  <2> DEFINE n == LetIn(k)
  <2>1. Distinct(n) /\ Truthful(n, drawn') /\ \A x \in Requests : Holds(n, x) => Holds(k, x)
    BY <1>0, <1>1, <1>2, HeldLetIn DEF h
  <2>2. conn' = [conn EXCEPT ![c] = n] /\ req' = req /\ drawn' = drawn
    BY <1>1, <1>2
  <2> HIDE DEF n
  <2>3. Own'
    BY <1>0, <2>1, <2>2, OwnReplaced DEF k
  <2> QED BY <1>1, <2>2, <2>3
<1>3. CASE h # Auth
  <2> DEFINE n == Taken(k)
  <2>1. /\ Distinct(n) /\ Truthful(n, drawn)
        /\ \A x \in Requests : Holds(n, x) => Holds(k, x) /\ x # h
        /\ Holds(k, h) /\ drawn[h] = Head(k.back)
    BY <1>0, <1>1, <1>3, HeldTaken DEF h
  <2>2. conn' = [conn EXCEPT ![c] = n] /\ req' = [req EXCEPT ![h] = Head(k.back)] /\ drawn' = drawn
    BY <1>1, <1>3
  <2>3. h \in Requests /\ Head(k.back) \in {"yes", "no"}
    BY <1>0, <1>1, <1>3, AnsweredFacts DEF h
  <2> HIDE DEF n
  <2>4. /\ \A x \in Requests : Holds(n, x) => req'[x] = "asking" /\ (Holds(k, x) \/ req[x] # "asking")
        /\ \A x \in Requests : req[x] = "asking" /\ ~Holds(k, x) =>
             req'[x] = "asking" /\ drawn'[x] = drawn[x]
    BY <1>0, <2>1, <2>2
  <2>5. Own'
    BY <2>1, <2>2, <2>4, OwnReplaced DEF k
  <2>6. req[h] = "asking" /\ drawn[h] \in {"yes", "no"} /\ req' = [req EXCEPT ![h] = drawn[h]]
    BY <1>0, <2>1, <2>2, <2>3
  <2> QED BY <1>1, <2>3, <2>5, <2>6
<1> QED BY <1>2, <1>3

\* a connection is lost with those it held
LEMMA LoseOwn ==
  ASSUME OwnInv, NEW c \in Conns, NEW n, NEW rs, Lose(c, n, rs),
         n.pending = <<>>, n.waiting = <<>>, n.back = <<>>,
         rs \subseteq LeftBy(conn[c]) \cup Elements(conn[c].waiting)
  PROVE  Own' /\ \A r \in Requests : req'[r] # req[r] => req[r] = "asking" /\ req'[r] = "failed"
<1>1. conn[c] \in ConnRecord /\ \A x \in Requests : Holds(conn[c], x) => req[x] = "asking"
  BY TypeParts DEF OwnInv, IInv, Own
<1>2. \A r \in Requests : r \in rs => Holds(conn[c], r)
  BY <1>1, LeftHeld
<1>3. /\ conn' = [conn EXCEPT ![c] = n] /\ drawn' = drawn
      /\ \A r \in Requests : req'[r] = IF r \in rs THEN "failed" ELSE req[r]
  BY DEF Lose
<1>4. Distinct(n) /\ Truthful(n, drawn') /\ \A r : ~Holds(n, r)
  BY NobodyHeld
<1>5. Own'
  BY <1>1, <1>2, <1>3, <1>4, OwnReplaced
<1> QED BY <1>1, <1>2, <1>3, <1>5

LEMMA LossOwn ==
  ASSUME OwnInv, NEW c \in Conns, AnswerError(c) \/ Error(c) \/ Close(c)
  PROVE  /\ Own' /\ UNCHANGED <<count, memory, drawn>>
         /\ \A r \in Requests : req'[r] # req[r] => req[r] = "asking" /\ req'[r] = "failed"
<1>0. conn[c] \in ConnRecord
  BY TypeParts DEF OwnInv, IInv
<1>1. CASE AnswerError(c) \/ Error(c)
  <2> DEFINE n == Dying(conn[c])
  <2>1. n.pending = <<>> /\ n.waiting = <<>> /\ n.back = <<>>
    BY <1>0 DEF Dying, ConnRecord
  <2> HIDE DEF n
  <2>2. PICK rs \in {LeftBy(conn[c]), Elements(conn[c].waiting)} : Lose(c, n, rs)
    BY <1>1 DEF AnswerError, Error, n
  <2> QED BY <2>1, <2>2, LoseOwn DEF Lose
<1>2. CASE Close(c)
  <2>1. Gone.pending = <<>> /\ Gone.waiting = <<>> /\ Gone.back = <<>>
    BY DEF Gone, Unused
  <2> QED BY <1>2, <2>1, LoseOwn DEF Close, Closed, Lose
<1> QED BY <1>1, <1>2

\* nothing is held differently, and nothing is on its way back to a dead socket
LEMMA ConnectOwn ==
  ASSUME OwnInv, NEW c \in Conns, Connect(c) \/ HangUp(c)
  PROVE  Own'
<1>0. /\ conn[c] \in ConnRecord /\ Aligned(conn[c]) /\ Distinct(conn[c]) /\ Truthful(conn[c], drawn)
      /\ \A x \in Requests : Holds(conn[c], x) => req[x] = "asking"
  BY TypeParts DEF OwnInv, IInv, Own
<1>1. CASE Connect(c)
  <2> DEFINE n == Commanded([conn[c] EXCEPT !.socket = "open"], Auth)
  <2>1. Distinct(n) /\ Truthful(n, drawn) /\ \A x \in Requests : Holds(n, x) <=> Holds(conn[c], x)
    BY <1>0, <1>1, HeldConnect DEF Connect
  <2>2. conn' = [conn EXCEPT ![c] = n] /\ UNCHANGED <<req, drawn>>
    BY <1>1 DEF Connect
  <2> HIDE DEF n
  <2> QED BY <1>0, <2>1, <2>2, OwnReplaced
<1>2. CASE HangUp(c)
  <2> DEFINE n == Ending(conn[c])
  <2>1. n.pending = conn[c].pending /\ n.waiting = conn[c].waiting /\ n.socket = "dying"
    BY <1>0 DEF Ending, ConnRecord
  <2>2. conn' = [conn EXCEPT ![c] = n] /\ UNCHANGED <<req, drawn>>
    BY <1>2 DEF HangUp
  <2> HIDE DEF n
  <2>3. Distinct(n) /\ Truthful(n, drawn') /\ \A x \in Requests : Holds(n, x) <=> Holds(conn[c], x)
    BY <1>0, <2>1, SameHolds DEF Truthful
  <2> QED BY <1>0, <2>2, <2>3, OwnReplaced
<1> QED BY <1>1, <1>2

LEMMA OwnStep == OwnInv /\ [Next]_vars => OwnInv'
<1> SUFFICES ASSUME OwnInv, [Next]_vars
             PROVE  Own'
  BY InvStep DEF OwnInv
<1>1. ASSUME NEW r \in Requests, Ask(r) PROVE Own'
  BY <1>1, OwnAsk
<1>2. ASSUME NEW r \in Requests, FallBack(r) PROVE Own'
  <2>1. conn' = conn /\ \A x \in Requests : req[x] = "asking" => req'[x] = "asking" /\ drawn'[x] = drawn[x]
    BY <1>2, TypeParts DEF OwnInv, IInv, FallBack
  <2> QED BY <2>1, OwnElsewhere
<1>3. ASSUME NEW c \in Conns, Moves(c) PROVE Own'
  BY <1>3, ConnectOwn, AnswerOwn, LossOwn DEF Moves
<1>4. ASSUME NEW c \in Conns, Serve(c) PROVE Own'
  BY <1>4, OwnServe
<1>5. ASSUME NEW c \in Conns, HangUp(c) PROVE Own'
  BY <1>5, ConnectOwn
<1>6. CASE Expire \/ MemoryExpires \/ UNCHANGED vars
  BY <1>6, OwnElsewhere DEF Expire, MemoryExpires, vars
<1> QED BY <1>1, <1>2, <1>3, <1>4, <1>5, <1>6 DEF Next

(* The windows: every step draws from one of them, tells a request what it    *)
(* drew, or shows nothing.                                                    *)

Told == [r \in Requests |-> IF req[r] \in {"yes", "no", "error"} THEN req[r] ELSE "nothing"]

Used == [w \in {"redis", "process"} |->
           IF w = "process" THEN memory ELSE IF count < Limit THEN count ELSE Limit]

\* a step that changes neither the counters nor what was told
LEMMA ShowsNothing ==
  ASSUME UNCHANGED <<count, memory, drawn>>,
         \A r \in Requests : \/ req'[r] = req[r]
                             \/ /\ req[r] \notin {"yes", "no", "error"}
                                /\ req'[r] \notin {"yes", "no", "error"}
  PROVE  UNCHANGED Window!vars
<1>1. Told' = Told /\ Used' = Used
  BY DEF Told, Used
<1> QED BY <1>1 DEF Window!vars, Told, Used

LEMMA UsedRedis ==
  ASSUME memory' = memory
  PROVE  Used' = [Used EXCEPT !["redis"] = IF count' < Limit THEN count' ELSE Limit]
  BY DEF Used

LEMMA DrawsRedis ==
  ASSUME NEW r \in Requests, Window!Wait(r, "redis")
  PROVE  Window!Next
<1>1. "redis" \in {"redis", "process"}
  OBVIOUS
<1> QED BY <1>1 DEF Window!Next

LEMMA ServeShows ==
  ASSUME OwnInv, NEW c \in Conns, Serve(c)
  PROVE  [Window!Next]_Window!vars
<1>1. PICK ans \in Answers :
        LET cmd   == Head(conn[c].sent)
            gives == ans \in {"yes", "no"}
        IN /\ conn[c].sent # <<>>
           /\ ans = "OK" => cmd = Auth
           /\ gives => cmd # Auth /\ ans = Pass(count)
           /\ conn' = [conn EXCEPT ![c] = Served(conn[c], ans)]
           /\ count' = IF gives THEN count + 1 ELSE count
           /\ drawn' = IF gives /\ conn[c].socket = "open"
                       THEN [drawn EXCEPT ![cmd] = ans] ELSE drawn
           /\ UNCHANGED <<req, current, memory>>
  BY ServeOutcome DEF OwnInv
<1> DEFINE cmd == Head(conn[c].sent)
<1>2. count \in Nat /\ Limit \in Nat /\ drawn \in [Requests -> {"nothing", "yes", "no"}]
  BY TypeParts, RateAssumption DEF OwnInv, IInv
<1>3. Told' = Told
  BY <1>1 DEF Told
<1>4. ans \in {"yes", "no"} /\ conn[c].socket = "open" =>
        cmd \in Requests /\ req[cmd] = "asking"
  <2>1. drawn' \in [Requests -> {"nothing", "yes", "no"}]
    BY <1>1, <1>2
  <2>2. \A r \in Requests :
          IF ans \in {"yes", "no"} /\ conn[c].socket = "open" /\ r = Head(conn[c].sent)
          THEN drawn'[r] = ans ELSE drawn'[r] = drawn[r]
    BY <1>1, <1>2
  <2> QED BY <1>1, <2>1, <2>2, ServeOwn
<1>5. CASE ans \notin {"yes", "no"}
  BY <1>1, <1>5, ShowsNothing
<1>6. CASE ans \in {"yes", "no"} /\ ~(count < Limit)
  <2>1. Used' = Used /\ ans = "no"
    BY <1>1, <1>2, <1>6 DEF Used, Pass
  <2>2. CASE conn[c].socket = "open"
    <3>1. cmd \in Requests /\ req[cmd] = "asking" /\ drawn' = [drawn EXCEPT ![cmd] = "no"]
      BY <1>1, <1>4, <1>6, <2>1, <2>2
    <3>2. PICK r \in Requests : req[r] = "asking" /\ drawn' = [drawn EXCEPT ![r] = "no"]
      BY <3>1
    <3>3. Told[r] = "nothing" /\ ~(Used["redis"] < Limit)
      BY <1>2, <1>6, <3>2 DEF Told, Used
    <3>4. Window!Wait(r, "redis")
      BY <1>3, <2>1, <3>2, <3>3 DEF Window!Wait, Window!Draw, Told, Used
    <3> QED BY <3>4, DrawsRedis
  <2>3. CASE conn[c].socket # "open"
    <3>1. drawn' = drawn
      BY <1>1, <2>3
    <3> QED BY <1>3, <2>1, <3>1 DEF Window!vars, Told, Used
  <2> QED BY <2>2, <2>3
<1>7. CASE ans \in {"yes", "no"} /\ count < Limit
  <2>1. Used' = [Used EXCEPT !["redis"] = @ + 1] /\ ans = "yes" /\ Used["redis"] < Limit
    <3>1. count' = count + 1 /\ ans = "yes" /\ memory' = memory
      BY <1>1, <1>7 DEF Pass
    <3>2. Used["redis"] = count
      BY <1>7 DEF Used
    <3>3. (IF count' < Limit THEN count' ELSE Limit) = count + 1
      BY <1>2, <1>7, <3>1
    <3> QED BY <1>7, <3>1, <3>2, <3>3, UsedRedis
  <2>2. CASE conn[c].socket = "open"
    <3>1. cmd \in Requests /\ req[cmd] = "asking" /\ drawn' = [drawn EXCEPT ![cmd] = "yes"]
      BY <1>1, <1>4, <1>7, <2>1, <2>2
    <3>2. PICK r \in Requests : req[r] = "asking" /\ drawn' = [drawn EXCEPT ![r] = "yes"]
      BY <3>1
    <3>3. Told[r] = "nothing"
      BY <3>2 DEF Told
    <3>4. Window!Wait(r, "redis")
      BY <1>3, <2>1, <3>2, <3>3 DEF Window!Wait, Window!Draw, Told, Used
    <3> QED BY <3>4, DrawsRedis
  <2>3. CASE conn[c].socket # "open"
    <3>1. drawn' = drawn
      BY <1>1, <2>3
    <3>2. Window!Waste("redis")
      BY <1>3, <2>1, <3>1 DEF Window!Waste, Told, Used
    <3> QED BY <3>2 DEF Window!Next
  <2> QED BY <2>2, <2>3
<1> QED BY <1>5, <1>6, <1>7

LEMMA AnswerShows ==
  ASSUME OwnInv, NEW c \in Conns, Answer(c)
  PROVE  [Window!Next]_Window!vars
<1>1. req \in [Requests -> {"idle", "asking", "failed", "yes", "no", "error"}]
  BY TypeParts DEF OwnInv, IInv
<1>2. UNCHANGED <<current, count, memory, drawn>>
  BY AnswerOwn
<1>3. CASE req' = req
  BY <1>2, <1>3, ShowsNothing
<1>4. ASSUME NEW r \in Requests, req[r] = "asking", drawn[r] \in {"yes", "no"},
             req' = [req EXCEPT ![r] = drawn[r]]
      PROVE  [Window!Next]_Window!vars
  <2>1. Told[r] = "nothing" /\ Told' = [Told EXCEPT ![r] = drawn[r]] /\ Used' = Used
    BY <1>1, <1>2, <1>4 DEF Told, Used
  <2>2. Window!Tell(r)
    BY <1>2, <2>1 DEF Window!Tell, Told, Used
  <2> QED BY <2>2 DEF Window!Next
<1> QED BY <1>3, <1>4, AnswerOwn

LEMMA FallBackShows ==
  ASSUME OwnInv, NEW r \in Requests, FallBack(r)
  PROVE  [Window!Next]_Window!vars
<1>1. /\ req \in [Requests -> {"idle", "asking", "failed", "yes", "no", "error"}]
      /\ drawn \in [Requests -> {"nothing", "yes", "no"}]
      /\ memory \in Nat /\ Limit \in Nat
  BY TypeParts, RateAssumption DEF OwnInv, IInv
<1>2. req[r] = "failed" /\ UNCHANGED <<current, conn, count>>
  BY DEF FallBack
<1>3. Told[r] = "nothing" /\ Used["process"] = memory
  BY <1>2 DEF Told, Used
<1>4. CASE r \in Strict
  <2>1. Told' = [Told EXCEPT ![r] = "error"] /\ Used' = Used /\ drawn' = drawn
    BY <1>1, <1>2, <1>4 DEF FallBack, Told, Used
  <2>2. Window!GiveUp(r)
    BY <1>3, <2>1 DEF Window!GiveUp, Told, Used
  <2> QED BY <2>2 DEF Window!Next
<1>5. CASE r \notin Strict
  <2>1. /\ req' = [req EXCEPT ![r] = Pass(memory)]
        /\ drawn' = [drawn EXCEPT ![r] = Pass(memory)]
        /\ memory' = IF memory < Limit THEN memory + 1 ELSE memory
    BY <1>5 DEF FallBack
  <2>2. drawn'[r] = Pass(memory) /\ Pass(memory) \in {"yes", "no"}
    BY <1>1, <2>1, PassFacts
  <2>3. Told' = [Told EXCEPT ![r] = drawn'[r]]
    BY <1>1, <2>1, <2>2 DEF Told
  <2>4. CASE memory < Limit
    <3>1. Used' = [Used EXCEPT !["process"] = @ + 1] /\ drawn' = [drawn EXCEPT ![r] = "yes"]
      BY <1>1, <1>2, <2>1, <2>4 DEF Used, Pass
    <3>2. Window!Draw(r, "process")
      BY <1>3, <2>4, <3>1 DEF Window!Draw, Told, Used
    <3>3. Window!DrawAndTell(r, "process")
      BY <2>3, <3>2 DEF Window!DrawAndTell, Told
    <3> QED BY <3>3 DEF Window!Next
  <2>5. CASE ~(memory < Limit)
    <3>1. Used' = Used /\ drawn' = [drawn EXCEPT ![r] = "no"]
      BY <1>1, <1>2, <2>1, <2>5 DEF Used, Pass
    <3>2. Window!Draw(r, "process")
      BY <1>3, <2>5, <3>1 DEF Window!Draw, Told, Used
    <3>3. Window!DrawAndTell(r, "process")
      BY <2>3, <3>2 DEF Window!DrawAndTell, Told
    <3> QED BY <3>3 DEF Window!Next
  <2> QED BY <2>4, <2>5
<1> QED BY <1>4, <1>5

LEMMA ExpiryShows ==
  ASSUME OwnInv, Expire \/ MemoryExpires
  PROVE  [Window!Next]_Window!vars
<1>1. Limit \in Nat \ {0}
  BY RateAssumption
<1>2. CASE Expire
  <2>1. Told' = Told /\ Used' = [Used EXCEPT !["redis"] = 0] /\ drawn' = drawn
    <3>1. count' = 0 /\ 0 < Limit /\ memory' = memory
      BY <1>1, <1>2 DEF Expire
    <3>2. Used' = [Used EXCEPT !["redis"] = 0]
      BY <3>1, UsedRedis
    <3> QED BY <1>2, <3>2 DEF Expire, Told
  <2>2. Window!StartOver("redis")
    BY <2>1 DEF Window!StartOver, Told, Used
  <2> QED BY <2>2 DEF Window!Next
<1>3. CASE MemoryExpires
  <2>1. Told' = Told /\ Used' = [Used EXCEPT !["process"] = 0] /\ drawn' = drawn
    BY <1>3 DEF MemoryExpires, Told, Used
  <2>2. Window!StartOver("process")
    BY <2>1 DEF Window!StartOver, Told, Used
  <2> QED BY <2>2 DEF Window!Next
<1> QED BY <1>2, <1>3

LEMMA WindowStep == OwnInv /\ [Next]_vars => [Window!Next]_Window!vars
<1> SUFFICES ASSUME OwnInv, [Next]_vars
             PROVE  [Window!Next]_Window!vars
  OBVIOUS
<1>1. ASSUME NEW r \in Requests, Ask(r) PROVE [Window!Next]_Window!vars
  <2>1. req' = [req EXCEPT ![r] = "asking"] /\ req[r] = "idle" /\ UNCHANGED <<count, memory, drawn>>
    BY <1>1 DEF Ask
  <2>2. \A x \in Requests : \/ req'[x] = req[x]
                            \/ /\ req[x] \notin {"yes", "no", "error"}
                               /\ req'[x] \notin {"yes", "no", "error"}
    BY <2>1, TypeParts DEF OwnInv, IInv
  <2> QED BY <2>1, <2>2, ShowsNothing
<1>2. ASSUME NEW r \in Requests, FallBack(r) PROVE [Window!Next]_Window!vars
  BY <1>2, FallBackShows
<1>3. ASSUME NEW c \in Conns, Answer(c) PROVE [Window!Next]_Window!vars
  BY <1>3, AnswerShows
<1>4. ASSUME NEW c \in Conns, AnswerError(c) \/ Error(c) \/ Close(c)
      PROVE  [Window!Next]_Window!vars
  <2>1. /\ UNCHANGED <<count, memory, drawn>>
        /\ \A r \in Requests : req'[r] # req[r] => req[r] = "asking" /\ req'[r] = "failed"
    BY <1>4, LossOwn
  <2> QED BY <2>1, ShowsNothing
<1>5. ASSUME NEW c \in Conns, Connect(c) \/ HangUp(c) PROVE [Window!Next]_Window!vars
  BY <1>5, ShowsNothing DEF Connect, HangUp
<1>6. ASSUME NEW c \in Conns, Serve(c) PROVE [Window!Next]_Window!vars
  BY <1>6, ServeShows
<1>7. CASE Expire \/ MemoryExpires
  BY <1>7, ExpiryShows
<1>8. CASE UNCHANGED vars
  BY <1>8, ShowsNothing DEF vars
<1> QED BY <1>1, <1>2, <1>3, <1>4, <1>5, <1>6, <1>7, <1>8 DEF Next, Moves

LEMMA WindowInit == Init => Window!Init
<1> SUFFICES ASSUME Init PROVE Window!Init
  OBVIOUS
<1>1. 0 < Limit
  BY RateAssumption
<1>2. Told = [r \in Requests |-> "nothing"] /\ Used = [w \in {"redis", "process"} |-> 0]
  BY <1>1 DEF Init, Told, Used
<1>3. drawn = [r \in Requests |-> "nothing"]
  BY DEF Init
<1> QED BY <1>2, <1>3 DEF Window!Init, Told, Used

\* Every request is told what its own command drew from Redis, or its own draw
\* from the process, or an error, and each window lets Limit requests pass: the
\* limiter implements two fixed windows, whatever answers, errors and lost
\* connections are on the way (consumeRateLimit, sendRedisCommand and the data,
\* error and close handlers of connectRedisConnection).
THEOREM TellsWhatWasDrawn == Spec => OwnAnswer
<1>1. OwnInv /\ [Next]_vars => [Window!Next]_Window!vars
  BY WindowStep
<1> QED BY <1>1, OwnInit, OwnStep, WindowInit, PTL DEF Spec, OwnAnswer, Window!Spec
============================================================================
