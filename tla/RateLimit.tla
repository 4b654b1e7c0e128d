----------------------------- MODULE RateLimit -----------------------------
(***************************************************************************)
(* The rate limiter of one server process for one key, with Redis behind   *)
(* it: apps/web/lib/rate-limit.ts and public-token-rate-limit.ts.          *)
(*                                                                         *)
(* All requests share one connection, kept under its address as a promise; *)
(* answers are matched to commands by their order.  A callback of the      *)
(* socket runs, with the continuations it resolves, in one step, as the    *)
(* event loop does it; fall backs are steps of their own.  The address     *)
(* has a password and no database number, so that a connection opens with  *)
(* AUTH.  Redis executes commands in the order of each connection.         *)
(***************************************************************************)
EXTENDS Naturals, Sequences, FiniteSets

CONSTANTS
  Requests,  \* to be limited
  Strict,    \* those that fail when Redis fails: failing closed, and not public
  Conns,     \* connections, as many as may be opened
  Limit,
  Auth,      \* the command that opens a connection
  None

ASSUME RateAssumption ==
  /\ Strict \subseteq Requests
  /\ Auth \notin Requests
  /\ None \notin Conns
  /\ IsFiniteSet(Conns)
  /\ Limit \in Nat \ {0}

VARIABLES
  req,      \* the requests: idle, asking, failed, or what they were told
  current,  \* the connection the address stands for
  conn,     \* the connections
  count,    \* the counter in Redis
  memory,   \* the counter of the process
  drawn     \* history: the last that a counter gave out for each request

vars == <<req, current, conn, count, memory, drawn>>

(* A connection: its socket, its promise, the requests that await the       *)
(* promise, the commands without an answer (pending), the commands and the  *)
(* answers on their way.                                                    *)
Unused == [socket |-> "unused", promise |-> "new", waiting |-> <<>>,
           pending |-> <<>>, sent |-> <<>>, back |-> <<>>]

Elements(s) == {s[i] : i \in DOMAIN s}

Init ==
  /\ req = [r \in Requests |-> "idle"]
  /\ current = None
  /\ conn = [c \in Conns |-> Unused]
  /\ count = 0 /\ memory = 0
  /\ drawn = [r \in Requests |-> "nothing"]

----------------------------------------------------------------------------
(* Asking *)

\* command: what is written to a dead socket is lost
Commanded(k, cmd) ==
  [k EXCEPT !.pending = Append(@, cmd),
            !.sent = IF k.socket = "open" THEN Append(@, cmd) ELSE @]

Waiting(k, r) == [k EXCEPT !.waiting = Append(@, r)]
Opening(r)    == [Unused EXCEPT !.socket = "connecting", !.waiting = <<r>>]

Registered_WhenReady(c) == current

\* getRedisConnection remembers the promise, not the finished connection
Registered(c) == c

Ask(r) ==
  /\ req[r] = "idle"
  /\ req' = [req EXCEPT ![r] = "asking"]
  /\ \/ /\ current # None
        /\ conn' = [conn EXCEPT ![current] =
                      IF @.promise = "ready" THEN Commanded(@, r) ELSE Waiting(@, r)]
        /\ UNCHANGED current
     \/ /\ current = None
        /\ \E c \in Conns : conn[c] = Unused
        /\ LET c == CHOOSE c \in Conns : conn[c] = Unused
           IN /\ conn' = [conn EXCEPT ![c] = Opening(r)]
              /\ current' = Registered(c)
  /\ UNCHANGED <<count, memory, drawn>>

Connect(c) ==
  /\ conn[c].socket = "connecting"
  /\ conn' = [conn EXCEPT ![c] = Commanded([@ EXCEPT !.socket = "open"], Auth)]
  /\ UNCHANGED <<req, current, count, memory, drawn>>

----------------------------------------------------------------------------
(* Redis *)

Pass(n) == IF n < Limit THEN "yes" ELSE "no"

Outcomes(cmd) == {"error", IF cmd = Auth THEN "OK" ELSE Pass(count)}

\* an answer reaches an open socket only
Served(k, ans) ==
  [k EXCEPT !.sent = Tail(@),
            !.back = IF k.socket = "open" THEN Append(@, ans) ELSE @]

\* the script counts a request
Serve(c) ==
  /\ conn[c].sent # <<>>
  /\ LET cmd == Head(conn[c].sent)
     IN \E ans \in Outcomes(cmd) :
          /\ conn' = [conn EXCEPT ![c] = Served(@, ans)]
          /\ count' = IF ans \in {"yes", "no"} THEN count + 1 ELSE count
          /\ drawn' = IF ans \in {"yes", "no"} /\ conn[c].socket = "open"
                      THEN [drawn EXCEPT ![cmd] = ans] ELSE drawn
  /\ UNCHANGED <<req, current, memory>>

Expire ==
  /\ count > 0
  /\ count' = 0
  /\ UNCHANGED <<req, current, conn, memory, drawn>>

----------------------------------------------------------------------------
(* What comes back *)

\* whoever a set of rejected commands leaves without an answer: a rejected AUTH
\* rejects the promise, and so all who await it
LeftBy(k) ==
  (Elements(k.pending) \ {Auth})
    \cup (IF Auth \in Elements(k.pending) THEN Elements(k.waiting) ELSE {})

Dying(k) ==
  [k EXCEPT !.socket = "dying", !.pending = <<>>, !.waiting = <<>>, !.back = <<>>,
            !.promise = IF @ = "ready" THEN @ ELSE "rejected"]

Ending(k) == [k EXCEPT !.socket = "dying", !.back = <<>>]

\* nobody looks at it any more, and what Redis has not executed, it never does
Gone == [Unused EXCEPT !.socket = "closed", !.promise = "rejected"]

\* rejectPending
Lose(c, k, rs) ==
  /\ conn' = [conn EXCEPT ![c] = k]
  /\ req' = [r \in Requests |-> IF r \in rs THEN "failed" ELSE req[r]]
  /\ UNCHANGED <<count, memory, drawn>>

Shifted_Last(p) == [who |-> p[Len(p)], rest |-> SubSeq(p, 1, Len(p) - 1)]

\* whose answer the next one is, and who goes on waiting
Shifted(p) == [who |-> Head(p), rest |-> Tail(p)]

\* the continuation of AUTH lets all who wait write
LetIn(k) == [k EXCEPT !.promise = "ready", !.back = Tail(@), !.waiting = <<>>,
                      !.pending = k.waiting, !.sent = k.waiting]

Taken(k) == [k EXCEPT !.back = Tail(@), !.pending = Shifted(@).rest]

\* data with an answer
Answer(c) ==
  LET k == conn[c]
      who == Shifted(k.pending).who
  IN /\ k.socket = "open" /\ k.back # <<>> /\ Head(k.back) # "error"
     /\ conn' = [conn EXCEPT ![c] = IF who = Auth THEN LetIn(k) ELSE Taken(k)]
     /\ req' = IF who = Auth THEN req ELSE [req EXCEPT ![who] = Head(k.back)]
     /\ UNCHANGED <<current, count, memory, drawn>>

\* data with an error reply: the socket is destroyed; the promise of a connection
\* that was not ready yet leaves the map as it is rejected
AnswerError(c) ==
  /\ conn[c].socket = "open" /\ conn[c].back # <<>> /\ Head(conn[c].back) = "error"
  /\ Lose(c, Dying(conn[c]), LeftBy(conn[c]))
  /\ current' = IF conn[c].promise = "ready" THEN current ELSE None

\* error: forgets whichever connection has the address
Error(c) ==
  /\ conn[c].socket \in {"connecting", "open"}
  /\ Lose(c, Dying(conn[c]),
             IF conn[c].promise = "ready" THEN LeftBy(conn[c]) ELSE Elements(conn[c].waiting))
  /\ current' = None

\* the other side ends the connection: nothing runs before the close
HangUp(c) ==
  /\ conn[c].socket = "open"
  /\ conn' = [conn EXCEPT ![c] = Ending(@)]
  /\ UNCHANGED <<req, current, count, memory, drawn>>

Closed_Silent(k) == {}

\* who is rejected when the socket has closed
Closed(k) == LeftBy(k)

Close(c) ==
  /\ conn[c].socket = "dying"
  /\ Lose(c, Gone, Closed(conn[c]))
  /\ current' = None

----------------------------------------------------------------------------
(* Falling back: consumeMemoryRateLimit counts passes only *)

FallBack(r) ==
  /\ req[r] = "failed"
  /\ IF r \in Strict
     THEN /\ req' = [req EXCEPT ![r] = "error"]
          /\ UNCHANGED <<memory, drawn>>
     ELSE /\ req' = [req EXCEPT ![r] = Pass(memory)]
          /\ drawn' = [drawn EXCEPT ![r] = Pass(memory)]
          /\ memory' = IF memory < Limit THEN memory + 1 ELSE memory
  /\ UNCHANGED <<current, conn, count>>

MemoryExpires ==
  /\ memory > 0
  /\ memory' = 0
  /\ UNCHANGED <<req, current, conn, count, drawn>>

----------------------------------------------------------------------------
Moves(c) ==
  Connect(c) \/ Answer(c) \/ AnswerError(c) \/ Error(c) \/ Close(c)

Next ==
  \/ \E r \in Requests : Ask(r) \/ FallBack(r)
  \/ \E c \in Conns : Moves(c) \/ Serve(c) \/ HangUp(c)
  \/ Expire \/ MemoryExpires

\* a socket connects or fails, what arrived is read, a dead socket closes, Redis
\* answers a live connection or the connection breaks
Fairness ==
  /\ \A c \in Conns : WF_vars(Moves(c)) /\ WF_vars(Serve(c))
  /\ \A r \in Requests : WF_vars(FallBack(r))

Spec == Init /\ [][Next]_vars /\ Fairness

----------------------------------------------------------------------------
(* Properties *)

TypeOK ==
  /\ req \in [Requests -> {"idle", "asking", "failed", "yes", "no", "error"}]
  /\ current \in Conns \cup {None}
  /\ conn \in [Conns -> [socket : {"unused", "connecting", "open", "dying", "closed"},
                         promise : {"new", "ready", "rejected"},
                         waiting : Seq(Requests),
                         pending : Seq(Requests \cup {Auth}),
                         sent : Seq(Requests \cup {Auth}),
                         back : Seq({"OK", "yes", "no", "error"})]]
  /\ count \in Nat
  /\ memory \in 0..Limit
  /\ drawn \in [Requests -> {"nothing", "yes", "no"}]

\* Each request is told what its own command drew, whatever other answers,
\* errors and lost connections are on the way; a window of Redis and one of the
\* process let Limit requests pass each (consumeRateLimit).
Window == INSTANCE FixedWindow WITH
  Windows <- {"redis", "process"},
  used <- [w \in {"redis", "process"} |->
             IF w = "process" THEN memory ELSE IF count < Limit THEN count ELSE Limit],
  drawn <- drawn,
  told <- [r \in Requests |-> IF req[r] \in {"yes", "no", "error"} THEN req[r] ELSE "nothing"]

OwnAnswer == Window!Spec

\* A connection is opened beside a live one only where another was lost: a late
\* close or error forgets a newer connection, but at most one for each that has
\* closed, and requests that arrive while one is opening share it
\* (getRedisConnection).
Live       == {c \in Conns : conn[c].socket \in {"connecting", "open"}}
ClosedOnes == {c \in Conns : conn[c].socket = "closed"}

OneLeftForEachLost == Cardinality(Live) <= 1 + Cardinality(ClosedOnes)

\* Whoever asks gets an answer or an error, also when the connection dies between
\* a command and its answer or under a command just written.
Answered == \A r \in Requests : req[r] = "asking" ~> req[r] \in {"yes", "no", "error"}
============================================================================
