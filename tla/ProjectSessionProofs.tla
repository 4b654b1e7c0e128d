----------------------- MODULE ProjectSessionProofs -----------------------
(* Theorems about ProjectSession, for any packet, any recipients and any    *)
(* number of requests that overlap or die.                                  *)
EXTENDS ProjectSession, TLAPS

-----------------------------------------------------------------------------
(* Types.                                                                   *)

LEMMA InitTypeOK == Init => TypeOK
<1> SUFFICES ASSUME Init PROVE TypeOK
  OBVIOUS
<1>1. recipient \in [Signers -> Recipient]
  BY DEF Init, Recipient
<1>2. doc \in [Docs -> Document]
  BY DEF Init, Document
<1>3. session \in Session
  BY DEF Init, Session
<1>4. slot \in [Slots -> Request]
  BY DEF Init, Idle, Request
<1>5. count \in Counts
  BY DEF Init, Counts
<1> QED
  BY <1>1, <1>2, <1>3, <1>4, <1>5 DEF Init, TypeOK

LEMMA GotoType ==
  ASSUME TypeOK, NEW s \in Slots,
         NEW at \in {"idle", "link", "exit", "turn", "act", "read", "next", "count",
                     "request", "document", "enqueue"},
         Goto(s, at)
  PROVE  slot' \in [Slots -> Request]
BY DEF Goto, TypeOK, Request

LEMMA ReturnType ==
  ASSUME TypeOK, NEW s \in Slots, Return(s)
  PROVE  slot' \in [Slots -> Request]
<1>1. Idle \in Request
  BY DEF Idle, Request
<1> QED
  BY <1>1 DEF Return, TypeOK

LEMMA CountType ==
  ASSUME TypeOK
  PROVE  /\ [count EXCEPT !.sends = count.sends + 1] \in Counts
         /\ [count EXCEPT !.handoffs = count.handoffs + 1] \in Counts
         /\ [count EXCEPT !.submits = count.submits + 1] \in Counts
         /\ [count EXCEPT !.crashes = count.crashes + 1] \in Counts
BY DEF TypeOK, Counts

LEMMA AgentType ==
  ASSUME TypeOK, NEW s \in Slots,
         \/ SendLinks(s) \/ Sent(s) \/ AskExit(s) \/ Exit(s)
         \/ \E r \in Signers : Link(s, r)
  PROVE  TypeOK'
<1>1. CASE SendLinks(s)
  <2>1. [Idle EXCEPT !.at = "link", !.todo = Signers] \in Request
    BY DEF Idle, Request
  <2>2. slot' \in [Slots -> Request]
    BY <1>1, <2>1 DEF SendLinks, TypeOK
  <2> QED
    BY <1>1, <2>2, CountType DEF SendLinks, TypeOK, Parts
<1>2. CASE Sent(s)
  <2>1. session' \in Session
    BY <1>2 DEF Sent, TypeOK, Session
  <2> QED
    BY <1>2, <2>1, ReturnType DEF Sent, TypeOK, Parts
<1>3. CASE AskExit(s)
  <2>1. [Idle EXCEPT !.at = "exit"] \in Request
    BY DEF Idle, Request
  <2>2. slot' \in [Slots -> Request]
    BY <1>3, <2>1 DEF AskExit, TypeOK
  <2> QED
    BY <1>3, <2>2 DEF AskExit, TypeOK, Parts
<1>4. CASE Exit(s)
  <2>1. session' \in Session
    BY <1>4 DEF Exit, TypeOK, Session
  <2> QED
    BY <1>4, <2>1, ReturnType DEF Exit, TypeOK, Parts
<1>5. ASSUME NEW r \in Signers, Link(s, r) PROVE TypeOK'
  <2>1. slot' \in [Slots -> Request]
    BY <1>5 DEF Link, TypeOK, Request
  <2>2. recipient' \in [Signers -> Recipient]
    BY <1>5 DEF Link, TypeOK, Recipient
  <2> QED
    BY <1>5, <2>1, <2>2 DEF Link, TypeOK, Parts
<1> QED
  BY <1>1, <1>2, <1>3, <1>4, <1>5

LEMMA SignType ==
  ASSUME TypeOK, NEW s \in Slots, NEW r \in Signers,
         \/ Submit(s, r) \/ Turn(s, r) \/ SubmitHandoff(s, r) \/ Act(s, r) \/ Read(s, r)
         \/ \E d \in Docs : \E i \in PartsOf(r, d) : Mark(s, r, d, i)
  PROVE  TypeOK'
<1>1. CASE Submit(s, r)
  <2>1. [Idle EXCEPT !.at = "turn", !.who = {r}] \in Request
    BY DEF Idle, Request
  <2>2. slot' \in [Slots -> Request]
    BY <1>1, <2>1 DEF Submit, TypeOK
  <2> QED
    BY <1>1, <2>2, CountType DEF Submit, CountSubmit, TypeOK, Parts
<1>2. CASE Turn(s, r)
  <2>1. slot' \in [Slots -> Request]
    BY <1>2, GotoType, ReturnType DEF Turn
  <2> QED
    BY <1>2, <2>1 DEF Turn, TypeOK, Parts
<1>3. CASE SubmitHandoff(s, r)
  <2>1. [Idle EXCEPT !.at = "act", !.who = {r}] \in Request
    BY DEF Idle, Request
  <2>2. slot' \in [Slots -> Request]
    BY <1>3, <2>1 DEF SubmitHandoff, TypeOK
  <2> QED
    BY <1>3, <2>2, CountType DEF SubmitHandoff, CountSubmit, TypeOK, Parts
<1>4. CASE Act(s, r)
  <2>1. slot' \in [Slots -> Request]
    BY <1>4, GotoType DEF Act
  <2>2. recipient' \in [Signers -> Recipient]
    BY <1>4 DEF Act, TypeOK, Recipient
  <2> QED
    BY <1>4, <2>1, <2>2 DEF Act, TypeOK, Parts
<1>5. CASE Read(s, r)
  <2>1. {d \in Docs : ~Terminal(doc[d].status) /\ PartsOf(r, d) # {}}
          \in SUBSET (Signers \cup Docs)
    OBVIOUS
  <2>2. slot[s] \in Request
    BY DEF TypeOK
  <2>3. [slot[s] EXCEPT !.at = "next",
           !.todo = {d \in Docs : ~Terminal(doc[d].status) /\ PartsOf(r, d) # {}}]
          \in Request
    BY <2>1, <2>2 DEF Request
  <2>4. slot' \in [Slots -> Request]
    BY <1>5, <2>3 DEF Read, TypeOK
  <2> QED
    BY <1>5, <2>4 DEF Read, TypeOK, Parts
<1>6. ASSUME NEW d \in Docs, NEW i \in PartsOf(r, d), Mark(s, r, d, i)
      PROVE  TypeOK'
  <2>1. slot[s] \in Request
    BY DEF TypeOK
  <2>2. [slot[s] EXCEPT !.at = "count", !.doc = {d}, !.todo = slot[s].todo \ {d}] \in Request
    BY <2>1 DEF Request
  <2>3. slot' \in [Slots -> Request]
    BY <1>6, <2>2 DEF Mark, TypeOK
  <2>4. <<d, i>> \in UNION {Parts(c) : c \in Docs}
    BY DEF PartsOf, Parts
  <2>5. signed' \subseteq UNION {Parts(c) : c \in Docs}
    BY <1>6, <2>4 DEF Mark, TypeOK
  <2> QED
    BY <1>6, <2>3, <2>5 DEF Mark, TypeOK, Parts
<1> QED
  BY <1>1, <1>2, <1>3, <1>4, <1>5, <1>6

LEMMA DocumentType ==
  ASSUME TypeOK, NEW d \in Docs,
         \/ Record(d) \/ Close(d)
         \/ \E s \in Slots : \/ Count(s, d) \/ MarkRequest(s, d)
                            \/ MarkDocument(s, d) \/ Enqueue(s, d)
  PROVE  TypeOK'
<1>1. CASE Record(d)
  <2>1. doc' \in [Docs -> Document]
    BY <1>1 DEF Record, TypeOK, Document
  <2> QED
    BY <1>1, <2>1 DEF Record, TypeOK, Parts
<1>2. CASE Close(d)
  <2>1. doc' \in [Docs -> Document]
    BY <1>2 DEF Close, TypeOK, Document
  <2>2. session' \in Session
    BY <1>2 DEF Close, TypeOK, Session
  <2> QED
    BY <1>2, <2>1, <2>2 DEF Close, TypeOK, Parts
<1>3. ASSUME NEW s \in Slots, Count(s, d) PROVE TypeOK'
  <2>1. Left(d) \in BOOLEAN
    BY DEF Left
  <2>2. slot[s] \in Request
    BY DEF TypeOK
  <2>3. [slot[s] EXCEPT !.at = "request", !.left = Left(d)] \in Request
    BY <2>1, <2>2 DEF Request
  <2>4. slot' \in [Slots -> Request]
    BY <1>3, <2>3 DEF Count, TypeOK
  <2> QED
    BY <1>3, <2>4 DEF Count, TypeOK, Parts
<1>4. ASSUME NEW s \in Slots, MarkRequest(s, d) PROVE TypeOK'
  <2>1. doc' \in [Docs -> Document]
    BY <1>4 DEF MarkRequest, Outcome, TypeOK, Document
  <2>2. slot' \in [Slots -> Request]
    BY <1>4, GotoType DEF MarkRequest
  <2> QED
    BY <1>4, <2>1, <2>2 DEF MarkRequest, TypeOK, Parts
<1>5. ASSUME NEW s \in Slots, MarkDocument(s, d) PROVE TypeOK'
  <2>1. doc' \in [Docs -> Document]
    BY <1>5 DEF MarkDocument, Outcome, TypeOK, Document
  <2>2. slot' \in [Slots -> Request]
    BY <1>5, GotoType DEF MarkDocument, AfterDocument
  <2> QED
    BY <1>5, <2>1, <2>2 DEF MarkDocument, TypeOK, Parts
<1>6. ASSUME NEW s \in Slots, Enqueue(s, d) PROVE TypeOK'
  <2>1. doc' \in [Docs -> Document]
    BY <1>6 DEF Enqueue, TypeOK, Document
  <2>2. slot' \in [Slots -> Request]
    BY <1>6, GotoType DEF Enqueue
  <2> QED
    BY <1>6, <2>1, <2>2 DEF Enqueue, TypeOK, Parts
<1> QED
  BY <1>1, <1>2, <1>3, <1>4, <1>5, <1>6

LEMMA NextTypeOK == TypeOK /\ [Next]_vars => TypeOK'
<1> SUFFICES ASSUME TypeOK, [Next]_vars PROVE TypeOK'
  OBVIOUS
<1>1. CASE StartHandoff
  <2>1. session' \in Session
    BY <1>1 DEF StartHandoff, TypeOK, Session
  <2> QED
    BY <1>1, <2>1, CountType DEF StartHandoff, TypeOK, Parts
<1>2. ASSUME NEW s \in Slots, Arrive(s) PROVE TypeOK'
  BY <1>2, AgentType, SignType DEF Arrive
<1>3. ASSUME NEW s \in Slots, Handle(s) PROVE TypeOK'
  <2>1. CASE Answer(s)
    BY <2>1, ReturnType DEF Answer, TypeOK, Parts
  <2> QED
    BY <1>3, <2>1, AgentType, SignType, DocumentType DEF Handle
<1>4. ASSUME NEW s \in Slots, Crash(s) PROVE TypeOK'
  BY <1>4, ReturnType, CountType DEF Crash, TypeOK, Parts
<1>5. ASSUME NEW d \in Docs, Record(d) \/ Close(d) PROVE TypeOK'
  BY <1>5, DocumentType
<1>6. CASE UNCHANGED vars
  BY <1>6 DEF vars, TypeOK, Parts
<1> QED
  BY <1>1, <1>2, <1>3, <1>4, <1>5, <1>6 DEF Next

\* All of the state keeps its shape, whatever requests overlap or die.
THEOREM TypeCorrect == Spec => []TypeOK
BY InitTypeOK, NextTypeOK, PTL DEF Spec

-----------------------------------------------------------------------------
(* What each action does to the requests.                                   *)

\* A request that moves leaves all others where they are.
LEMMA OtherSlots ==
  ASSUME TypeOK, NEW s \in Slots, Arrive(s) \/ Handle(s) \/ Crash(s)
  PROVE  \A t \in Slots : t # s => slot'[t] = slot[t]
<1>1. CASE Arrive(s)
  BY <1>1 DEF Arrive, SendLinks, AskExit, Submit, SubmitHandoff, TypeOK
<1>2. CASE Handle(s)
  BY <1>2 DEF Handle, Sent, Exit, Answer, Link, Turn, Act, Read, Mark, Count, MarkRequest,
              MarkDocument, Enqueue, Goto, Return, TypeOK
<1>3. CASE Crash(s)
  BY <1>3 DEF Crash, Return, TypeOK
<1> QED
  BY <1>1, <1>2, <1>3

LEMMA GotoMoves ==
  ASSUME TypeOK, NEW s \in Slots, NEW at, Goto(s, at)
  PROVE  /\ slot'[s].at = at /\ slot'[s].who = slot[s].who
         /\ slot'[s].doc = slot[s].doc /\ slot'[s].left = slot[s].left
<1>1. slot[s] \in Request
  BY DEF TypeOK
<1>2. slot'[s] = [slot[s] EXCEPT !.at = at]
  BY DEF Goto, TypeOK
<1> QED
  BY <1>1, <1>2 DEF Request

LEMMA ReturnMoves ==
  ASSUME TypeOK, NEW s \in Slots, Return(s)
  PROVE  slot'[s].at = "idle" /\ slot'[s].doc = {}
BY DEF Return, Idle, TypeOK

\* Where a request is after it arrived.
LEMMA ArriveMoves ==
  ASSUME TypeOK, NEW s \in Slots, Arrive(s)
  PROVE  /\ slot[s].at = "idle"
         /\ \/ slot'[s].at \in {"link", "exit", "turn"}
            \/ /\ slot'[s].at = "act"
               /\ \E r \in Signers : SubmitHandoff(s, r) /\ slot'[s].who = {r}
<1>1. CASE SendLinks(s)
  BY <1>1 DEF SendLinks, Idle, TypeOK
<1>2. CASE AskExit(s)
  BY <1>2 DEF AskExit, Idle, TypeOK
<1>3. ASSUME NEW r \in Signers, Submit(s, r)
      PROVE  slot[s].at = "idle" /\ slot'[s].at = "turn"
  BY <1>3 DEF Submit, Idle, TypeOK
<1>4. ASSUME NEW r \in Signers, SubmitHandoff(s, r)
      PROVE  slot[s].at = "idle" /\ slot'[s].at = "act" /\ slot'[s].who = {r}
  BY <1>4 DEF SubmitHandoff, Idle, TypeOK
<1> QED
  BY <1>1, <1>2, <1>3, <1>4 DEF Arrive

\* Where a request that signs is before and after each of its statements.
LEMMA SignMoves ==
  ASSUME TypeOK, NEW s \in Slots, NEW r \in Signers
  PROVE  /\ Link(s, r) => slot[s].at = "link" /\ slot'[s].at = "link"
         /\ Turn(s, r) => /\ slot[s].at = "turn"
                          /\ \/ Active(r) /\ slot'[s].at = "act" /\ slot'[s].who = {r}
                             \/ slot'[s].at = "idle"
         /\ Act(s, r) => slot[s].at = "act" /\ slot'[s].at = "read"
         /\ Read(s, r) => slot[s].at = "read" /\ slot'[s].at = "next"
         /\ \A d \in Docs : \A i \in PartsOf(r, d) : Mark(s, r, d, i) =>
              slot[s].at = "next" /\ slot'[s].at = "count" /\ slot'[s].doc = {d}
<1>1. slot[s] \in Request
  BY DEF TypeOK
<1>2. ASSUME Link(s, r) PROVE slot[s].at = "link" /\ slot'[s].at = "link"
  BY <1>1, <1>2 DEF Link, TypeOK, Request
<1>3. ASSUME Turn(s, r)
      PROVE  /\ slot[s].at = "turn"
             /\ \/ Active(r) /\ slot'[s].at = "act" /\ slot'[s].who = {r}
                \/ slot'[s].at = "idle"
  <2>1. slot[s].at = "turn" /\ slot[s].who = {r}
    BY <1>3 DEF Turn, Is
  <2>2. CASE Active(r)
    BY <1>3, <2>1, <2>2, GotoMoves DEF Turn
  <2>3. CASE ~Active(r)
    BY <1>3, <2>1, <2>3, ReturnMoves DEF Turn
  <2> QED
    BY <2>2, <2>3
<1>4. ASSUME Act(s, r) PROVE slot[s].at = "act" /\ slot'[s].at = "read"
  BY <1>4, GotoMoves DEF Act, Is
<1>5. ASSUME Read(s, r) PROVE slot[s].at = "read" /\ slot'[s].at = "next"
  BY <1>1, <1>5 DEF Read, Is, TypeOK, Request
<1>6. ASSUME NEW d \in Docs, NEW i \in PartsOf(r, d), Mark(s, r, d, i)
      PROVE  slot[s].at = "next" /\ slot'[s].at = "count" /\ slot'[s].doc = {d}
  <2>1. slot'[s] = [slot[s] EXCEPT !.at = "count", !.doc = {d}, !.todo = slot[s].todo \ {d}]
    BY <1>6 DEF Mark, TypeOK
  <2> QED
    BY <1>1, <1>6, <2>1 DEF Mark, Is, Request
<1> QED
  BY <1>2, <1>3, <1>4, <1>5, <1>6

\* The same for the statements on a document.
LEMMA DocumentMoves ==
  ASSUME TypeOK, NEW s \in Slots, NEW d \in Docs
  PROVE  /\ Count(s, d) => /\ slot[s].at = "count" /\ slot'[s].at = "request"
                           /\ slot[s].doc = {d} /\ slot'[s].doc = {d}
                           /\ slot'[s].left = Left(d)
         /\ MarkRequest(s, d) => /\ slot[s].at = "request" /\ slot'[s].at = "document"
                                 /\ slot[s].doc = {d} /\ slot'[s].doc = {d}
                                 /\ slot'[s].left = slot[s].left
         /\ MarkDocument(s, d) => /\ slot[s].at = "document"
                                  /\ slot'[s].at = AfterDocument(s)
                                  /\ slot[s].doc = {d} /\ slot'[s].doc = {d}
                                  /\ slot'[s].left = slot[s].left
         /\ Enqueue(s, d) => /\ slot[s].at = "enqueue" /\ slot'[s].at = "next"
                             /\ slot[s].doc = {d}
<1>1. slot[s] \in Request
  BY DEF TypeOK
<1>2. ASSUME Count(s, d)
      PROVE  /\ slot[s].at = "count" /\ slot'[s].at = "request"
             /\ slot[s].doc = {d} /\ slot'[s].doc = {d}
             /\ slot'[s].left = Left(d)
  <2>1. slot'[s] = [slot[s] EXCEPT !.at = "request", !.left = Left(d)]
    BY <1>2 DEF Count, TypeOK
  <2> QED
    BY <1>1, <1>2, <2>1 DEF Count, At, Request
<1>3. ASSUME MarkRequest(s, d)
      PROVE  /\ slot[s].at = "request" /\ slot'[s].at = "document"
             /\ slot[s].doc = {d} /\ slot'[s].doc = {d}
             /\ slot'[s].left = slot[s].left
  BY <1>3, GotoMoves DEF MarkRequest, At
<1>4. ASSUME MarkDocument(s, d)
      PROVE  /\ slot[s].at = "document"
             /\ slot'[s].at = AfterDocument(s)
             /\ slot[s].doc = {d} /\ slot'[s].doc = {d}
             /\ slot'[s].left = slot[s].left
  BY <1>4, GotoMoves DEF MarkDocument, At
<1>5. ASSUME Enqueue(s, d)
      PROVE  slot[s].at = "enqueue" /\ slot'[s].at = "next" /\ slot[s].doc = {d}
  BY <1>5, GotoMoves DEF Enqueue, At
<1> QED
  BY <1>2, <1>3, <1>4, <1>5

-----------------------------------------------------------------------------
(* Routing order.                                                           *)

EarlierActed(r) == \A q \in Signers : Step[q] < Step[r] => recipient[q].actedAt

\* A recipient that shows as acted did act (a new link may hide it), and a
\* request about to mark one has seen everybody of the earlier steps act.
RoutingInv ==
  /\ TypeOK
  /\ \A r \in Signers : recipient[r].status = "acted" => recipient[r].actedAt
  /\ \A s \in Slots, r \in Signers : Is(s, "act", r) => EarlierActed(r)
  /\ InRoutingOrder

LEMMA ActiveMeansTurn ==
  ASSUME RoutingInv, NEW r \in Signers, Active(r)
  PROVE  EarlierActed(r)
<1> SUFFICES ASSUME NEW q \in Signers, Step[q] < Step[r] PROVE recipient[q].actedAt
  BY DEF EarlierActed
<1>1. Step[q] \in Nat /\ Step[r] \in Nat
  BY SessionAssumption
<1>2. q \notin Pending
  BY <1>1 DEF Active, Pending
<1> QED
  BY <1>2 DEF Pending, RoutingInv

\* Only a new link and a signature change a recipient.
LEMMA RecipientSteps ==
  ASSUME [Next]_vars
  PROVE  \/ UNCHANGED recipient
         \/ \E s \in Slots, r \in Signers : Link(s, r) \/ Act(s, r)
<1>1. ASSUME NEW s \in Slots, Arrive(s) PROVE UNCHANGED recipient
  BY <1>1 DEF Arrive, SendLinks, AskExit, Submit, SubmitHandoff
<1>2. ASSUME NEW s \in Slots, Handle(s)
      PROVE  UNCHANGED recipient \/ \E r \in Signers : Link(s, r) \/ Act(s, r)
  BY <1>2 DEF Handle, Sent, Exit, Answer, Turn, Read, Mark, Count, MarkRequest,
              MarkDocument, Enqueue
<1>3. ASSUME NEW s \in Slots, Crash(s) PROVE UNCHANGED recipient
  BY <1>3 DEF Crash
<1>4. ASSUME NEW d \in Docs, Record(d) \/ Close(d) PROVE UNCHANGED recipient
  BY <1>4 DEF Record, Close
<1>5. CASE StartHandoff \/ UNCHANGED vars
  BY <1>5 DEF StartHandoff, vars
<1> QED
  BY <1>1, <1>2, <1>3, <1>4, <1>5 DEF Next

\* actedAt is never taken back.
LEMMA ActedStays ==
  ASSUME TypeOK, [Next]_vars
  PROVE  \A r \in Signers : recipient[r].actedAt => recipient'[r].actedAt
<1>1. ASSUME NEW s \in Slots, NEW q \in Signers, Link(s, q)
      PROVE  \A r \in Signers : recipient'[r].actedAt = recipient[r].actedAt
  BY <1>1 DEF Link, TypeOK, Recipient
<1>2. ASSUME NEW s \in Slots, NEW q \in Signers, Act(s, q)
      PROVE  \A r \in Signers : recipient[r].actedAt => recipient'[r].actedAt
  BY <1>2 DEF Act, TypeOK, Recipient
<1> QED
  BY <1>1, <1>2, RecipientSteps

\* A request comes to mark a recipient only from a look at whose turn it is.
LEMMA ReachAct ==
  ASSUME TypeOK, [Next]_vars, NEW s \in Slots, NEW r \in Signers, Is(s, "act", r)'
  PROVE  Is(s, "act", r) \/ (Active(r) /\ UNCHANGED recipient)
<1>1. CASE slot'[s] = slot[s]
  BY <1>1 DEF Is
<1>2. CASE slot'[s] # slot[s]
  <2>1. Arrive(s) \/ Handle(s) \/ Crash(s)
    BY <1>2, OtherSlots DEF Next, StartHandoff, Record, Close, vars
  <2>2. CASE Arrive(s)
    <3>1. PICK q \in Signers : SubmitHandoff(s, q) /\ slot'[s].who = {q}
      BY <2>2, ArriveMoves DEF Is
    <3> QED
      BY <3>1 DEF SubmitHandoff, Is
  <2>3. CASE Handle(s)
    <3>1. ASSUME NEW q \in Signers, Turn(s, q)
          PROVE  Active(r) /\ UNCHANGED recipient
      BY <3>1, SignMoves DEF Turn, Is
    <3>2. ASSUME NEW q \in Signers,
                 \/ Link(s, q) \/ Act(s, q) \/ Read(s, q)
                 \/ \E d \in Docs : \E i \in PartsOf(q, d) : Mark(s, q, d, i)
          PROVE  FALSE
      BY <3>2, SignMoves DEF Is
    <3>3. ASSUME NEW d \in Docs,
                 Count(s, d) \/ MarkRequest(s, d) \/ MarkDocument(s, d) \/ Enqueue(s, d)
          PROVE  FALSE
      BY <3>3, DocumentMoves DEF Is, AfterDocument
    <3>4. CASE Sent(s) \/ Exit(s) \/ Answer(s)
      BY <3>4, ReturnMoves DEF Sent, Exit, Answer, Is
    <3> QED
      BY <2>3, <3>1, <3>2, <3>3, <3>4 DEF Handle
  <2>4. CASE Crash(s)
    BY <2>4 DEF Crash, Return, Idle, Is, TypeOK
  <2> QED
    BY <2>1, <2>2, <2>3, <2>4
<1> QED
  BY <1>1, <1>2

LEMMA RoutingStep == RoutingInv /\ [Next]_vars => RoutingInv'
<1> SUFFICES ASSUME RoutingInv, [Next]_vars PROVE RoutingInv'
  OBVIOUS
<1>1. TypeOK /\ TypeOK'
  BY NextTypeOK DEF RoutingInv
<1>2. ASSUME NEW r \in Signers, recipient'[r].status = "acted" PROVE recipient'[r].actedAt
  <2>1. ASSUME NEW s \in Slots, NEW q \in Signers, Link(s, q)
        PROVE  recipient'[r].status = "acted" => recipient[r].status = "acted"
    BY <1>1, <2>1 DEF Link, TypeOK, Recipient
  <2>2. ASSUME NEW s \in Slots, NEW q \in Signers, Act(s, q)
        PROVE  recipient[r].status = "acted" \/ recipient'[r].actedAt
    BY <1>1, <1>2, <2>2 DEF Act, TypeOK, Recipient
  <2>3. recipient[r].status = "acted" \/ recipient'[r].actedAt
    BY <1>2, <2>1, <2>2, RecipientSteps
  <2> QED
    BY <1>1, <2>3, ActedStays DEF RoutingInv
<1>3. ASSUME NEW s \in Slots, NEW r \in Signers, Is(s, "act", r)' PROVE EarlierActed(r)'
  <2>1. EarlierActed(r)
    BY <1>1, <1>3, ReachAct, ActiveMeansTurn DEF RoutingInv
  <2> QED
    BY <1>1, <2>1, ActedStays DEF EarlierActed
<1>4. InRoutingOrder'
  <2> SUFFICES ASSUME NEW q \in Signers, NEW r \in Signers,
                      Step[q] < Step[r], recipient'[r].actedAt
               PROVE  recipient'[q].actedAt
    BY DEF InRoutingOrder
  <2>1. CASE recipient[r].actedAt
    BY <1>1, <2>1, ActedStays DEF RoutingInv, InRoutingOrder
  <2>2. CASE ~recipient[r].actedAt
    <3>1. ASSUME NEW s \in Slots, NEW t \in Signers, Link(s, t) PROVE FALSE
      BY <1>1, <2>2, <3>1 DEF Link, TypeOK, Recipient
    <3>2. PICK s \in Slots, t \in Signers : Act(s, t)
      BY <2>2, <3>1, RecipientSteps
    <3>3. t = r
      BY <1>1, <2>2, <3>2 DEF Act, TypeOK, Recipient
    <3>4. EarlierActed(r)
      BY <3>2, <3>3 DEF Act, RoutingInv
    <3> QED
      BY <1>1, <3>4, ActedStays DEF EarlierActed
  <2> QED
    BY <2>1, <2>2
<1> QED
  BY <1>1, <1>2, <1>3, <1>4 DEF RoutingInv

\* For any packet and any overlap of requests, from links and on the iPad,
\* nobody signs before everybody of the earlier routing steps did.
THEOREM RoutingOrder == Spec => []InRoutingOrder
<1>1. Init => RoutingInv
  BY InitTypeOK DEF Init, Idle, Is, RoutingInv, InRoutingOrder
<1>2. RoutingInv => InRoutingOrder
  BY DEF RoutingInv
<1> QED
  BY <1>1, <1>2, RoutingStep, PTL DEF Spec

-----------------------------------------------------------------------------
(* Completing documents.                                                    *)

\* A request that counted no part left is right, whatever came after; and a
\* document that is all signed and not queued has such a request, or one that
\* is about to count.
EndInv ==
  /\ TypeOK
  /\ \A s \in Slots : slot[s].at = "enqueue" => ~slot[s].left
  /\ \A s \in Slots, d \in Docs : SeesEnd(s, d) => Parts(d) \subseteq signed
  /\ FinalizedOnlySigned
  /\ OneSeesTheEnd

\* Parts stay signed, and only Mark adds one.
LEMMA SignedSteps ==
  ASSUME [Next]_vars
  PROVE  \/ UNCHANGED signed
         \/ \E s \in Slots, r \in Signers, d \in Docs : \E i \in PartsOf(r, d) : Mark(s, r, d, i)
<1>1. ASSUME NEW s \in Slots, Arrive(s) \/ Crash(s) PROVE UNCHANGED signed
  BY <1>1 DEF Arrive, SendLinks, AskExit, Submit, SubmitHandoff, Crash
<1>2. ASSUME NEW s \in Slots, Handle(s)
      PROVE  \/ UNCHANGED signed
             \/ \E r \in Signers, d \in Docs : \E i \in PartsOf(r, d) : Mark(s, r, d, i)
  BY <1>2 DEF Handle, Sent, Exit, Answer, Link, Turn, Act, Read, Count, MarkRequest,
              MarkDocument, Enqueue
<1>3. ASSUME NEW d \in Docs, Record(d) \/ Close(d) PROVE UNCHANGED signed
  BY <1>3 DEF Record, Close
<1>4. CASE StartHandoff \/ UNCHANGED vars
  BY <1>4 DEF StartHandoff, vars
<1> QED
  BY <1>1, <1>2, <1>3, <1>4 DEF Next

LEMMA SignedStays ==
  ASSUME [Next]_vars
  PROVE  signed \subseteq signed'
BY SignedSteps DEF Mark

\* Only Enqueue gives a document its job, and nothing takes it away.
LEMMA JobSteps ==
  ASSUME TypeOK, [Next]_vars, NEW d \in Docs
  PROVE  /\ doc[d].job # "none" => doc'[d].job # "none"
         /\ doc'[d].job # "none" =>
              doc[d].job # "none" \/ \E s \in Slots : Enqueue(s, d)
<1> DEFINE Same == doc'[d].job = doc[d].job
<1>1. ASSUME NEW s \in Slots, Arrive(s) \/ Crash(s) PROVE Same
  BY <1>1 DEF Arrive, SendLinks, AskExit, Submit, SubmitHandoff, Crash
<1>2. ASSUME NEW s \in Slots, NEW c \in Docs, MarkRequest(s, c) \/ MarkDocument(s, c)
      PROVE  Same
  BY <1>2 DEF MarkRequest, MarkDocument, TypeOK, Document
<1>3. ASSUME NEW s \in Slots, NEW c \in Docs, Enqueue(s, c)
      PROVE  (c # d => Same) /\ (c = d => doc'[d].job # "none")
  BY <1>3 DEF Enqueue, TypeOK, Document
<1>4. ASSUME NEW s \in Slots, Handle(s)
      PROVE  \/ UNCHANGED doc
             \/ \E c \in Docs : MarkRequest(s, c) \/ MarkDocument(s, c) \/ Enqueue(s, c)
  BY <1>4 DEF Handle, Sent, Exit, Answer, Link, Turn, Act, Read, Mark, Count
<1>5. ASSUME NEW c \in Docs, Record(c) \/ Close(c)
      PROVE  (doc[d].job # "none" /\ doc'[d].job # "none") \/ Same
  BY <1>5 DEF Record, Close, TypeOK, Document
<1>6. CASE StartHandoff \/ UNCHANGED vars
  BY <1>6 DEF StartHandoff, vars
<1> QED
  BY <1>1, <1>2, <1>3, <1>4, <1>5, <1>6 DEF Next

LEMMA CrashesStay ==
  ASSUME TypeOK, [Next]_vars
  PROVE  count'.crashes = 0 => count.crashes = 0
<1> DEFINE Same == count'.crashes = count.crashes
<1>1. ASSUME NEW s \in Slots, Arrive(s) PROVE Same
  BY <1>1 DEF Arrive, SendLinks, AskExit, Submit, SubmitHandoff, CountSubmit, TypeOK, Counts
<1>2. ASSUME NEW s \in Slots, Handle(s) PROVE Same
  BY <1>2 DEF Handle, Sent, Exit, Answer, Link, Turn, Act, Read, Mark, Count, MarkRequest,
              MarkDocument, Enqueue
<1>3. ASSUME NEW s \in Slots, Crash(s) PROVE count'.crashes # 0
  BY <1>3 DEF Crash, TypeOK, Counts
<1>4. ASSUME NEW d \in Docs, Record(d) \/ Close(d) PROVE Same
  BY <1>4 DEF Record, Close
<1>5. CASE StartHandoff
  BY <1>5 DEF StartHandoff, TypeOK, Counts
<1>6. CASE UNCHANGED vars
  BY <1>6 DEF vars
<1> QED
  BY <1>1, <1>2, <1>3, <1>4, <1>5, <1>6 DEF Next

\* How a request comes to know that nothing is left.
LEMMA ReachEnd ==
  ASSUME EndInv, [Next]_vars, NEW s \in Slots, slot'[s] # slot[s]
  PROVE  /\ slot'[s].at = "enqueue" => ~slot'[s].left
         /\ \A d \in Docs : SeesEnd(s, d)' => Parts(d) \subseteq signed
<1>1. TypeOK
  BY DEF EndInv
<1>2. Arrive(s) \/ Handle(s) \/ Crash(s)
  BY <1>1, OtherSlots DEF Next, StartHandoff, Record, Close, vars
<1>3. CASE slot'[s].at \notin {"request", "document", "enqueue"}
  BY <1>3 DEF SeesEnd, At
<1>4. ASSUME NEW c \in Docs, Count(s, c)
      PROVE  /\ slot'[s].at # "enqueue"
             /\ \A d \in Docs : SeesEnd(s, d)' => Parts(d) \subseteq signed
  BY <1>1, <1>4, DocumentMoves DEF SeesEnd, At, Left
<1>5. ASSUME NEW c \in Docs, MarkRequest(s, c)
      PROVE  /\ slot'[s].at # "enqueue"
             /\ \A d \in Docs : SeesEnd(s, d)' => Parts(d) \subseteq signed
  BY <1>1, <1>5, DocumentMoves DEF SeesEnd, At, EndInv
<1>6. ASSUME NEW c \in Docs, MarkDocument(s, c)
      PROVE  /\ slot'[s].at = "enqueue" => ~slot'[s].left
             /\ \A d \in Docs : SeesEnd(s, d)' => Parts(d) \subseteq signed
  BY <1>1, <1>6, DocumentMoves DEF SeesEnd, At, EndInv, AfterDocument
<1>7. CASE Arrive(s)
  BY <1>1, <1>3, <1>7, ArriveMoves
<1>8. CASE Crash(s)
  BY <1>1, <1>3, <1>8, ReturnMoves DEF Crash
<1>9. CASE Handle(s)
  <2>1. ASSUME NEW r \in Signers,
               \/ Link(s, r) \/ Turn(s, r) \/ Act(s, r) \/ Read(s, r)
               \/ \E d \in Docs : \E i \in PartsOf(r, d) : Mark(s, r, d, i)
        PROVE  slot'[s].at \notin {"request", "document", "enqueue"}
    BY <1>1, <2>1, SignMoves
  <2>2. ASSUME NEW d \in Docs, Enqueue(s, d)
        PROVE  slot'[s].at \notin {"request", "document", "enqueue"}
    BY <1>1, <2>2, DocumentMoves
  <2>3. ASSUME Sent(s) \/ Exit(s) \/ Answer(s)
        PROVE  slot'[s].at \notin {"request", "document", "enqueue"}
    BY <1>1, <2>3, ReturnMoves DEF Sent, Exit, Answer
  <2> QED
    BY <1>3, <1>4, <1>5, <1>6, <1>9, <2>1, <2>2, <2>3 DEF Handle
<1> QED
  BY <1>2, <1>7, <1>8, <1>9

\* The request that counts, or counted, the end of a document goes on to
\* queue it, if it does not die.
LEMMA EndGoesOn ==
  ASSUME EndInv, [Next]_vars, NEW s \in Slots, NEW d \in Docs,
         At(s, "count", d) \/ SeesEnd(s, d),
         Parts(d) \subseteq signed, doc'[d].job = "none", count'.crashes = 0
  PROVE  At(s, "count", d)' \/ SeesEnd(s, d)'
<1>1. TypeOK /\ TypeOK'
  BY NextTypeOK DEF EndInv
<1>2. slot[s].doc = {d} /\ slot[s].at \in {"count", "request", "document", "enqueue"}
  BY DEF SeesEnd, At
<1>3. CASE slot'[s] = slot[s]
  BY <1>3 DEF SeesEnd, At
<1>4. CASE slot'[s] # slot[s]
  <2>1. Arrive(s) \/ Handle(s) \/ Crash(s)
    BY <1>1, <1>4, OtherSlots DEF Next, StartHandoff, Record, Close, vars
  <2>2. ~Arrive(s)
    BY <1>1, <1>2, ArriveMoves
  <2>3. ~Crash(s)
    BY <1>1 DEF Crash, TypeOK, Counts
  <2>4. ASSUME NEW r \in Signers,
               \/ Link(s, r) \/ Turn(s, r) \/ Act(s, r) \/ Read(s, r)
               \/ \E c \in Docs : \E i \in PartsOf(r, c) : Mark(s, r, c, i)
        PROVE  FALSE
    BY <1>1, <1>2, <2>4, SignMoves
  <2>5. ~(Sent(s) \/ Exit(s) \/ Answer(s))
    BY <1>2 DEF Sent, Exit, Answer
  <2>6. ASSUME NEW c \in Docs, Count(s, c) PROVE SeesEnd(s, d)'
    BY <1>1, <1>2, <2>6, DocumentMoves DEF SeesEnd, At, Left
  <2>7. ASSUME NEW c \in Docs, MarkRequest(s, c) PROVE SeesEnd(s, d)'
    BY <1>1, <1>2, <2>7, DocumentMoves DEF SeesEnd, At
  <2>8. ASSUME NEW c \in Docs, MarkDocument(s, c) PROVE SeesEnd(s, d)'
    BY <1>1, <1>2, <2>8, DocumentMoves DEF SeesEnd, At, AfterDocument
  <2>9. ASSUME NEW c \in Docs, Enqueue(s, c) PROVE FALSE
    <3>1. c = d
      BY <1>1, <1>2, <2>9, DocumentMoves
    <3> QED
      BY <1>1, <2>9, <3>1 DEF Enqueue, TypeOK, Document
  <2> QED
    BY <2>1, <2>2, <2>3, <2>4, <2>5, <2>6, <2>7, <2>8, <2>9 DEF Handle
<1> QED
  BY <1>3, <1>4

LEMMA EndStep == EndInv /\ [Next]_vars => EndInv'
<1> SUFFICES ASSUME EndInv, [Next]_vars PROVE EndInv'
  OBVIOUS
<1>1. TypeOK /\ TypeOK'
  BY NextTypeOK DEF EndInv
<1>2. ASSUME NEW s \in Slots, slot'[s].at = "enqueue" PROVE ~slot'[s].left
  BY <1>2, ReachEnd DEF EndInv
<1>3. ASSUME NEW s \in Slots, NEW d \in Docs, SeesEnd(s, d)'
      PROVE  Parts(d) \subseteq signed'
  <2>1. slot'[s] = slot[s] => SeesEnd(s, d)
    BY <1>3 DEF SeesEnd, At
  <2> QED
    BY <1>3, <2>1, ReachEnd, SignedStays DEF EndInv
<1>4. FinalizedOnlySigned'
  <2> SUFFICES ASSUME NEW d \in Docs, doc'[d].job # "none"
               PROVE  Parts(d) \subseteq signed'
    BY DEF FinalizedOnlySigned, Parts
  <2>1. CASE doc[d].job # "none"
    BY <2>1, SignedStays DEF EndInv, FinalizedOnlySigned
  <2>2. ASSUME NEW s \in Slots, Enqueue(s, d) PROVE Parts(d) \subseteq signed
    BY <2>2 DEF Enqueue, At, SeesEnd, EndInv
  <2> QED
    BY <1>1, <2>1, <2>2, JobSteps, SignedStays
<1>5. OneSeesTheEnd'
  <2> SUFFICES ASSUME NEW d \in Docs, Parts(d) \subseteq signed',
                      doc'[d].job = "none", count'.crashes = 0
               PROVE  \E s \in Slots : At(s, "count", d)' \/ SeesEnd(s, d)'
    BY DEF OneSeesTheEnd, Parts
  <2>1. CASE Parts(d) \subseteq signed
    <3>1. doc[d].job = "none"
      BY <1>1, JobSteps
    <3>2. count.crashes = 0
      BY <1>1, CrashesStay
    <3>3. PICK s \in Slots : At(s, "count", d) \/ SeesEnd(s, d)
      BY <2>1, <3>1, <3>2 DEF EndInv, OneSeesTheEnd
    <3> QED
      BY <2>1, <3>3, EndGoesOn
  <2>2. CASE ~(Parts(d) \subseteq signed)
    <3>1. PICK s \in Slots, r \in Signers, c \in Docs : \E i \in PartsOf(r, c) : Mark(s, r, c, i)
      BY <2>2, SignedSteps
    <3>2. PICK i \in PartsOf(r, c) : Mark(s, r, c, i)
      BY <3>1
    <3>3. c = d
      BY <2>2, <3>2 DEF Mark, Parts
    <3>4. At(s, "count", d)'
      BY <1>1, <3>2, <3>3, SignMoves DEF At
    <3> QED
      BY <3>4
  <2> QED
    BY <2>1, <2>2
<1> QED
  BY <1>1, <1>2, <1>3, <1>4, <1>5 DEF EndInv, Parts

LEMMA InitEnd == Init => EndInv
<1> SUFFICES ASSUME Init PROVE EndInv
  OBVIOUS
<1>1. TypeOK
  BY InitTypeOK
<1>2. \A s \in Slots : slot[s].at = "idle"
  BY DEF Init, Idle
<1>3. FinalizedOnlySigned
  BY DEF Init, FinalizedOnlySigned
<1>4. ASSUME NEW d \in Docs PROVE ~(Parts(d) \subseteq signed)
  <2>1. Of[d] \in Seq(Signers) /\ Of[d] # <<>>
    BY SessionAssumption
  <2>2. 1 \in DOMAIN Of[d]
    BY <2>1
  <2> QED
    BY <2>2 DEF Init, Parts
<1> QED
  BY <1>1, <1>2, <1>3, <1>4 DEF EndInv, SeesEnd, At, OneSeesTheEnd

\* For any packet and any overlap of requests, a document goes to be finalized
\* only when all its parts are signed.
THEOREM OnlySignedFinalized == Spec => []FinalizedOnlySigned
<1>1. EndInv => FinalizedOnlySigned
  BY DEF EndInv
<1> QED
  BY <1>1, InitEnd, EndStep, PTL DEF Spec

\* For any packet and any overlap of requests, if none dies, a document whose
\* parts are all signed is queued or has a request at it that will queue it.
THEOREM EndIsSeen == Spec => []OneSeesTheEnd
<1>1. EndInv => OneSeesTheEnd
  BY DEF EndInv
<1> QED
  BY <1>1, InitEnd, EndStep, PTL DEF Spec

=============================================================================
