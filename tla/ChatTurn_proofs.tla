---------------------------- MODULE ChatTurn_proofs ----------------------------
(***************************************************************************)
(* Proofs about ChatTurn, for any queries, chats, tokens, deletes and      *)
(* failures, and any number of turns in progress at once: its types; what  *)
(* a turn that meets no other is owed; and the end of a stream however     *)
(* turns overlap.                                                          *)
(***************************************************************************)
EXTENDS ChatTurn, FiniteSetTheorems, TLAPS

-------------------------------------------------------------------------------
\* Type correctness.

LEMMA EventTypes ==
    ASSUME NEW q \in Queries
    PROVE  /\ Ev("token", {q}) \in Event /\ Ev("error", {q}) \in Event
           /\ <<Ev("token", {q})>> \in Seq(Event)
           /\ <<Ev("done", {q}), Ev("sentinel", {q})>> \in Seq(Event)
           /\ \A of \in SUBSET Queries : <<Ev("usage", of)>> \in Seq(Event)
BY DEF Ev, Event

LEMMA EmitTypes ==
    ASSUME queue \in [Queries -> Seq(Event)], NEW q \in Queries, NEW events \in Seq(Event), Emit(q, events)
    PROVE  queue' \in [Queries -> Seq(Event)]
BY DEF Emit

LEMMA ShowTypes ==
    ASSUME shown \in [Queries -> Seq(Event)], NEW q \in Queries, NEW e \in Event, Show(q, e)
    PROVE  shown' \in [Queries -> Seq(Event)]
BY DEF Show

\* The two parts of TypeOK: the types, and how the tasks of a query go together.
Fields ==
    /\ last \in Turn \union {None} /\ callback \in Queries \union {None} /\ usage \subseteq Queries
    /\ chat \in [Queries -> Chats \union {None}]
    /\ stream \in [Queries -> {"none", "clear", "launch", "next", "sent", "join", "drain",
                               "save", "closed"}]
    /\ queue \in [Queries -> Seq(Event)] /\ shown \in [Queries -> Seq(Event)]
    /\ cut \in [Queries -> BOOLEAN] /\ failed \in [Queries -> BOOLEAN]
    /\ runner \in [Queries -> {"none", "ready", "asked", "tokens", "answered", "finish", "over"}]
    /\ captured \in [Queries -> Queries \union {None}]
    /\ sent \in [Queries -> 0 .. MaxTokens]
    /\ persist \in [Queries -> {"none", "ready", "append", "done", "lost"}]
    /\ held \in [Queries -> Turn \union {None}]
    /\ partial \in [Chats -> Queries \union {None}]
    /\ log \in [Chats -> Seq(Turn)] /\ up \in BOOLEAN
    /\ deletes \in 0 .. MaxDeletes /\ dropping \subseteq Chats
    /\ gone \in [Chats -> SUBSET Queries] /\ met \subseteq Queries

Together(q) ==
    /\ stream[q] # "none" => chat[q] \in Chats
    /\ stream[q] \in {"none", "clear", "launch"} => runner[q] = "none"
    /\ runner[q] # "none" => callback # None
    /\ runner[q] = "tokens" => captured[q] # None
    /\ persist[q] # "none" => runner[q] = "over"
    /\ persist[q] = "append" => held[q] # None

LEMMA TypeParts == TypeOK <=> Fields /\ \A q \in Queries : Together(q)
BY DEF TypeOK, Fields, Together

LEMMA TypeStep == ASSUME TypeOK, [Next]_vars PROVE TypeOK'
<1> USE ChatTurnAssumption DEF agent, streams, runners, stores, removal
<1>0. Fields /\ (\A x \in Queries : Together(x)) /\ (Fields' /\ (\A x \in Queries : Together(x)') => TypeOK')
  BY TypeParts DEF TypeOK, Fields, Together
<1>1. ASSUME NEW q \in Queries, NEW c \in Chats, Start(q, c) PROVE TypeOK'
  <2>0. met' \subseteq Queries
    BY <1>0, <1>1 DEF Start, InProgress, Fields
  <2>1. Fields'
    BY <1>0, <1>1, <2>0 DEF Start, Stream, Fields
  <2>2. \A x \in Queries : Together(x)'
    BY <1>0, <1>1 DEF Start, Stream, Fields, Together
  <2> QED
    BY <1>0, <2>1, <2>2
<1>2. ASSUME NEW q \in Queries, ClearPartial(q) PROVE TypeOK'
  BY <1>2 DEF ClearPartial, Stream, TypeOK
<1>3. ASSUME NEW q \in Queries, Launch(q) PROVE TypeOK'
  <2>1. Fields'
    BY <1>0, <1>3 DEF Launch, Stream, Fields
  <2>2. \A x \in Queries : Together(x)'
    BY <1>0, <1>3 DEF Launch, Stream, Fields, Together
  <2> QED
    BY <1>0, <2>1, <2>2
<1>4. ASSUME NEW q \in Queries, LaunchFails(q) PROVE TypeOK'
  BY <1>4, EventTypes, ShowTypes DEF LaunchFails, Stream, TypeOK
<1>5. ASSUME NEW q \in Queries, Receive(q) PROVE TypeOK'
  <2>1. queue[q] \in Seq(Event) /\ queue[q] # <<>>
    BY <1>5 DEF Receive, TypeOK
  <2>2. Head(queue[q]) \in Event /\ Tail(queue[q]) \in Seq(Event)
    BY <2>1
  <2>3. queue' \in [Queries -> Seq(Event)]
    BY <1>5, <2>2 DEF Receive, TypeOK
  <2>4. shown' \in [Queries -> Seq(Event)]
    BY <1>5, <2>2, ShowTypes DEF Receive, TypeOK
  <2>5. stream' = [stream EXCEPT ![q] = "join"] \/ stream' = [stream EXCEPT ![q] = "sent"]
    BY <1>5 DEF Receive, Stream
  <2>6. stream[q] = "next"
    BY <1>5 DEF Receive, Stream
  <2>7. Fields'
    BY <1>0, <1>5, <2>3, <2>4, <2>5 DEF Receive, Fields
  <2>8. \A x \in Queries : Together(x)'
    BY <1>0, <1>5, <2>5, <2>6 DEF Receive, Fields, Together
  <2> QED
    BY <1>0, <2>7, <2>8
<1>6. ASSUME NEW q \in Queries, Sent(q) PROVE TypeOK'
  BY <1>6 DEF Sent, Stream, TypeOK
<1>7. ASSUME NEW q \in Queries, Join(q) PROVE TypeOK'
  BY <1>7, EventTypes, ShowTypes DEF Join, Stream, TypeOK
<1>8. ASSUME NEW q \in Queries, Drained(q) PROVE TypeOK'
  BY <1>8 DEF Drained, Stream, TypeOK
<1>9. ASSUME NEW q \in Queries, Save(q) PROVE TypeOK'
  <2>0. partial' \in [Chats -> Queries \union {None}]
    <3>1. partial' = partial \/ partial' = [partial EXCEPT ![chat[q]] = q]
      BY <1>9 DEF Save
    <3> QED
      BY <1>0, <3>1 DEF Fields
  <2>1. Fields'
    BY <1>0, <1>9, <2>0 DEF Save, Stream, Fields
  <2>2. \A x \in Queries : Together(x)'
    BY <1>0, <1>9 DEF Save, Stream, Fields, Together
  <2> QED
    BY <1>0, <2>1, <2>2
<1>10. ASSUME NEW q \in Queries, CutClearing(q) PROVE TypeOK'
  BY <1>10 DEF CutClearing, Cut, Stream, TypeOK
<1>11. ASSUME NEW q \in Queries, CutSending(q) \/ CutPolling(q) \/ CutWaiting(q) PROVE TypeOK'
  <2>0. /\ stream' \in [Queries -> {"none", "clear", "launch", "next", "sent", "join", "drain",
                                    "save", "closed"}]
        /\ cut' \in [Queries -> BOOLEAN]
    <3>1. CASE CutSending(q)
      BY <1>0, <3>1 DEF CutSending, Cut, Stream, Fields
    <3>2. CASE CutPolling(q)
      BY <1>0, <3>2 DEF CutPolling, Cut, Stream, Fields
    <3>3. CASE CutWaiting(q)
      BY <1>0, <3>3 DEF CutWaiting, Cut, Stream, Fields
    <3> QED
      BY <1>11, <3>1, <3>2, <3>3
  <2>1. Fields'
    BY <1>0, <1>11, <2>0 DEF CutSending, CutPolling, CutWaiting, Fields
  <2>2. \A x \in Queries : Together(x)'
    <3>1. /\ stream[q] \in {"next", "sent"}
          /\ \E to \in {"closed", "save", "drain"} : stream' = [stream EXCEPT ![q] = to]
      BY <1>11 DEF CutSending, CutPolling, CutWaiting, Stream
    <3>2. UNCHANGED <<agent, chat, runners, stores>>
      BY <1>11 DEF CutSending, CutPolling, CutWaiting
    <3> QED
      BY <1>0, <3>1, <3>2 DEF Fields, Together
  <2> QED
    BY <1>0, <2>1, <2>2
<1>12. ASSUME NEW q \in Queries, CancelRunner(q) PROVE TypeOK'
  <2>0. runner' \in [Queries -> {"none", "ready", "asked", "tokens", "answered", "finish", "over"}]
    BY <1>0, <1>12 DEF CancelRunner, Runner, Fields
  <2>1. Fields'
    BY <1>0, <1>12, <2>0 DEF CancelRunner, Fields
  <2>2. \A x \in Queries : Together(x)'
    BY <1>0, <1>12 DEF CancelRunner, Runner, Fields, Together
  <2> QED
    BY <1>0, <2>1, <2>2
<1>13. ASSUME NEW q \in Queries, Begin(q) PROVE TypeOK'
  BY <1>13 DEF Begin, Runner, TypeOK, Turn
<1>14. ASSUME NEW q \in Queries, Answering(q) PROVE TypeOK'
  BY <1>14 DEF Answering, Runner, TypeOK
<1>15. ASSUME NEW q \in Queries, Token(q) PROVE TypeOK'
  <2>1. captured[q] \in Queries
    BY <1>15 DEF Token, TypeOK
  <2>2. queue' \in [Queries -> Seq(Event)]
    BY <1>15, <2>1, EventTypes, EmitTypes DEF Token, TypeOK
  <2>0. sent' \in [Queries -> 0 .. MaxTokens]
    BY <1>0, <1>15 DEF Token, Fields
  <2>3. Fields'
    BY <1>0, <1>15, <2>0, <2>2 DEF Token, Fields
  <2>4. \A x \in Queries : Together(x)'
    BY <1>0, <1>15 DEF Token, Together
  <2> QED
    BY <1>0, <2>3, <2>4
<1>16. ASSUME NEW q \in Queries, Answered(q) PROVE TypeOK'
  <2>1. callback \in Queries /\ usage' \in SUBSET Queries
    BY <1>16 DEF Answered, Runner, TypeOK
  <2>2. queue' \in [Queries -> Seq(Event)]
    BY <1>16, <2>1, EventTypes, EmitTypes DEF Answered, TypeOK
  <2> QED
    BY <1>16, <2>1, <2>2 DEF Answered, Runner, TypeOK
<1>17. ASSUME NEW q \in Queries, Final(q) PROVE TypeOK'
  BY <1>17 DEF Final, Runner, TypeOK, Turn
<1>18. ASSUME NEW q \in Queries, LLMError(q) PROVE TypeOK'
  <2>0. /\ runner' \in [Queries -> {"none", "ready", "asked", "tokens", "answered", "finish", "over"}]
    BY <1>0, <1>18 DEF LLMError, Runner, Fields
  <2>1. failed' \in [Queries -> BOOLEAN]
    BY <1>0, <1>18 DEF LLMError, Fields
  <2>2. Fields'
    BY <1>0, <1>18, <2>0, <2>1 DEF LLMError, Fields
  <2>3. \A x \in Queries : Together(x)'
    BY <1>0, <1>18 DEF LLMError, Runner, Fields, Together
  <2> QED
    BY <1>0, <2>2, <2>3
<1>19. ASSUME NEW q \in Queries, Finish(q) PROVE TypeOK'
  <2>1. queue' \in [Queries -> Seq(Event)]
    BY <1>19, EventTypes, EmitTypes DEF Finish, TypeOK
  <2> QED
    BY <1>19, <2>1 DEF Finish, Runner, TypeOK
<1>20. ASSUME NEW q \in Queries, PersistRead(q) PROVE TypeOK'
  BY <1>20 DEF PersistRead, Persist, TypeOK
<1>21. ASSUME NEW q \in Queries, PersistAppend(q) PROVE TypeOK'
  <2>1. held[q] \in Turn
    BY <1>21 DEF PersistAppend, Persist, TypeOK
  <2>2. log' \in [Chats -> Seq(Turn)]
    <3>1. /\ log \in [Chats -> Seq(Turn)] /\ log' = [log EXCEPT ![chat[q]] = Append(@, held[q])]
      BY <1>21 DEF PersistAppend, TypeOK
    <3>2. \A s \in Seq(Turn) : Append(s, held[q]) \in Seq(Turn)
      BY <2>1
    <3> QED
      BY <3>1, <3>2
  <2> QED
    BY <1>21, <2>2 DEF PersistAppend, Persist, TypeOK
<1>22. ASSUME NEW q \in Queries, PersistFails(q) PROVE TypeOK'
  BY <1>22 DEF PersistFails, Persist, TypeOK
<1>23. ASSUME NEW c \in Chats, Delete(c) PROVE TypeOK'
  <2>0. log' \in [Chats -> Seq(Turn)] /\ gone' \in [Chats -> SUBSET Queries]
    BY <1>0, <1>23 DEF Delete, Fields
  <2>1. deletes' \in 0 .. MaxDeletes /\ dropping' \subseteq Chats
    BY <1>0, <1>23 DEF Delete, Fields
  <2>2. Fields'
    BY <1>0, <1>23, <2>0, <2>1 DEF Delete, Fields
  <2>3. \A x \in Queries : Together(x)'
    BY <1>0, <1>23 DEF Delete, Fields, Together
  <2> QED
    BY <1>0, <2>2, <2>3
<1>24. ASSUME NEW c \in Chats, DropPartial(c) \/ ExpirePartial(c) PROVE TypeOK'
  <2>0. partial' \in [Chats -> Queries \union {None}]
    BY <1>0, <1>24 DEF DropPartial, ExpirePartial, Fields
  <2>1. gone' \in [Chats -> SUBSET Queries]
    <3>1. gone[c] \ {partial[c]} \in SUBSET Queries
      BY <1>0 DEF Fields
    <3>2. gone' = gone \/ gone' = [gone EXCEPT ![c] = @ \ {partial[c]}]
      BY <1>24 DEF DropPartial, ExpirePartial
    <3> QED
      BY <1>0, <3>1, <3>2 DEF Fields
  <2>2. Fields'
    BY <1>0, <1>24, <2>0, <2>1 DEF DropPartial, ExpirePartial, Fields
  <2>3. \A x \in Queries : Together(x)'
    BY <1>0, <1>24 DEF DropPartial, ExpirePartial, Fields, Together
  <2> QED
    BY <1>0, <2>2, <2>3
<1>25. CASE Shutdown
  BY <1>25 DEF Shutdown, TypeOK
<1>26. CASE UNCHANGED vars
  BY <1>26 DEF vars, TypeOK
<1> QED
  BY <1>1, <1>2, <1>3, <1>4, <1>5, <1>6, <1>7, <1>8, <1>9, <1>10, <1>11, <1>12, <1>13, <1>14, <1>15,
     <1>16, <1>17, <1>18, <1>19, <1>20, <1>21, <1>22, <1>23, <1>24, <1>25, <1>26
     DEF Next, Streaming, Disconnect, Running, Persisting

\* Every field keeps its type, and a runner and its persist task exist from the launch on.
THEOREM TypeCorrect == Spec => []TypeOK
<1>1. Init => TypeOK
  BY ChatTurnAssumption DEF Init, TypeOK
<1> QED
  BY <1>1, TypeStep, PTL DEF Spec

-------------------------------------------------------------------------------
\* A turn that meets no other.  The invariants say that the agent serves it alone while it is
\* in progress, and that no other turn holds anything of it: so what is emitted to it and
\* stored of it is its own, whatever the turns before, after and apart from it do.

MetAll == \A x, y \in Queries : Active(x) /\ Active(y) => x = y \/ (x \in met /\ y \in met)

Single(q) == \A x \in Queries : Active(x) /\ Active(q) => x = q

\* The callback, the accumulator and last_state are the turn's that uses them.
Serves(q) ==
    /\ runner[q] \notin {"none", "over"} => callback = q
    /\ runner[q] = "tokens" => captured[q] = q
    /\ runner[q] \in {"ready", "asked", "tokens"} => usage = {}
    /\ runner[q] \notin {"none", "over"} \/ persist[q] = "ready" => last = None \/ last.of = q
    /\ persist[q] = "append" => held[q].of = q

\* What x emits to and reads from is not q's.
Apart(x, q) ==
    /\ runner[x] \notin {"none", "over"} => callback # q
    /\ runner[x] = "tokens" => captured[x] # q
    /\ runner[x] \notin {"none", "over"} \/ persist[x] = "ready" => last = None \/ last.of # q
    /\ persist[x] = "append" => held[x].of # q

OwnEvents(s, q) == \A i \in DOMAIN s : s[i].of = {q}

OwnRows(c) ==
    /\ \A i \in DOMAIN log[c] :
          log[c][i].of \in met \/ (chat[log[c][i].of] = c /\ persist[log[c][i].of] = "done")
    /\ \A i, j \in DOMAIN log[c] : log[c][i].of = log[c][j].of => i = j \/ log[c][i].of \in met

\* A query that was not asked yet has no chat.
Unasked(q) == stream[q] = "none" => chat[q] = None

AtRest(q) == stream[q] # "none" /\ ~Active(q)

Gone(c) ==
    /\ \A q \in gone[c] : chat[q] = c /\ AtRest(q)
    /\ \A i \in DOMAIN log[c] : log[c][i].of \notin gone[c] \/ log[c][i].of \in met
    /\ c \notin dropping => partial[c] \notin gone[c]

\* A turn becomes active in Start only, and keeps its chat.
LEMMA Wakes ==
    ASSUME TypeOK, [Next]_vars, NEW x \in Queries
    PROVE  /\ Active(x)' => Active(x) \/ \E c \in Chats : Start(x, c)
           /\ stream[x] # "none" => stream'[x] # "none" /\ chat'[x] = chat[x]
           /\ stream'[x] = "none" => chat'[x] = chat[x]
<1> USE DEF agent, streams, runners, stores, removal
<1>1. ASSUME NEW q \in Queries, NEW c \in Chats, Start(q, c)
      PROVE  /\ Active(x)' => Active(x) \/ x = q
             /\ stream[x] # "none" => stream'[x] # "none" /\ chat'[x] = chat[x]
             /\ stream'[x] = "none" => chat'[x] = chat[x]
  BY <1>1 DEF Start, Stream, Active, TypeOK
<1>2. ASSUME NEW q \in Queries, Streaming(q) \/ Disconnect(q)
      PROVE  /\ chat' = chat /\ persist' = persist
             /\ stream[x] = "none" => stream'[x] = "none"
             /\ stream[x] # "none" => stream'[x] # "none"
             /\ stream[x] = "closed" => stream'[x] = "closed"
             /\ runner'[x] = runner[x] \/ Active(x)
  <2>1. CASE ClearPartial(q) \/ LaunchFails(q)
    BY <2>1 DEF ClearPartial, LaunchFails, Stream, Active, TypeOK
  <2>2. CASE Launch(q)
    BY <2>2 DEF Launch, Stream, Active, TypeOK
  <2>3. CASE Receive(q)
    BY <2>3 DEF Receive, Stream, Active, TypeOK
  <2>4. CASE Sent(q) \/ Join(q) \/ Drained(q) \/ Save(q)
    BY <2>4 DEF Sent, Join, Drained, Save, Stream, Active, TypeOK
  <2>5. CASE CutClearing(q) \/ CutSending(q) \/ CutPolling(q) \/ CutWaiting(q)
    BY <2>5 DEF CutClearing, CutSending, CutPolling, CutWaiting, Stream, Active, TypeOK
  <2>6. CASE CancelRunner(q)
    BY <2>6 DEF CancelRunner, Runner, Active, TypeOK
  <2> QED
    BY <1>2, <2>1, <2>2, <2>3, <2>4, <2>5, <2>6 DEF Streaming, Disconnect
<1>3. ASSUME NEW q \in Queries, Running(q) \/ Persisting(q)
      PROVE  /\ chat' = chat /\ stream' = stream
             /\ Active(q)
             /\ x # q => runner'[x] = runner[x] /\ persist'[x] = persist[x]
  BY <1>3 DEF Running, Persisting, Begin, Answering, Token, Answered, Final, LLMError, Finish, Runner,
     PersistRead, PersistAppend, PersistFails, Persist, Active, TypeOK
<1>4. ASSUME \/ \E c \in Chats : Delete(c) \/ DropPartial(c) \/ ExpirePartial(c)
             \/ Shutdown \/ UNCHANGED vars
      PROVE  UNCHANGED <<chat, stream, runner, persist>>
  BY <1>4 DEF Delete, DropPartial, ExpirePartial, Shutdown, vars
<1>5. ASSUME NEW q \in Queries, Streaming(q) \/ Disconnect(q)
      PROVE  Active(x)' => Active(x)
  BY <1>2, <1>5 DEF Active
<1>6. ASSUME NEW q \in Queries, Running(q) \/ Persisting(q)
      PROVE  Active(x)' => Active(x)
  BY <1>3, <1>6 DEF Active
<1> QED
  BY <1>1, <1>2, <1>3, <1>4, <1>5, <1>6 DEF Next, Active

LEMMA MetMoves ==
    ASSUME [Next]_vars
    PROVE  met' = met \/ \E q \in Queries, c \in Chats : Start(q, c)
<1>1. ASSUME NEW q \in Queries, Streaming(q) \/ Disconnect(q) PROVE met' = met
  BY <1>1 DEF Streaming, ClearPartial, Launch, LaunchFails, Receive, Sent, Join, Drained, Save, Disconnect,
     CutClearing, CutSending, CutPolling, CutWaiting, CancelRunner
<1>2. ASSUME NEW q \in Queries, Running(q) \/ Persisting(q) PROVE met' = met
  BY <1>2 DEF Running, Begin, Answering, Token, Answered, Final, LLMError, Finish, Persisting, PersistRead,
     PersistAppend, PersistFails
<1>3. ASSUME \/ \E c \in Chats : Delete(c) \/ DropPartial(c) \/ ExpirePartial(c)
             \/ Shutdown \/ UNCHANGED vars
      PROVE  met' = met
  BY <1>3 DEF Delete, DropPartial, ExpirePartial, Shutdown, vars
<1> QED
  BY <1>1, <1>2, <1>3 DEF Next

\* Whoever begins while others are in progress is marked, and so are they.
LEMMA MetStep ==
    ASSUME TypeOK, [Next]_vars, MetAll
    PROVE  MetAll' /\ met \subseteq met'
<1>1. CASE \E q \in Queries, c \in Chats : Start(q, c)
  <2>1. PICK q \in Queries, c \in Chats : Start(q, c)
    BY <1>1
  <2>2. met' = IF InProgress = {} THEN met ELSE met \union InProgress \union {q}
    BY <2>1 DEF Start
  <2>3. \A x \in Queries : Active(x)' => x = q \/ x \in InProgress
    BY <2>1 DEF Start, Stream, Active, InProgress, TypeOK, runners, stores
  <2>4. CASE InProgress = {}
    BY <2>2, <2>3, <2>4 DEF MetAll
  <2>5. CASE InProgress # {}
    BY <2>2, <2>3, <2>5 DEF MetAll
  <2> QED
    BY <2>4, <2>5
<1>2. CASE ~ \E q \in Queries, c \in Chats : Start(q, c)
  BY <1>2, Wakes, MetMoves DEF MetAll
<1> QED
  BY <1>1, <1>2

\* The steps that touch the agent or a runner are of an active turn.
LEMMA ServesStep ==
    ASSUME TypeOK, [Next]_vars, NEW x \in Queries, Single(x), Serves(x)
    PROVE  Serves(x)'
<1> USE DEF agent, streams, runners, stores, removal
<1>0. Serves(x) /\ Together(x)
  BY DEF TypeOK, Together
<1>1. ASSUME NEW q \in Queries, NEW c \in Chats, Start(q, c) PROVE Serves(x)'
  BY <1>0, <1>1 DEF Start, Serves
<1>2. ASSUME NEW q \in Queries, Launch(q) PROVE Serves(x)'
  <2>1. Active(q) /\ persist[q] = "none" /\ runner[q] = "none"
    BY <1>2 DEF Launch, Stream, Active, TypeOK
  <2>2. CASE x = q
    BY <1>2, <2>1, <2>2 DEF Launch, Serves, TypeOK
  <2>3. CASE x # q
    BY <1>0, <1>2, <2>1, <2>3 DEF Launch, Serves, TypeOK, Single, Active
  <2> QED
    BY <2>2, <2>3
<1>3. ASSUME NEW q \in Queries, Running(q) \/ CancelRunner(q) PROVE Serves(x)'
  <2>1. Active(q) /\ runner[q] \notin {"none", "over"} /\ persist[q] = "none"
    BY <1>3 DEF Running, CancelRunner, Begin, Answering, Token, Answered, Final, LLMError, Finish, Runner,
       Active, TypeOK
  <2>2. CASE x # q
    <3>1. runner[x] \in {"none", "over"} /\ persist[x] \notin {"ready", "append"}
      BY <2>1, <2>2 DEF Single, Active
    <3>2. runner'[x] = runner[x] /\ persist'[x] = persist[x]
      BY <1>3, <2>2 DEF Running, CancelRunner, Begin, Answering, Token, Answered, Final, LLMError, Finish,
         Runner, TypeOK
    <3> QED
      BY <3>1, <3>2 DEF Serves
  <2>3. CASE x = q
    <3>1. CASE Begin(q)
      BY <1>0, <2>1, <2>3, <3>1 DEF Begin, Runner, Serves, TypeOK
    <3>2. CASE Answering(q)
      BY <1>0, <2>1, <2>3, <3>2 DEF Answering, Runner, Serves, TypeOK
    <3>3. CASE Token(q)
      BY <1>0, <2>1, <2>3, <3>3 DEF Token, Serves
    <3>4. CASE Answered(q)
      BY <1>0, <2>1, <2>3, <3>4 DEF Answered, Runner, Serves, TypeOK
    <3>5. CASE Final(q)
      BY <1>0, <2>1, <2>3, <3>5 DEF Final, Runner, Serves, TypeOK
    <3>6. CASE LLMError(q)
      BY <1>0, <2>1, <2>3, <3>6 DEF LLMError, Runner, Serves, TypeOK
    <3>7. CASE Finish(q)
      BY <1>0, <2>1, <2>3, <3>7 DEF Finish, Runner, Serves, TypeOK
    <3>8. CASE CancelRunner(q)
      BY <1>0, <2>1, <2>3, <3>8 DEF CancelRunner, Runner, Serves, TypeOK
    <3> QED
      BY <1>3, <3>1, <3>2, <3>3, <3>4, <3>5, <3>6, <3>7, <3>8 DEF Running
  <2> QED
    BY <2>2, <2>3
<1>4. ASSUME NEW q \in Queries, Persisting(q) PROVE Serves(x)'
  <2>1. CASE PersistRead(q)
    BY <1>0, <2>1 DEF PersistRead, Persist, Serves, TypeOK
  <2>2. CASE PersistAppend(q) \/ PersistFails(q)
    BY <1>0, <2>2 DEF PersistAppend, PersistFails, Persist, Serves, TypeOK
  <2> QED
    BY <1>4, <2>1, <2>2 DEF Persisting
<1>5. ASSUME UNCHANGED <<agent, runners, persist, held>> PROVE Serves(x)'
  BY <1>0, <1>5 DEF Serves
<1>6. ASSUME NEW q \in Queries,
             \/ ClearPartial(q) \/ LaunchFails(q) \/ Receive(q) \/ Sent(q) \/ Join(q) \/ Drained(q) \/ Save(q)
             \/ CutClearing(q) \/ CutSending(q) \/ CutPolling(q) \/ CutWaiting(q)
      PROVE  UNCHANGED <<agent, runners, persist, held>>
  BY <1>6 DEF ClearPartial, LaunchFails, Receive, Sent, Join, Drained, Save, CutClearing, CutSending, CutPolling,
     CutWaiting
<1>7. ASSUME \/ \E c \in Chats : Delete(c) \/ DropPartial(c) \/ ExpirePartial(c)
             \/ Shutdown \/ UNCHANGED vars
      PROVE  UNCHANGED <<agent, runners, persist, held>>
  BY <1>7 DEF Delete, DropPartial, ExpirePartial, Shutdown, vars
<1> QED
  BY <1>1, <1>2, <1>3, <1>4, <1>5, <1>6, <1>7 DEF Next, Streaming, Disconnect

\* A step of q finds x at rest; every other step gives x nothing of q.
LEMMA ApartStep ==
    ASSUME TypeOK, [Next]_vars, NEW q \in Queries, Single(q), NEW x \in Queries, x # q, Apart(x, q)
    PROVE  Apart(x, q)'
<1> USE DEF agent, streams, runners, stores, removal
<1>0. Together(x) /\ Together(q)
  BY DEF TypeOK, Together
<1>1. ASSUME NEW z \in Queries, NEW c \in Chats, Start(z, c) PROVE Apart(x, q)'
  BY <1>1 DEF Start, Apart
<1>2. ASSUME Launch(q) \/ Running(q) \/ Disconnect(q) \/ Persisting(q) PROVE Apart(x, q)'
  <2>1. Active(q)
    BY <1>2 DEF Launch, Running, Begin, Answering, Token, Answered, Final, LLMError, Finish, Disconnect,
       CutClearing, CutSending, CutPolling, CutWaiting, CancelRunner, Persisting, PersistRead, PersistAppend,
       PersistFails, Stream, Runner, Persist, Active, TypeOK
  <2>2. runner[x] \in {"none", "over"} /\ persist[x] \notin {"ready", "append"}
    BY <2>1 DEF Single, Active
  <2>3. runner'[x] = runner[x] /\ persist'[x] = persist[x]
    <3>1. CASE Launch(q) \/ Disconnect(q)
      BY <3>1 DEF Launch, Disconnect, CutClearing, CutSending, CutPolling, CutWaiting, CancelRunner, Runner, TypeOK
    <3>2. CASE Running(q)
      BY <3>2 DEF Running, Begin, Answering, Token, Answered, Final, LLMError, Finish, Runner, TypeOK
    <3>3. CASE Persisting(q)
      BY <3>3 DEF Persisting, PersistRead, PersistAppend, PersistFails, Persist, TypeOK
    <3> QED
      BY <1>2, <3>1, <3>2, <3>3
  <2> QED
    BY <2>2, <2>3 DEF Apart
<1>3. ASSUME NEW z \in Queries, z # q, Launch(z) PROVE Apart(x, q)'
  <2>1. callback' = z /\ last' = None /\ UNCHANGED <<captured, persist, held>>
    BY <1>3 DEF Launch
  <2>2. runner'[x] = "tokens" => runner[x] = "tokens"
    BY <1>3 DEF Launch, TypeOK
  <2> QED
    BY <1>3, <2>1, <2>2 DEF Apart
<1>4. ASSUME NEW z \in Queries, z # q, Begin(z) \/ Final(z) PROVE Apart(x, q)'
  <2>1. last'.of = z /\ UNCHANGED <<callback, captured, persist, held>>
    BY <1>4 DEF Begin, Final
  <2>2. /\ runner'[x] \notin {"none", "over"} => runner[x] \notin {"none", "over"}
        /\ runner'[x] = "tokens" => runner[x] = "tokens"
    BY <1>4 DEF Begin, Final, Runner, TypeOK
  <2> QED
    BY <1>4, <2>1, <2>2 DEF Apart
<1>5. ASSUME NEW z \in Queries, Answering(z) PROVE Apart(x, q)'
  <2>1. CASE z = x
    <3>1. runner[x] = "asked" /\ runner'[x] = "tokens" /\ captured'[x] = callback /\ UNCHANGED <<agent, persist, held>>
      BY <1>5, <2>1 DEF Answering, Runner, TypeOK
    <3> QED
      BY <3>1 DEF Apart
  <2>2. CASE z # x
    <3>1. runner'[x] = runner[x] /\ captured'[x] = captured[x] /\ UNCHANGED <<agent, persist, held>>
      BY <1>5, <2>2 DEF Answering, Runner, TypeOK
    <3> QED
      BY <3>1 DEF Apart
  <2> QED
    BY <2>1, <2>2
<1>6. ASSUME NEW z \in Queries, Token(z) \/ Answered(z) \/ LLMError(z) \/ CancelRunner(z) PROVE Apart(x, q)'
  <2>1. UNCHANGED <<last, callback, captured, persist, held>>
    BY <1>6 DEF Token, Answered, LLMError, CancelRunner
  <2>2. /\ runner'[x] \notin {"none", "over"} => runner[x] \notin {"none", "over"}
        /\ runner'[x] = "tokens" => runner[x] = "tokens"
    <3>1. CASE Token(z) \/ Answered(z)
      BY <3>1 DEF Token, Answered, Runner, TypeOK
    <3>2. CASE LLMError(z) \/ CancelRunner(z)
      BY <3>2 DEF LLMError, CancelRunner, Runner, TypeOK
    <3> QED
      BY <1>6, <3>1, <3>2
  <2> QED
    BY <2>1, <2>2 DEF Apart
<1>7. ASSUME NEW z \in Queries, Finish(z) PROVE Apart(x, q)'
  <2>1. UNCHANGED <<agent, captured, held>>
    BY <1>7 DEF Finish
  <2>2. /\ runner'[x] \notin {"none", "over"} => runner[x] \notin {"none", "over"}
        /\ runner'[x] = "tokens" => runner[x] = "tokens"
    BY <1>7 DEF Finish, Runner, TypeOK
  <2>3. /\ persist'[x] = "ready" => persist[x] = "ready" \/ runner[x] = "finish"
        /\ persist'[x] = "append" => persist[x] = "append"
    BY <1>7 DEF Finish, Runner, TypeOK
  <2> QED
    BY <2>1, <2>2, <2>3 DEF Apart
<1>8. ASSUME NEW z \in Queries, PersistRead(z) PROVE Apart(x, q)'
  <2>1. UNCHANGED <<agent, runner, captured>>
    BY <1>8 DEF PersistRead
  <2>2. CASE z = x
    <3>1. /\ persist[x] = "ready" /\ persist'[x] = (IF last = None THEN "lost" ELSE "append") /\ held'[x] = last
      BY <1>8, <2>2 DEF PersistRead, Persist, TypeOK
    <3> QED
      BY <2>1, <3>1 DEF Apart
  <2>3. CASE z # x
    <3>1. persist'[x] = persist[x] /\ held'[x] = held[x]
      BY <1>8, <2>3 DEF PersistRead, Persist, TypeOK
    <3> QED
      BY <2>1, <3>1 DEF Apart
  <2> QED
    BY <2>2, <2>3
<1>9. ASSUME NEW z \in Queries, PersistAppend(z) \/ PersistFails(z) PROVE Apart(x, q)'
  <2>1. UNCHANGED <<agent, runner, captured, held>>
    BY <1>9 DEF PersistAppend, PersistFails
  <2>2. persist'[x] \in {persist[x], "done", "lost"}
    BY <1>9 DEF PersistAppend, PersistFails, Persist, TypeOK
  <2> QED
    BY <2>1, <2>2 DEF Apart
<1>10. ASSUME UNCHANGED <<agent, runners, persist, held>> PROVE Apart(x, q)'
  BY <1>10 DEF Apart
<1>11. ASSUME NEW z \in Queries,
              \/ ClearPartial(z) \/ LaunchFails(z) \/ Receive(z) \/ Sent(z) \/ Join(z) \/ Drained(z) \/ Save(z)
              \/ CutClearing(z) \/ CutSending(z) \/ CutPolling(z) \/ CutWaiting(z)
       PROVE  UNCHANGED <<agent, runners, persist, held>>
  BY <1>11 DEF ClearPartial, LaunchFails, Receive, Sent, Join, Drained, Save, CutClearing, CutSending, CutPolling,
     CutWaiting
<1>12. ASSUME \/ \E c \in Chats : Delete(c) \/ DropPartial(c) \/ ExpirePartial(c)
              \/ Shutdown \/ UNCHANGED vars
       PROVE  UNCHANGED <<agent, runners, persist, held>>
  BY <1>12 DEF Delete, DropPartial, ExpirePartial, Shutdown, vars
<1>13. ASSUME NEW z \in Queries, Streaming(z) \/ Disconnect(z) PROVE Apart(x, q)'
  BY <1>2, <1>3, <1>6, <1>10, <1>11, <1>13 DEF Streaming, Disconnect
<1>14. ASSUME NEW z \in Queries, Running(z) \/ Persisting(z) PROVE Apart(x, q)'
  BY <1>2, <1>4, <1>5, <1>6, <1>7, <1>8, <1>9, <1>14 DEF Running, Persisting
<1> QED
  BY <1>1, <1>10, <1>12, <1>13, <1>14 DEF Next

LEMMA OwnJoined ==
    ASSUME NEW s \in Seq(Event), NEW t \in Seq(Event), NEW q \in Queries, OwnEvents(s, q), OwnEvents(t, q)
    PROVE  OwnEvents(s \o t, q)
BY DEF OwnEvents

LEMMA OwnAppended ==
    ASSUME NEW s \in Seq(Event), NEW e \in Event, NEW q \in Queries, OwnEvents(s, q), e.of = {q}
    PROVE  OwnEvents(Append(s, e), q)
BY DEF OwnEvents

LEMMA HeadTyped == ASSUME NEW s \in Seq(Event), s # <<>> PROVE Head(s) \in Event
OBVIOUS

LEMMA OwnTail ==
    ASSUME NEW s \in Seq(Event), NEW q \in Queries, OwnEvents(s, q), s # <<>>
    PROVE  Head(s) \in Event /\ Head(s).of = {q} /\ OwnEvents(Tail(s), q)
<1>1. Head(s) = s[1] /\ 1 \in DOMAIN s /\ Len(s) \in Nat /\ Len(s) > 0
  OBVIOUS
<1>2. \A i \in DOMAIN Tail(s) : i + 1 \in DOMAIN s /\ Tail(s)[i] = s[i + 1]
  OBVIOUS
<1> QED
  BY <1>1, <1>2 DEF OwnEvents

LEMMA OwnEmitted ==
    ASSUME queue \in [Queries -> Seq(Event)], NEW q \in Queries, NEW es \in Seq(Event),
           NEW x \in Queries, OwnEvents(queue[x], x), q = x => OwnEvents(es, x), queue' = [queue EXCEPT ![q] = @ \o es]
    PROVE  OwnEvents(queue[x], x)'
<1>1. CASE q = x
  <2>1. OwnEvents(queue[x] \o es, x)
    BY <1>1, OwnJoined
  <2> QED
    BY <1>1, <2>1
<1>2. CASE q # x
  BY <1>2
<1> QED
  BY <1>1, <1>2

LEMMA OwnShown ==
    ASSUME shown \in [Queries -> Seq(Event)], NEW q \in Queries, NEW e \in Event,
           NEW x \in Queries, OwnEvents(shown[x], x), q = x => e.of = {x}, shown' = [shown EXCEPT ![q] = Append(@, e)]
    PROVE  OwnEvents(shown[x], x)'
<1>1. CASE q = x
  <2>1. OwnEvents(Append(shown[x], e), x)
    BY <1>1, OwnAppended
  <2> QED
    BY <1>1, <2>1
<1>2. CASE q # x
  BY <1>2
<1> QED
  BY <1>1, <1>2

\* What is emitted to a turn that meets no other is of it, and what is shown was in its queue.
LEMMA EventsStep ==
    ASSUME TypeOK, [Next]_vars, NEW x \in Queries, Serves(x), \A q \in Queries \ {x} : Apart(q, x),
           OwnEvents(queue[x], x), OwnEvents(shown[x], x)
    PROVE  OwnEvents(queue[x], x)' /\ OwnEvents(shown[x], x)'
<1> USE DEF agent, streams, runners, stores, removal
<1>0. \A q \in Queries : /\ Ev("token", {q}) \in Event /\ Ev("error", {q}) \in Event /\ Ev("usage", {q}) \in Event
                         /\ Ev("done", {q}) \in Event /\ Ev("sentinel", {q}) \in Event
                         /\ Ev("error", {q}).of = {q}
                         /\ OwnEvents(<<Ev("token", {q})>>, q) /\ OwnEvents(<<Ev("usage", {q})>>, q)
                         /\ OwnEvents(<<Ev("done", {q}), Ev("sentinel", {q})>>, q)
  BY DEF Ev, Event, OwnEvents
<1>1. /\ queue \in [Queries -> Seq(Event)] /\ shown \in [Queries -> Seq(Event)]
      /\ \A q \in Queries : Together(q)
  BY DEF TypeOK, Together
<1>2. ASSUME NEW q \in Queries, Token(q) PROVE OwnEvents(queue[x], x)'
  <2>1. captured[q] \in Queries /\ (q = x <=> captured[q] = x)
    BY <1>2 DEF Token, Serves, Apart, TypeOK
  <2>2. queue' = [queue EXCEPT ![captured[q]] = @ \o <<Ev("token", {q})>>]
    BY <1>2 DEF Token, Emit
  <2>3. captured[q] = x => OwnEvents(<<Ev("token", {q})>>, x)
    BY <1>0, <2>1
  <2> QED
    BY <1>1, <2>1, <2>2, <2>3, OwnEmitted, EventTypes
<1>3. ASSUME NEW q \in Queries, Answered(q) PROVE OwnEvents(queue[x], x)'
  <2>1. callback \in Queries /\ (q = x <=> callback = x) /\ (q = x => usage' = {x}) /\ usage' \in SUBSET Queries
    BY <1>3 DEF Answered, Runner, Serves, Apart, TypeOK
  <2>2. queue' = [queue EXCEPT ![callback] = @ \o <<Ev("usage", usage')>>]
    BY <1>3 DEF Answered, Emit
  <2>3. callback = x => OwnEvents(<<Ev("usage", usage')>>, x)
    BY <1>0, <2>1
  <2>4. <<Ev("usage", usage')>> \in Seq(Event)
    BY <2>1, EventTypes
  <2> QED
    BY <1>1, <2>1, <2>2, <2>3, <2>4, OwnEmitted
<1>4. ASSUME NEW q \in Queries, Finish(q) PROVE OwnEvents(queue[x], x)'
  <2>1. queue' = [queue EXCEPT ![q] = @ \o <<Ev("done", {q}), Ev("sentinel", {q})>>]
    BY <1>4 DEF Finish, Emit
  <2> QED
    BY <1>0, <1>1, <2>1, OwnEmitted, EventTypes
<1>5. ASSUME NEW q \in Queries, Receive(q)
      PROVE  OwnEvents(queue[x], x)' /\ OwnEvents(shown[x], x)'
  <2>1. queue[q] \in Seq(Event) /\ queue[q] # <<>>
    BY <1>1, <1>5 DEF Receive
  <2>2. /\ Head(queue[q]) \in Event
        /\ q = x => Head(queue[q]).of = {x} /\ OwnEvents(Tail(queue[q]), x)
    BY <2>1, OwnTail, HeadTyped
  <2>3. queue' = [queue EXCEPT ![q] = Tail(@)]
    BY <1>5 DEF Receive
  <2>4. shown' = shown \/ shown' = [shown EXCEPT ![q] = Append(@, Head(queue[q]))]
    BY <1>5 DEF Receive, Show
  <2>5. OwnEvents(queue[x], x)'
    BY <1>1, <2>2, <2>3
  <2>6. OwnEvents(shown[x], x)'
    BY <1>1, <2>2, <2>4, OwnShown
  <2> QED
    BY <2>5, <2>6
<1>6. ASSUME NEW q \in Queries, LaunchFails(q) \/ Join(q) PROVE OwnEvents(shown[x], x)'
  <2>1. shown' = shown \/ shown' = [shown EXCEPT ![q] = Append(@, Ev("error", {q}))]
    BY <1>6 DEF LaunchFails, Join, Show
  <2> QED
    BY <1>0, <1>1, <2>1, OwnShown
<1>7. ASSUME UNCHANGED queue PROVE OwnEvents(queue[x], x)'
  BY <1>7
<1>8. ASSUME UNCHANGED shown PROVE OwnEvents(shown[x], x)'
  BY <1>8
<1>9. \/ UNCHANGED <<queue, shown>>
      \/ \E q \in Queries : \/ (Token(q) \/ Answered(q) \/ Finish(q)) /\ UNCHANGED shown
                            \/ Receive(q)
                            \/ (LaunchFails(q) \/ Join(q)) /\ UNCHANGED queue
  <2>1. ASSUME NEW q \in Queries, Streaming(q) \/ Disconnect(q)
        PROVE  \/ UNCHANGED <<queue, shown>> \/ Receive(q)
               \/ (LaunchFails(q) \/ Join(q)) /\ UNCHANGED queue
    BY <2>1 DEF Streaming, Disconnect, ClearPartial, Launch, LaunchFails, Sent, Join, Drained, Save, CutClearing,
       CutSending, CutPolling, CutWaiting, CancelRunner
  <2>2. ASSUME NEW q \in Queries, Running(q) \/ Persisting(q) \/ \E c \in Chats : Start(q, c)
        PROVE  \/ UNCHANGED <<queue, shown>>
               \/ (Token(q) \/ Answered(q) \/ Finish(q)) /\ UNCHANGED shown
    BY <2>2 DEF Running, Persisting, Begin, Answering, Token, Answered, Final, LLMError, Finish, PersistRead,
       PersistAppend, PersistFails, Start
  <2>3. ASSUME \/ \E c \in Chats : Delete(c) \/ DropPartial(c) \/ ExpirePartial(c)
               \/ Shutdown \/ UNCHANGED vars
        PROVE  UNCHANGED <<queue, shown>>
    BY <2>3 DEF Delete, DropPartial, ExpirePartial, Shutdown, vars
  <2> QED
    BY <2>1, <2>2, <2>3 DEF Next
<1> QED
  BY <1>2, <1>3, <1>4, <1>5, <1>6, <1>7, <1>8, <1>9

\* A row of a turn that meets no other is appended by it, once, and to its chat.
LEMMA RowsStep ==
    ASSUME TypeOK, [Next]_vars, met \subseteq met',
           \A x \in Queries \ met : Serves(x) /\ \A y \in Queries \ {x} : Apart(y, x),
           NEW c \in Chats, OwnRows(c)
    PROVE  OwnRows(c)'
<1> USE DEF agent, streams, runners, stores, removal
<1>0. /\ log \in [Chats -> Seq(Turn)] /\ persist \in [Queries -> {"none", "ready", "append", "done", "lost"}]
      /\ held \in [Queries -> Turn \union {None}]
      /\ \A x \in Queries : Together(x)
  BY DEF TypeOK, Together
<1>1. \A i \in DOMAIN log[c] : log[c][i].of \in Queries
  <2>1. \A i \in DOMAIN log[c] : log[c][i] \in Turn
    BY <1>0
  <2> QED
    BY <2>1 DEF Turn
<1>2. \A x \in Queries : persist[x] = "done" => chat'[x] = chat[x]
  BY <1>0, Wakes DEF Together
<1>3. ASSUME NEW q \in Queries, PersistAppend(q) PROVE OwnRows(c)'
  <2>1. /\ persist[q] = "append" /\ persist' = [persist EXCEPT ![q] = "done"] /\ chat' = chat /\ met' = met
        /\ log' = [log EXCEPT ![chat[q]] = Append(@, held[q])]
    BY <1>3 DEF PersistAppend, Persist
  <2>2. held[q] \in Turn /\ held[q].of \in Queries
    BY <1>0, <2>1 DEF Together, Turn
  <2>3. held[q].of \in met \/ held[q].of = q
    BY <2>1, <2>2 DEF Serves, Apart
  <2>4. \A i \in DOMAIN log[c] : log[c][i].of # q \/ q \in met
    BY <2>1 DEF OwnRows
  <2>5. CASE chat[q] = c
    <3> DEFINE s == log[c]
    <3>1. s \in Seq(Turn) /\ log'[c] = Append(s, held[q])
      BY <1>0, <2>1, <2>5
    <3>2. /\ DOMAIN log'[c] = DOMAIN s \union {Len(s) + 1}
          /\ Len(s) + 1 \notin DOMAIN s
          /\ log'[c][Len(s) + 1] = held[q]
          /\ \A i \in DOMAIN s : log'[c][i] = s[i]
      BY <2>2, <3>1
    <3>3. \A i \in DOMAIN log'[c] : \/ log'[c][i].of \in met
                                    \/ chat'[log'[c][i].of] = c /\ persist'[log'[c][i].of] = "done"
      <4>1. ASSUME NEW i \in DOMAIN s
            PROVE  s[i].of \in met \/ (chat'[s[i].of] = c /\ persist'[s[i].of] = "done")
        BY <1>0, <1>1, <2>1, <2>4 DEF OwnRows
      <4>2. held[q].of \in met \/ (chat'[held[q].of] = c /\ persist'[held[q].of] = "done")
        BY <1>0, <2>1, <2>3, <2>5
      <4> QED
        BY <3>2, <4>1, <4>2
    <3>4. \A i, j \in DOMAIN log'[c] : log'[c][i].of = log'[c][j].of => i = j \/ log'[c][i].of \in met
      BY <2>3, <2>4, <3>2 DEF OwnRows
    <3> QED
      BY <2>1, <3>3, <3>4 DEF OwnRows
  <2>6. CASE chat[q] # c
    <3>1. log'[c] = log[c]
      BY <1>0, <2>1, <2>6
    <3> QED
      BY <1>0, <1>1, <2>1, <2>4, <3>1 DEF OwnRows
  <2> QED
    BY <2>5, <2>6
<1>4. ASSUME NEW d \in Chats, Delete(d) PROVE OwnRows(c)'
  <2>1. log'[c] = <<>> \/ log'[c] = log[c]
    BY <1>0, <1>4 DEF Delete
  <2>2. persist' = persist /\ chat' = chat
    BY <1>4 DEF Delete
  <2>3. met' = met
    BY <1>4 DEF Delete
  <2> QED
    BY <2>1, <2>2, <2>3 DEF OwnRows
<1>5. ASSUME log' = log, \A x \in Queries : persist[x] = "done" => persist'[x] = "done" PROVE OwnRows(c)'
  BY <1>0, <1>1, <1>2, <1>5 DEF OwnRows
<1>6. ASSUME NEW q \in Queries, Finish(q) \/ PersistRead(q) \/ PersistFails(q)
      PROVE  log' = log /\ \A x \in Queries : persist[x] = "done" => persist'[x] = "done"
  <2>1. CASE Finish(q)
    BY <1>0, <2>1 DEF Finish, Runner, Together
  <2>2. CASE PersistRead(q) \/ PersistFails(q)
    BY <1>0, <2>2 DEF PersistRead, PersistFails, Persist
  <2> QED
    BY <1>6, <2>1, <2>2
<1>7. \/ log' = log /\ persist' = persist
      \/ \E q \in Queries : Finish(q) \/ PersistRead(q) \/ PersistFails(q) \/ PersistAppend(q)
      \/ \E d \in Chats : Delete(d)
  <2>1. ASSUME NEW q \in Queries, Streaming(q) \/ Disconnect(q) PROVE log' = log /\ persist' = persist
    BY <2>1 DEF Streaming, Disconnect, ClearPartial, Launch, LaunchFails, Receive, Sent, Join, Drained, Save,
       CutClearing, CutSending, CutPolling, CutWaiting, CancelRunner
  <2>2. ASSUME NEW q \in Queries, Running(q) \/ Persisting(q) \/ \E d \in Chats : Start(q, d)
        PROVE  \/ log' = log /\ persist' = persist
               \/ Finish(q) \/ PersistRead(q) \/ PersistFails(q) \/ PersistAppend(q)
    BY <2>2 DEF Running, Persisting, Begin, Answering, Token, Answered, Final, LLMError, Start
  <2>3. ASSUME \/ \E d \in Chats : DropPartial(d) \/ ExpirePartial(d)
               \/ Shutdown \/ UNCHANGED vars
        PROVE  log' = log /\ persist' = persist
    BY <2>3 DEF DropPartial, ExpirePartial, Shutdown, vars
  <2> QED
    BY <2>1, <2>2, <2>3 DEF Next
<1> QED
  BY <1>3, <1>4, <1>5, <1>6, <1>7

\* A deleted turn at rest stays at rest, so it is not appended and saves no partial again.
LEMMA GoneStep ==
    ASSUME TypeOK, [Next]_vars, met \subseteq met', \A x \in Queries : Unasked(x),
           \A x \in Queries \ met : \A y \in Queries \ {x} : Apart(y, x),
           NEW c \in Chats, Gone(c)
    PROVE  Gone(c)'
<1> USE DEF agent, streams, runners, stores, removal
<1>0. /\ log \in [Chats -> Seq(Turn)] /\ gone \in [Chats -> SUBSET Queries]
      /\ partial \in [Chats -> Queries \union {None}] /\ chat \in [Queries -> Chats \union {None}]
      /\ None \notin Queries /\ \A x \in Queries : Together(x)
      /\ gone[c] \subseteq Queries
  BY ChatTurnAssumption DEF TypeOK, Together
<1>1. \A x \in gone[c] : AtRest(x) /\ chat[x] = c
  BY DEF Gone
<1>2. \A x \in gone[c] : AtRest(x)' /\ chat'[x] = c
  BY <1>0, <1>1, Wakes DEF AtRest, Start, Stream
<1>3. ASSUME NEW q \in Queries, PersistAppend(q) PROVE Gone(c)'
  <2>1. /\ persist[q] = "append" /\ log' = [log EXCEPT ![chat[q]] = Append(@, held[q])]
        /\ UNCHANGED <<gone, partial, dropping>>
    BY <1>3 DEF PersistAppend, Persist
  <2>2. held[q] \in Turn /\ (held[q].of \in met \/ held[q].of = q)
    <3>1. held[q] \in Turn
      BY <2>1 DEF TypeOK
    <3>2. held[q].of \in Queries
      BY <3>1 DEF Turn
    <3> QED
      BY <2>1, <3>1, <3>2 DEF Apart
  <2>3. q \notin gone[c]
    BY <1>1, <2>1 DEF AtRest, Active
  <2>4. log[c] \in Seq(Turn) /\ (log'[c] = log[c] \/ log'[c] = Append(log[c], held[q]))
    BY <1>0, <2>1
  <2>5. \A i \in DOMAIN log'[c] : log'[c][i].of \notin gone[c] \/ log'[c][i].of \in met
    BY <2>2, <2>3, <2>4 DEF Gone
  <2> QED
    BY <1>2, <2>1, <2>5 DEF Gone
<1>4. ASSUME NEW d \in Chats, Delete(d) PROVE Gone(c)'
  <2>1. CASE c = d
    <3>1. /\ log'[c] = <<>> /\ c \in dropping' /\ UNCHANGED <<stream, runner, persist, chat>>
          /\ gone'[c] = {x \in Queries : chat[x] = c /\ ~Active(x)}
      BY <1>0, <1>4, <2>1 DEF Delete
    <3>2. \A x \in gone'[c] : chat'[x] = c /\ AtRest(x)'
      <4> SUFFICES ASSUME NEW x \in gone'[c] PROVE chat'[x] = c /\ AtRest(x)'
        OBVIOUS
      <4>1. x \in Queries /\ chat[x] = c /\ ~Active(x)
        BY <3>1
      <4>2. stream[x] # "none"
        BY <4>1, ChatTurnAssumption DEF Unasked
      <4> QED
        BY <3>1, <4>1, <4>2 DEF AtRest, Active
    <3> QED
      BY <3>1, <3>2 DEF Gone
  <2>2. CASE c # d
    BY <1>0, <1>2, <1>4, <2>2 DEF Delete, Gone
  <2> QED
    BY <2>1, <2>2
<1>5. ASSUME NEW d \in Chats, DropPartial(d) PROVE Gone(c)'
  <2>1. /\ log' = log /\ gone'[c] \subseteq gone[c]
        /\ c # d => gone'[c] = gone[c] /\ partial'[c] = partial[c] /\ (c \in dropping <=> c \in dropping')
        /\ c = d => partial'[c] = None \/ (partial' = partial /\ gone'[c] = gone[c] \ {partial[c]})
    BY <1>0, <1>5 DEF DropPartial
  <2> QED
    BY <1>0, <1>2, <2>1 DEF Gone
<1>6. ASSUME UNCHANGED <<log, gone, dropping>>, partial'[c] \in {partial[c], None} PROVE Gone(c)'
  BY <1>0, <1>2, <1>6 DEF Gone
<1>7. ASSUME NEW q \in Queries, Save(q) PROVE Gone(c)'
  <2>1. UNCHANGED <<log, gone, dropping>> /\ Active(q)
    BY <1>7 DEF Save, Stream, Active
  <2>2. q \notin gone[c]
    BY <1>1, <2>1 DEF AtRest
  <2>3. partial'[c] \in {partial[c], q}
    BY <1>0, <1>7 DEF Save
  <2> QED
    BY <1>2, <2>1, <2>2, <2>3 DEF Gone
<1>8. ASSUME NEW q \in Queries, ClearPartial(q) \/ CutClearing(q) PROVE Gone(c)'
  <2>1. UNCHANGED <<log, gone, dropping>> /\ partial'[c] \in {partial[c], None}
    BY <1>0, <1>8 DEF ClearPartial, CutClearing
  <2> QED
    BY <1>6, <2>1
<1>9. ASSUME NEW d \in Chats, ExpirePartial(d) PROVE Gone(c)'
  <2>1. UNCHANGED <<log, gone, dropping>> /\ partial'[c] \in {partial[c], None}
    BY <1>0, <1>9 DEF ExpirePartial
  <2> QED
    BY <1>6, <2>1
<1>10. \/ UNCHANGED <<log, gone, dropping, partial>>
       \/ \E q \in Queries : PersistAppend(q) \/ Save(q) \/ ClearPartial(q) \/ CutClearing(q)
       \/ \E d \in Chats : Delete(d) \/ DropPartial(d) \/ ExpirePartial(d)
  <2>1. ASSUME NEW q \in Queries, Streaming(q) \/ Disconnect(q)
        PROVE  UNCHANGED <<log, gone, dropping, partial>> \/ Save(q) \/ ClearPartial(q) \/ CutClearing(q)
    BY <2>1 DEF Streaming, Disconnect, Launch, LaunchFails, Receive, Sent, Join, Drained, CutSending, CutPolling,
       CutWaiting, CancelRunner
  <2>2. ASSUME NEW q \in Queries, Running(q) \/ Persisting(q) \/ \E d \in Chats : Start(q, d)
        PROVE  UNCHANGED <<log, gone, dropping, partial>> \/ PersistAppend(q)
    BY <2>2 DEF Running, Persisting, Begin, Answering, Token, Answered, Final, LLMError, Finish, PersistRead,
       PersistFails, Start
  <2>3. ASSUME Shutdown \/ UNCHANGED vars
        PROVE  UNCHANGED <<log, gone, dropping, partial>>
    BY <2>3 DEF Shutdown, vars
  <2> QED
    BY <2>1, <2>2, <2>3 DEF Next
<1> QED
  BY <1>3, <1>4, <1>5, <1>6, <1>7, <1>8, <1>9, <1>10

\* Whoever met another is marked, and the agent serves whoever is not.
Isolation ==
    /\ TypeOK /\ MetAll
    /\ \A q \in Queries \ met : /\ Serves(q) /\ \A x \in Queries \ {q} : Apart(x, q)
                                /\ OwnEvents(queue[q], q) /\ OwnEvents(shown[q], q)
    /\ \A q \in Queries : Unasked(q)
    /\ \A c \in Chats : OwnRows(c) /\ Gone(c)

LEMMA IsolationStep == ASSUME Isolation, [Next]_vars PROVE Isolation'
<1>1. TypeOK /\ MetAll /\ TypeOK' /\ MetAll' /\ met \subseteq met'
  BY TypeStep, MetStep DEF Isolation
<1>2. ASSUME NEW q \in Queries \ met'
      PROVE  /\ Serves(q)' /\ \A x \in Queries \ {q} : Apart(x, q)'
             /\ OwnEvents(queue[q], q)' /\ OwnEvents(shown[q], q)'
  <2>1. q \in Queries \ met /\ Single(q)
    BY <1>1, <1>2 DEF MetAll, Single
  <2>2. /\ Serves(q) /\ \A x \in Queries \ {q} : Apart(x, q)
        /\ OwnEvents(queue[q], q) /\ OwnEvents(shown[q], q)
    BY <2>1 DEF Isolation
  <2>3. Serves(q)'
    BY <1>1, <2>1, <2>2, ServesStep
  <2>4. \A x \in Queries \ {q} : Apart(x, q)'
    BY <1>1, <2>1, <2>2, ApartStep
  <2>5. OwnEvents(queue[q], q)' /\ OwnEvents(shown[q], q)'
    BY <1>1, <2>1, <2>2, EventsStep
  <2> QED
    BY <2>3, <2>4, <2>5
<1>3. \A q \in Queries : Unasked(q)'
  BY <1>1, Wakes DEF Isolation, Unasked
<1>4. \A c \in Chats : OwnRows(c)'
  BY <1>1, RowsStep DEF Isolation
<1>5. \A c \in Chats : Gone(c)'
  BY <1>1, GoneStep DEF Isolation
<1> QED
  BY <1>1, <1>2, <1>3, <1>4, <1>5 DEF Isolation

LEMMA Isolated == Spec => []Isolation
<1>1. Init => Isolation
  <2> SUFFICES ASSUME Init PROVE Isolation
    OBVIOUS
  <2>1. TypeOK
    BY ChatTurnAssumption DEF Init, TypeOK
  <2>2. MetAll /\ \A q \in Queries : Serves(q) /\ OwnEvents(queue[q], q) /\ OwnEvents(shown[q], q)
    BY DEF Init, MetAll, Active, Serves, OwnEvents
  <2>3. \A x, q \in Queries : Apart(x, q)
    BY ChatTurnAssumption DEF Init, Apart
  <2>4. (\A q \in Queries : Unasked(q)) /\ \A c \in Chats : OwnRows(c) /\ Gone(c)
    BY ChatTurnAssumption DEF Init, Unasked, OwnRows, Gone
  <2> QED
    BY <2>1, <2>2, <2>3, <2>4 DEF Isolation
<1>2. Isolation /\ [Next]_vars => Isolation'
  BY IsolationStep
<1> QED
  BY <1>1, <1>2, PTL DEF Spec

\* Every event of a stream and every stored turn of a query that met no other is of the query
\* that asked, and it is not stored twice, whatever fails or is cancelled, and whoever
\* overlapped before it or overlaps after it.
THEOREM TurnsAreOwn == Spec => []OwnUnlessMet
<1>1. Isolation => OwnUnlessMet
  BY DEF Isolation, OwnUnlessMet, OwnEvents, OwnRows, InSeq
<1> QED
  BY <1>1, Isolated, PTL

\* What was over when its chat was deleted does not come back, however turns overlap: its
\* partial never, its turn not if it met no other.
THEOREM GoneStaysGone == Spec => []DeletedStaysGone
<1>1. Isolation => DeletedStaysGone
  BY DEF Isolation, DeletedStaysGone, Gone, InSeq
<1> QED
  BY <1>1, Isolated, PTL

\* Where a pod admits one turn at a time nobody meets another, and the promise of main.py:19-22
\* holds of every turn.
THEOREM PromiseKept == MaxActive = 1 /\ IsFiniteSet(Queries) => (Spec => []OwnTurnsOnly)
<1> SUFFICES ASSUME MaxActive = 1, IsFiniteSet(Queries) PROVE Spec => []OwnTurnsOnly
  OBVIOUS
<1>1. Init => met = {}
  BY DEF Init
<1>2. met = {} /\ [Next]_vars => (met = {})'
  <2> SUFFICES ASSUME met = {}, [Next]_vars PROVE met' = {}
    OBVIOUS
  <2>1. ASSUME NEW q \in Queries, NEW c \in Chats, Start(q, c) PROVE met' = {}
    <3>1. Cardinality(InProgress) < 1 /\ InProgress \subseteq Queries
      BY <2>1 DEF Start, InProgress
    <3>2. IsFiniteSet(InProgress) /\ Cardinality(InProgress) \in Nat
      BY <3>1, FS_Subset, FS_CardinalityType
    <3>3. InProgress = {}
      BY <3>1, <3>2, FS_EmptySet
    <3> QED
      BY <2>1, <3>3 DEF Start
  <2> QED
    BY <2>1, MetMoves
<1>3. Isolation /\ met = {} => OwnTurnsOnly
  BY DEF Isolation, OwnTurnsOnly, OwnEvents, OwnRows, InSeq
<1> QED
  BY <1>1, <1>2, <1>3, Isolated, PTL DEF Spec

-------------------------------------------------------------------------------
\* The end of a stream, however turns overlap.  A queue gets one done and one sentinel, from
\* its own runner, next to each other; the stream reads up to the sentinel.

Dones(s) == {i \in DOMAIN s : s[i].type = "done"}
Sentinels(s) == {i \in DOMAIN s : s[i].type = "sentinel"}

\* What is still to come once the runner is over: done and then the sentinel, or, if done
\* was the last event shown, the sentinel next.
Pending(q) ==
    \/ /\ Dones(shown[q]) = {}
       /\ \E k \in DOMAIN queue[q] :
             Dones(queue[q]) = {k} /\ Sentinels(queue[q]) = {k + 1}
    \/ /\ Dones(shown[q]) = {Len(shown[q])}
       /\ Dones(queue[q]) = {} /\ Sentinels(queue[q]) = {1}

Ends(q) ==
    /\ runner[q] # "over" => /\ Dones(queue[q]) = {} /\ Sentinels(queue[q]) = {}
                             /\ Dones(shown[q]) = {}
    /\ stream[q] # "closed" => Dones(shown[q]) \subseteq {Len(shown[q])}
    /\ runner[q] = "over" /\ stream[q] \in {"next", "sent"} => Pending(q)
    /\ stream[q] = "join" => runner[q] = "over" /\ Dones(shown[q]) = {Len(shown[q])}
    /\ stream[q] \in {"drain", "save"} => cut[q]
    /\ stream[q] = "closed" =>
          \E k \in {Len(shown[q]) - 1, Len(shown[q])} : Dones(shown[q]) \subseteq {k}
    /\ stream[q] = "closed" /\ ~cut[q] /\ runner[q] # "none" =>
          /\ runner[q] = "over"
          /\ Dones(shown[q]) = {IF failed[q] THEN Len(shown[q]) - 1 ELSE Len(shown[q])}

LEMMA LenAppended ==
    ASSUME NEW s \in Seq(Event), NEW e \in Event
    PROVE  /\ Append(s, e) = s \o <<e>> /\ Append(s, e) \in Seq(Event)
           /\ Len(s) \in Nat /\ Len(Append(s, e)) = Len(s) + 1
           /\ DOMAIN Append(s, e) = DOMAIN s \union {Len(s) + 1}
           /\ \A i \in DOMAIN s : Append(s, e)[i] = s[i]
           /\ Append(s, e)[Len(s) + 1] = e
OBVIOUS

LEMMA OtherAppended ==
    ASSUME NEW s \in Seq(Event), NEW e \in Event
    PROVE  /\ e.type # "done" => Dones(Append(s, e)) = Dones(s)
           /\ e.type # "sentinel" => Sentinels(Append(s, e)) = Sentinels(s)
BY LenAppended DEF Dones, Sentinels

LEMMA ThisAppended ==
    ASSUME NEW s \in Seq(Event), NEW e \in Event
    PROVE  /\ e.type = "done" => Dones(Append(s, e)) = Dones(s) \union {Len(s) + 1}
           /\ e.type = "sentinel" => Sentinels(Append(s, e)) = Sentinels(s) \union {Len(s) + 1}
BY LenAppended DEF Dones, Sentinels

LEMMA HeadPlace ==
    ASSUME NEW s \in Seq(Event), s # <<>>
    PROVE  /\ Head(s) \in Event /\ Tail(s) \in Seq(Event)
           /\ Head(s).type = "done" <=> 1 \in Dones(s)
           /\ Head(s).type = "sentinel" <=> 1 \in Sentinels(s)
<1>1. Head(s) = s[1] /\ 1 \in DOMAIN s /\ Head(s) \in Event /\ Tail(s) \in Seq(Event)
  OBVIOUS
<1> QED
  BY <1>1 DEF Dones, Sentinels

LEMMA TailPlaces ==
    ASSUME NEW s \in Seq(Event), s # <<>>
    PROVE  /\ \A i : i \in Dones(Tail(s)) <=> i \in Nat \ {0} /\ i + 1 \in Dones(s)
           /\ \A i : i \in Sentinels(Tail(s)) <=> i \in Nat \ {0} /\ i + 1 \in Sentinels(s)
<1>1. DOMAIN s = 1 .. Len(s) /\ Len(s) \in Nat \ {0}
  OBVIOUS
<1>2. DOMAIN Tail(s) = 1 .. Len(s) - 1
  OBVIOUS
<1>3. \A i \in 1 .. Len(s) - 1 : Tail(s)[i] = s[i + 1]
  OBVIOUS
<1>4. \A i : i \in Dones(Tail(s)) <=> i \in Nat \ {0} /\ i + 1 \in Dones(s)
  BY <1>1, <1>2, <1>3 DEF Dones
<1>5. \A i : i \in Sentinels(Tail(s)) <=> i \in Nat \ {0} /\ i + 1 \in Sentinels(s)
  BY <1>1, <1>2, <1>3 DEF Sentinels
<1> QED
  BY <1>4, <1>5

LEMMA DoneTaken ==
    ASSUME NEW s \in Seq(Event), s # <<>>, NEW k \in Nat, Dones(s) = {k}, Sentinels(s) = {k + 1}
    PROVE  /\ k >= 1 /\ Head(s).type # "sentinel" /\ Sentinels(Tail(s)) = {k}
           /\ k = 1 => Head(s).type = "done" /\ Dones(Tail(s)) = {}
           /\ k # 1 => Head(s).type # "done" /\ Dones(Tail(s)) = {k - 1}
<1>1. k >= 1
  <2>1. k \in DOMAIN s /\ DOMAIN s = 1 .. Len(s)
    BY DEF Dones
  <2> QED
    BY <2>1
<1>2. 1 \notin Sentinels(s) /\ (1 \in Dones(s) <=> k = 1)
  BY <1>1
<1>3. Head(s).type # "sentinel" /\ (Head(s).type = "done" <=> k = 1)
  BY <1>2, HeadPlace
<1>4. \A i : i \in Sentinels(Tail(s)) <=> i \in Nat \ {0} /\ i + 1 = k + 1
  BY TailPlaces
<1>5. Sentinels(Tail(s)) = {k}
  BY <1>1, <1>4
<1>6. \A i : i \in Dones(Tail(s)) <=> i \in Nat \ {0} /\ i + 1 = k
  BY TailPlaces
<1>7. CASE k = 1
  BY <1>1, <1>3, <1>5, <1>6, <1>7
<1>8. CASE k # 1
  <2>1. k - 1 \in Nat \ {0}
    BY <1>1, <1>8
  <2>2. Dones(Tail(s)) = {k - 1}
    BY <1>6, <2>1
  <2> QED
    BY <1>1, <1>3, <1>5, <1>8, <2>2
<1> QED
  BY <1>7, <1>8

LEMMA DoneShown ==
    ASSUME NEW s \in Seq(Event), NEW e \in Event, Dones(s) = {}
    PROVE  /\ e.type = "done" => Dones(Append(s, e)) = {Len(Append(s, e))}
           /\ e.type # "done" => Dones(Append(s, e)) = {}
BY LenAppended, OtherAppended, ThisAppended

LEMMA EndAppended ==
    ASSUME NEW s \in Seq(Event), Dones(s) = {}, Sentinels(s) = {}, NEW d \in Event, NEW e \in Event,
           d.type = "done", e.type = "sentinel"
    PROVE  /\ Dones(s \o <<d, e>>) = {Len(s) + 1} /\ Sentinels(s \o <<d, e>>) = {(Len(s) + 1) + 1}
           /\ Len(s) + 1 \in DOMAIN (s \o <<d, e>>)
<1>1. s \o <<d, e>> = Append(Append(s, d), e) /\ Append(s, d) \in Seq(Event) /\ Len(Append(s, d)) = Len(s) + 1
  OBVIOUS
<1>2. Dones(Append(s, d)) = {Len(s) + 1}
  BY ThisAppended
<1>3. Sentinels(Append(s, d)) = {}
  <2>1. d.type # "sentinel"
    OBVIOUS
  <2> QED
    BY <2>1, OtherAppended
<1>4. Dones(Append(Append(s, d), e)) = {Len(s) + 1}
  <2>1. e.type # "done"
    OBVIOUS
  <2> QED
    BY <1>1, <1>2, <2>1, OtherAppended
<1>5. Sentinels(Append(Append(s, d), e)) = {(Len(s) + 1) + 1}
  BY <1>1, <1>3, ThisAppended
<1> QED
  BY <1>1, <1>4, <1>5 DEF Dones

LEMMA EventKinds ==
    ASSUME NEW q \in Queries
    PROVE  /\ Ev("token", {q}).type = "token" /\ Ev("error", {q}).type = "error"
           /\ Ev("done", {q}).type = "done" /\ Ev("sentinel", {q}).type = "sentinel"
           /\ Ev("done", {q}) \in Event /\ Ev("sentinel", {q}) \in Event
BY DEF Ev, Event

LEMMA EndsKept ==
    ASSUME NEW x \in Queries, Ends(x), stream'[x] = stream[x], runner'[x] = runner[x],
           cut'[x] = cut[x], failed'[x] = failed[x], shown'[x] = shown[x],
           Dones(queue'[x]) = Dones(queue[x]) /\ Sentinels(queue'[x]) = Sentinels(queue[x]),
           \A k \in DOMAIN queue[x] : k \in DOMAIN queue'[x]
    PROVE  Ends(x)'
BY DEF Ends, Pending

LEMMA EndsReceive ==
    ASSUME TypeOK, NEW q \in Queries, Ends(q), Receive(q)
    PROVE  Ends(q)'
<1> DEFINE s == shown[q]
           t == queue[q]
<1>1. /\ s \in Seq(Event) /\ t \in Seq(Event) /\ t # <<>> /\ stream[q] = "next"
      /\ queue'[q] = Tail(t) /\ UNCHANGED <<runner, cut, failed>>
      /\ IF Head(t).type = "sentinel"
         THEN stream'[q] = "join" /\ shown'[q] = s
         ELSE stream'[q] = "sent" /\ shown'[q] = Append(s, Head(t))
  BY DEF Receive, Stream, Show, TypeOK, streams, runners
<1>2. Head(t) \in Event /\ Tail(t) \in Seq(Event)
  BY <1>1, HeadPlace
<1>3. CASE runner[q] # "over"
  <2>1. Dones(t) = {} /\ Sentinels(t) = {} /\ Dones(s) = {}
    BY <1>3 DEF Ends
  <2>2. Head(t).type # "done" /\ Head(t).type # "sentinel"
    BY <1>1, <2>1, HeadPlace
  <2>3. Dones(Tail(t)) = {} /\ Sentinels(Tail(t)) = {}
    BY <1>1, <2>1, TailPlaces
  <2>4. Dones(shown'[q]) = {}
    BY <1>1, <1>2, <2>1, <2>2, OtherAppended
  <2> QED
    BY <1>1, <1>3, <2>2, <2>3, <2>4 DEF Ends
<1>4. CASE runner[q] = "over" /\ Dones(s) = {}
  <2>1. PICK k \in DOMAIN t : Dones(t) = {k} /\ Sentinels(t) = {k + 1}
    BY <1>1, <1>4 DEF Ends, Pending
  <2>2. k \in Nat
    BY <1>1, <2>1
  <2>3. /\ Head(t).type # "sentinel" /\ Sentinels(Tail(t)) = {k} /\ k >= 1
        /\ k = 1 => Head(t).type = "done" /\ Dones(Tail(t)) = {}
        /\ k # 1 => Head(t).type # "done" /\ Dones(Tail(t)) = {k - 1}
    BY <1>1, <2>1, <2>2, DoneTaken
  <2>4. /\ k = 1 => Dones(shown'[q]) = {Len(shown'[q])}
        /\ k # 1 => Dones(shown'[q]) = {}
    BY <1>1, <1>2, <1>4, <2>3, DoneShown
  <2>5. CASE k = 1
    BY <1>1, <1>4, <2>3, <2>4, <2>5 DEF Ends, Pending
  <2>6. CASE k # 1
    <3>1. k - 1 \in DOMAIN Tail(t) /\ k = (k - 1) + 1
      BY <2>2, <2>3, <2>6 DEF Dones
    <3>2. Pending(q)'
      BY <1>1, <2>3, <2>4, <2>6, <3>1 DEF Pending
    <3> QED
      BY <1>1, <1>4, <2>3, <2>4, <2>6, <3>2 DEF Ends
  <2> QED
    BY <2>5, <2>6
<1>5. CASE runner[q] = "over" /\ Dones(s) # {}
  <2>1. Dones(s) = {Len(s)} /\ Sentinels(t) = {1}
    BY <1>1, <1>5 DEF Ends, Pending
  <2>2. Head(t).type = "sentinel"
    BY <1>1, <2>1, HeadPlace
  <2> QED
    BY <1>1, <1>5, <2>1, <2>2 DEF Ends
<1> QED
  BY <1>3, <1>4, <1>5

LEMMA EndsStep ==
    ASSUME TypeOK, [Next]_vars, \A x \in Queries : Ends(x), NEW x \in Queries
    PROVE  Ends(x)'
<1> USE DEF agent, streams, runners, stores, removal
<1>0. Ends(x) /\ Together(x) /\ shown[x] \in Seq(Event) /\ queue[x] \in Seq(Event) /\ Len(shown[x]) \in Nat
  BY DEF TypeOK, Together
<1>1. ASSUME NEW q \in Queries, x # q,
             Streaming(q) \/ Disconnect(q) \/ Finish(q) \/ \E c \in Chats : Start(q, c)
      PROVE  Ends(x)'
  <2>1. /\ stream'[x] = stream[x] /\ runner'[x] = runner[x] /\ cut'[x] = cut[x] /\ failed'[x] = failed[x]
        /\ shown'[x] = shown[x] /\ queue'[x] = queue[x]
    <3>1. CASE Streaming(q)
      BY <1>1, <3>1 DEF Streaming, ClearPartial, Launch, LaunchFails, Receive, Sent, Join, Drained, Save, Stream,
         Show, TypeOK
    <3>2. CASE Disconnect(q)
      BY <1>1, <3>2 DEF Disconnect, CutClearing, CutSending, CutPolling, CutWaiting, CancelRunner, Cut, Stream,
         Runner, TypeOK
    <3>3. CASE Finish(q) \/ \E c \in Chats : Start(q, c)
      BY <1>1, <3>3 DEF Finish, Start, Emit, Runner, Stream, TypeOK
    <3> QED
      BY <1>1, <3>1, <3>2, <3>3
  <2> QED
    BY <1>0, <2>1, EndsKept
<1>2. ASSUME \E c \in Chats : Start(x, c) PROVE Ends(x)'
  BY <1>0, <1>2 DEF Start, Stream, Ends, Together, TypeOK
<1>3. ASSUME ClearPartial(x) \/ CutClearing(x) PROVE Ends(x)'
  <2>1. CASE ClearPartial(x)
    BY <1>0, <2>1 DEF ClearPartial, Stream, Ends, Together, TypeOK
  <2>2. CASE CutClearing(x)
    BY <1>0, <2>2 DEF CutClearing, Cut, Stream, Ends, Together, TypeOK
  <2> QED
    BY <1>3, <2>1, <2>2
<1>4. ASSUME Launch(x) PROVE Ends(x)'
  BY <1>0, <1>4 DEF Launch, Stream, Ends, Together, TypeOK
<1>5. ASSUME LaunchFails(x) PROVE Ends(x)'
  <2>1. /\ runner[x] = "none" /\ stream'[x] = "closed" /\ shown'[x] = Append(shown[x], Ev("error", {x}))
        /\ UNCHANGED <<runner, cut, failed, queue>>
    BY <1>0, <1>5 DEF LaunchFails, Stream, Show, Together, TypeOK
  <2>2. Dones(shown'[x]) = Dones(shown[x])
    BY <1>0, <2>1, EventTypes, EventKinds, OtherAppended
  <2> QED
    BY <1>0, <2>1, <2>2 DEF Ends
<1>6. ASSUME Receive(x) PROVE Ends(x)'
  BY <1>0, <1>6, EndsReceive
<1>7. ASSUME Sent(x) PROVE Ends(x)'
  BY <1>0, <1>7 DEF Sent, Stream, Ends, Pending, TypeOK
<1>8. ASSUME Join(x) PROVE Ends(x)'
  <2>1. /\ runner[x] = "over" /\ stream[x] = "join" /\ stream'[x] = "closed" /\ UNCHANGED <<runner, cut, failed, queue>>
        /\ IF failed[x] THEN shown'[x] = Append(shown[x], Ev("error", {x})) ELSE shown'[x] = shown[x]
    BY <1>8 DEF Join, Stream, Show, TypeOK
  <2>2. Dones(shown'[x]) = Dones(shown[x])
    BY <1>0, <2>1, EventTypes, EventKinds, OtherAppended
  <2>3. Len(shown'[x]) = IF failed[x] THEN Len(shown[x]) + 1 ELSE Len(shown[x])
    BY <1>0, <2>1, EventTypes, LenAppended
  <2>4. Dones(shown'[x]) = {IF failed[x] THEN Len(shown'[x]) - 1 ELSE Len(shown'[x])}
    BY <1>0, <2>1, <2>2, <2>3 DEF Ends
  <2> QED
    BY <2>1, <2>4 DEF Ends
<1>9. ASSUME Drained(x) \/ Save(x) PROVE Ends(x)'
  <2>1. /\ stream[x] \in {"drain", "save"} /\ stream'[x] \in {"save", "closed"}
        /\ UNCHANGED <<runner, cut, failed, queue, shown>>
    BY <1>9 DEF Drained, Save, Stream, TypeOK
  <2> QED
    BY <1>0, <2>1 DEF Ends
<1>10. ASSUME CutSending(x) \/ CutPolling(x) PROVE Ends(x)'
  <2>1. /\ stream[x] = "sent" /\ stream'[x] \in {"save", "closed"} /\ cut'[x]
        /\ UNCHANGED <<runner, failed, queue, shown>>
    BY <1>10 DEF CutSending, CutPolling, Cut, Stream, TypeOK
  <2> QED
    BY <1>0, <2>1 DEF Ends
<1>11. ASSUME CutWaiting(x) PROVE Ends(x)'
  <2>1. /\ stream[x] = "next" /\ stream'[x] = "drain" /\ cut'[x]
        /\ UNCHANGED <<runner, failed, queue, shown>>
    BY <1>11 DEF CutWaiting, Cut, Stream, TypeOK
  <2> QED
    BY <1>0, <2>1 DEF Ends
<1>12. ASSUME CancelRunner(x) PROVE Ends(x)'
  <2>1. /\ stream[x] = "drain" /\ runner[x] # "over" /\ UNCHANGED <<stream, cut, failed, queue, shown>>
    BY <1>12 DEF CancelRunner, Runner
  <2> QED
    BY <1>0, <2>1 DEF Ends
<1>13. ASSUME NEW q \in Queries, Begin(q) \/ Answering(q) \/ Final(q) \/ LLMError(q) \/ Persisting(q)
       PROVE  Ends(x)'
  <2>1. UNCHANGED <<stream, cut, queue, shown>>
    BY <1>13 DEF Begin, Answering, Final, LLMError, Persisting, PersistRead, PersistAppend, PersistFails
  <2>2. \/ runner'[x] = runner[x] /\ failed'[x] = failed[x]
        \/ runner[x] \notin {"none", "over"} /\ runner'[x] \notin {"none", "over"}
    BY <1>13 DEF Begin, Answering, Final, LLMError, Persisting, PersistRead, PersistAppend, PersistFails, Runner,
       TypeOK
  <2> QED
    BY <1>0, <2>1, <2>2 DEF Ends, Pending
<1>14. ASSUME NEW q \in Queries, Token(q) \/ Answered(q) PROVE Ends(x)'
  <2>1. /\ UNCHANGED <<stream, cut, failed, shown>>
        /\ \/ runner'[x] = runner[x]
           \/ runner[x] \notin {"none", "over"} /\ runner'[x] \notin {"none", "over"}
    BY <1>14 DEF Token, Answered, Runner, TypeOK
  <2>2. PICK e \in Event : /\ e.type \notin {"done", "sentinel"}
                           /\ queue'[x] = queue[x] \/ queue'[x] = queue[x] \o <<e>>
    <3>1. CASE Token(q)
      BY <3>1, EventTypes DEF Token, Emit, TypeOK, Ev
    <3>2. CASE Answered(q)
      <4>1. usage' \in SUBSET Queries /\ Ev("usage", usage') \in Event /\ Ev("usage", usage').type = "usage"
        BY <3>2 DEF Answered, TypeOK, Ev, Event
      <4>2. queue'[x] = queue[x] \/ queue'[x] = queue[x] \o <<Ev("usage", usage')>>
        BY <3>2 DEF Answered, Emit, TypeOK
      <4> QED
        BY <4>1, <4>2
    <3> QED
      BY <1>14, <3>1, <3>2
  <2>3. queue'[x] = queue[x] \/ queue'[x] = Append(queue[x], e)
    BY <1>0, <2>2, LenAppended
  <2>4. Dones(queue'[x]) = Dones(queue[x]) /\ Sentinels(queue'[x]) = Sentinels(queue[x])
    <3>1. e.type # "done" /\ e.type # "sentinel"
      BY <2>2
    <3> QED
      BY <1>0, <2>3, <3>1, OtherAppended
  <2>5. \A k \in DOMAIN queue[x] : k \in DOMAIN queue'[x]
    BY <1>0, <2>2, LenAppended
  <2> QED
    BY <1>0, <2>1, <2>4, <2>5 DEF Ends, Pending
<1>15. ASSUME Finish(x) PROVE Ends(x)'
  <2> DEFINE s == queue[x]
             d == Ev("done", {x})
             e == Ev("sentinel", {x})
  <2>1. /\ runner[x] = "finish" /\ runner'[x] = "over" /\ queue'[x] = s \o <<d, e>>
        /\ UNCHANGED <<stream, cut, failed, shown>>
    BY <1>15 DEF Finish, Runner, Emit, TypeOK
  <2>2. d \in Event /\ e \in Event /\ d.type = "done" /\ e.type = "sentinel"
    BY EventKinds
  <2>3. Dones(s) = {} /\ Sentinels(s) = {} /\ Dones(shown[x]) = {}
    BY <1>0, <2>1 DEF Ends
  <2>4. /\ Dones(queue'[x]) = {Len(s) + 1} /\ Sentinels(queue'[x]) = {(Len(s) + 1) + 1}
        /\ Len(s) + 1 \in DOMAIN queue'[x]
    <3> HIDE DEF d, e
    <3>1. s \in Seq(Event)
      BY <1>0
    <3> HIDE DEF s
    <3> QED
      BY <2>1, <2>2, <2>3, <3>1, EndAppended
  <2>5. Pending(x)'
    BY <2>1, <2>3, <2>4 DEF Pending
  <2> QED
    BY <1>0, <2>1, <2>3, <2>5 DEF Ends
<1>16. ASSUME \/ \E c \in Chats : Delete(c) \/ DropPartial(c) \/ ExpirePartial(c)
              \/ Shutdown \/ UNCHANGED vars
       PROVE  Ends(x)'
  <2>1. UNCHANGED <<stream, cut, queue, shown, runner, failed>>
    BY <1>16 DEF Delete, DropPartial, ExpirePartial, Shutdown, vars
  <2> QED
    BY <1>0, <2>1, EndsKept
<1> QED
  BY <1>1, <1>2, <1>3, <1>4, <1>5, <1>6, <1>7, <1>8, <1>9, <1>10, <1>11, <1>12, <1>13, <1>14, <1>15, <1>16
     DEF Next, Streaming, Disconnect, Running

\* However turns overlap, fail or are cancelled, a stream that was launched and not cut ends
\* with one done event, followed at most by the error of its own runner.
THEOREM DoneOnce == Spec => []DoneExactlyOnce
<1> DEFINE I == TypeOK /\ \A q \in Queries : Ends(q)
<1>1. Init => I
  <2> SUFFICES ASSUME Init PROVE I
    OBVIOUS
  <2>1. TypeOK
    BY ChatTurnAssumption DEF Init, TypeOK
  <2>2. \A q \in Queries : Ends(q)
    BY DEF Init, Ends, Dones, Sentinels
  <2> QED
    BY <2>1, <2>2
<1>2. I /\ [Next]_vars => I'
  BY TypeStep, EndsStep
<1>3. I => DoneExactlyOnce
  <2> SUFFICES ASSUME I, NEW q \in Queries
               PROVE  LET s == shown[q]
                          dones == {i \in DOMAIN s : s[i].type = "done"}
                      IN  /\ dones \subseteq {Len(s) - 1, Len(s)} /\ Cardinality(dones) =< 1
                          /\ stream[q] = "closed" /\ ~cut[q] /\ runner[q] # "none" =>
                                 dones = {IF failed[q] THEN Len(s) - 1 ELSE Len(s)}
    BY DEF DoneExactlyOnce
  <2> DEFINE s == shown[q]
             dones == Dones(s)
  <2>1. Ends(q)
    OBVIOUS
  <2>2. PICK k \in {Len(s) - 1, Len(s)} : dones \subseteq {k}
    BY <2>1 DEF Ends
  <2>3. dones = {} \/ dones = {k}
    BY <2>2
  <2>4. Cardinality(dones) =< 1
    <3>1. Cardinality({}) = 0 /\ Cardinality({k}) = 1
      BY FS_EmptySet, FS_Singleton
    <3>2. CASE dones = {}
      BY <3>1, <3>2
    <3>3. CASE dones = {k}
      BY <3>1, <3>3
    <3> QED
      BY <2>3, <3>2, <3>3
  <2> QED
    BY <2>1, <2>2, <2>4 DEF Ends, Dones, Sentinels
<1> QED
  BY <1>1, <1>2, <1>3, PTL DEF Spec

-------------------------------------------------------------------------------
\* Every token of a turn that meets no other arrives.  A token the model produced was shown or is
\* in the queue, and nothing is left in the queue of a stream that read its sentinel.

TokensIn(s) == {i \in DOMAIN s : s[i].type = "token"}

LEMMA TokensFinite == ASSUME NEW s \in Seq(Event) PROVE IsFiniteSet(TokensIn(s))
<1>1. TokensIn(s) \subseteq 1 .. Len(s) /\ Len(s) \in Nat
  BY DEF TokensIn
<1>2. IsFiniteSet(1 .. Len(s))
  BY <1>1, FS_Interval
<1> QED
  BY <1>1, <1>2, FS_Subset

LEMMA TokensAppended ==
    ASSUME NEW s \in Seq(Event), NEW e \in Event
    PROVE  Cardinality(TokensIn(Append(s, e))) =
               IF e.type = "token" THEN Cardinality(TokensIn(s)) + 1 ELSE Cardinality(TokensIn(s))
<1>1. CASE e.type = "token"
  <2>1. TokensIn(Append(s, e)) = TokensIn(s) \union {Len(s) + 1}
    BY <1>1, LenAppended DEF TokensIn
  <2>2. Len(s) + 1 \notin TokensIn(s)
    BY DEF TokensIn
  <2> QED
    BY <1>1, <2>1, <2>2, TokensFinite, FS_AddElement
<1>2. CASE e.type # "token"
  <2>1. TokensIn(Append(s, e)) = TokensIn(s)
    BY <1>2, LenAppended DEF TokensIn
  <2> QED
    BY <1>2, <2>1
<1> QED
  BY <1>1, <1>2

\* What is taken from a queue is its first event; the others move up by one.
LEMMA TokensTaken ==
    ASSUME NEW s \in Seq(Event), s # <<>>
    PROVE  Cardinality(TokensIn(s)) =
               IF Head(s).type = "token" THEN Cardinality(TokensIn(Tail(s))) + 1
               ELSE Cardinality(TokensIn(Tail(s)))
<1> DEFINE T == TokensIn(Tail(s))
           R == TokensIn(s) \ {1}
           f == [i \in T |-> i + 1]
<1>1. /\ DOMAIN s = 1 .. Len(s) /\ Len(s) \in Nat \ {0} /\ Head(s) = s[1] /\ Tail(s) \in Seq(Event)
      /\ DOMAIN Tail(s) = 1 .. Len(s) - 1
  OBVIOUS
<1>2. \A i \in 1 .. Len(s) - 1 : Tail(s)[i] = s[i + 1]
  OBVIOUS
<1>3. \A i \in T : i \in Nat /\ i + 1 \in R
  BY <1>1, <1>2 DEF TokensIn
<1>4. \A j \in R : j - 1 \in T /\ j = (j - 1) + 1
  BY <1>1, <1>2 DEF TokensIn
<1>5. IsFiniteSet(T) /\ IsFiniteSet(TokensIn(s))
  BY <1>1, TokensFinite
<1>6. f \in Bijection(T, R)
  <2> HIDE DEF T, R
  <2>1. f \in Injection(T, R)
    BY <1>3 DEF Injection, IsInjective
  <2>2. f \in Surjection(T, R)
    BY <1>3, <1>4 DEF Surjection
  <2> QED
    BY <2>1, <2>2 DEF Bijection
<1>7. Cardinality(R) = Cardinality(T)
  <2> HIDE DEF T, R, f
  <2> QED
    BY <1>5, <1>6, FS_Bijection DEF ExistsBijection
<1>8. 1 \in TokensIn(s) <=> Head(s).type = "token"
  BY <1>1 DEF TokensIn
<1>9. Cardinality(R) = IF 1 \in TokensIn(s) THEN Cardinality(TokensIn(s)) - 1 ELSE Cardinality(TokensIn(s))
  BY <1>5, FS_RemoveElement
<1>10. Cardinality(TokensIn(s)) \in Nat /\ Cardinality(T) \in Nat
  BY <1>5, FS_CardinalityType
<1> HIDE DEF T, R, f
<1>11. CASE Head(s).type = "token"
  <2>1. Cardinality(R) = Cardinality(TokensIn(s)) - 1
    BY <1>8, <1>9, <1>11
  <2>2. Cardinality(TokensIn(s)) = Cardinality(T) + 1
    BY <1>7, <1>10, <2>1
  <2> QED
    BY <1>11, <2>2 DEF T
<1>12. CASE Head(s).type # "token"
  BY <1>7, <1>8, <1>9, <1>12 DEF T
<1> QED
  BY <1>11, <1>12

Whole(q) ==
    /\ Cardinality(TokensIn(shown[q])) + Cardinality(TokensIn(queue[q])) = sent[q]
    /\ Sentinels(queue[q]) \subseteq {Len(queue[q])}
    /\ runner[q] = "none" \/ stream[q] = "join" \/ (stream[q] = "closed" /\ ~cut[q]) => queue[q] = <<>>

\* A runner that emits has a stream that still reads, or that was cut.
LEMMA Reading ==
    ASSUME NEW q \in Queries, Ends(q), runner[q] \notin {"none", "over"}
    PROVE  /\ stream[q] # "join" /\ ~(stream[q] = "closed" /\ ~cut[q])
           /\ Sentinels(queue[q]) = {}
BY DEF Ends

LEMMA WholeReceive ==
    ASSUME TypeOK, NEW q \in Queries, Whole(q), Receive(q)
    PROVE  Whole(q)'
<1> DEFINE s == shown[q]
           t == queue[q]
<1>1. /\ s \in Seq(Event) /\ t \in Seq(Event) /\ t # <<>> /\ runner[q] # "none"
      /\ queue'[q] = Tail(t) /\ UNCHANGED <<runner, cut, sent>> /\ sent[q] \in Nat
      /\ IF Head(t).type = "sentinel"
         THEN stream'[q] = "join" /\ shown'[q] = s
         ELSE stream'[q] = "sent" /\ shown'[q] = Append(s, Head(t))
  BY DEF Receive, Stream, Show, Whole, TypeOK, streams, runners
<1>2. Head(t) \in Event /\ Tail(t) \in Seq(Event)
  BY <1>1, HeadPlace
<1>3. Sentinels(Tail(t)) \subseteq {Len(Tail(t))}
  <2>1. \A i : i \in Sentinels(Tail(t)) => i \in Nat \ {0} /\ i + 1 \in {Len(t)}
    BY <1>1, TailPlaces DEF Whole
  <2>2. Len(t) \in Nat /\ Len(Tail(t)) = Len(t) - 1
    BY <1>1
  <2> QED
    BY <2>1, <2>2
<1>4. /\ Cardinality(TokensIn(s)) \in Nat /\ Cardinality(TokensIn(t)) \in Nat
      /\ Cardinality(TokensIn(Tail(t))) \in Nat
  BY <1>1, <1>2, TokensFinite, FS_CardinalityType
<1>5. Cardinality(TokensIn(shown'[q])) + Cardinality(TokensIn(Tail(t))) = sent[q]
  <2>1. CASE Head(t).type = "token"
    <3>1. Cardinality(TokensIn(t)) = Cardinality(TokensIn(Tail(t))) + 1
      BY <1>1, <2>1, TokensTaken
    <3>2. Cardinality(TokensIn(shown'[q])) = Cardinality(TokensIn(s)) + 1
      BY <1>1, <1>2, <2>1, TokensAppended
    <3> QED
      BY <1>4, <3>1, <3>2 DEF Whole
  <2>2. CASE Head(t).type # "token"
    <3>1. Cardinality(TokensIn(t)) = Cardinality(TokensIn(Tail(t)))
      BY <1>1, <2>2, TokensTaken
    <3>2. Cardinality(TokensIn(shown'[q])) = Cardinality(TokensIn(s))
      BY <1>1, <1>2, <2>2, TokensAppended
    <3> QED
      BY <1>4, <3>1, <3>2 DEF Whole
  <2> QED
    BY <2>1, <2>2
<1>6. stream'[q] = "join" => Tail(t) = <<>>
  <2> SUFFICES ASSUME stream'[q] = "join" PROVE Tail(t) = <<>>
    OBVIOUS
  <2>1. 1 \in Sentinels(t)
    BY <1>1, HeadPlace
  <2>2. Len(t) = 1
    BY <2>1 DEF Whole
  <2>3. Len(Tail(t)) = 0
    BY <1>1, <2>2
  <2>4. \A u \in Seq(Event) : Len(u) = 0 => u = <<>>
    OBVIOUS
  <2> QED
    BY <1>2, <2>3, <2>4
<1>7. runner'[q] # "none" /\ stream'[q] # "closed"
  BY <1>1
<1> QED
  <2> HIDE DEF s, t
  <2>1. sent'[q] = sent[q]
    BY <1>1
  <2> QED
    BY <1>1, <1>3, <1>5, <1>6, <1>7, <2>1 DEF Whole

\* One more event in the queue of a runner that is not over.
LEMMA WholeEmit ==
    ASSUME NEW q \in Queries, TypeOK, Whole(q), Ends(q), runner[q] \notin {"none", "over"},
           NEW e \in Event, e.type # "sentinel", queue'[q] = queue[q] \o <<e>>,
           UNCHANGED <<stream, cut, shown>>, runner'[q] # "none",
           sent'[q] = IF e.type = "token" THEN sent[q] + 1 ELSE sent[q]
    PROVE  Whole(q)'
<1>1. queue[q] \in Seq(Event) /\ shown[q] \in Seq(Event) /\ sent[q] \in Nat
  BY DEF TypeOK
<1>2. queue'[q] = Append(queue[q], e)
  BY <1>1, LenAppended
<1>3. Cardinality(TokensIn(shown[q])) \in Nat /\ Cardinality(TokensIn(queue[q])) \in Nat
  BY <1>1, TokensFinite, FS_CardinalityType
<1>4. Cardinality(TokensIn(shown[q])) + Cardinality(TokensIn(queue'[q])) = sent'[q]
  <2>1. Cardinality(TokensIn(queue'[q])) =
            IF e.type = "token" THEN Cardinality(TokensIn(queue[q])) + 1 ELSE Cardinality(TokensIn(queue[q]))
    BY <1>1, <1>2, TokensAppended
  <2>2. Cardinality(TokensIn(shown[q])) + Cardinality(TokensIn(queue[q])) = sent[q]
    BY DEF Whole
  <2>3. CASE e.type = "token"
    BY <1>1, <1>3, <2>1, <2>2, <2>3
  <2>4. CASE e.type # "token"
    BY <1>1, <1>3, <2>1, <2>2, <2>4
  <2> QED
    BY <2>3, <2>4
<1>5. Sentinels(queue'[q]) = {}
  BY <1>1, <1>2, Reading, OtherAppended
<1> QED
  BY <1>4, <1>5, Reading DEF Whole

LEMMA WholeFinish ==
    ASSUME NEW q \in Queries, TypeOK, Whole(q), Ends(q), Finish(q)
    PROVE  Whole(q)'
<1>1. PICK d \in Event, e \in Event :
          /\ d.type = "done" /\ e.type = "sentinel"
          /\ queue'[q] = queue[q] \o <<d, e>>
  <2>1. queue \in [Queries -> Seq(Event)] /\ queue' = [queue EXCEPT ![q] = @ \o <<Ev("done", {q}), Ev("sentinel", {q})>>]
    BY DEF Finish, Emit, TypeOK
  <2> QED
    BY <2>1, EventKinds
<1>2. /\ queue[q] \in Seq(Event) /\ shown[q] \in Seq(Event) /\ Append(queue[q], d) \in Seq(Event)
      /\ queue'[q] = Append(Append(queue[q], d), e)
      /\ Len(queue'[q]) = (Len(queue[q]) + 1) + 1
  BY <1>1 DEF TypeOK
<1>3. runner[q] = "finish" /\ runner'[q] = "over" /\ UNCHANGED <<stream, cut, shown, sent>>
  BY DEF Finish, Runner, TypeOK, streams
<1>4. Dones(queue[q]) = {} /\ Sentinels(queue[q]) = {}
  BY <1>3 DEF Ends
<1>5. Sentinels(queue'[q]) = {Len(queue'[q])}
  <2>1. Sentinels(queue[q] \o <<d, e>>) = {(Len(queue[q]) + 1) + 1}
    BY <1>1, <1>2, <1>4, EndAppended
  <2> QED
    BY <1>1, <1>2, <2>1
<1>6. Cardinality(TokensIn(queue'[q])) = Cardinality(TokensIn(queue[q]))
  <2>1. d.type # "token" /\ e.type # "token"
    BY <1>1
  <2> QED
    BY <1>2, <2>1, TokensAppended
<1> QED
  BY <1>3, <1>5, <1>6, Reading DEF Whole

LEMMA WholeShown ==
    ASSUME NEW q \in Queries, TypeOK, Whole(q), LaunchFails(q) \/ Join(q)
    PROVE  Whole(q)'
<1>1. /\ shown[q] \in Seq(Event) /\ Ev("error", {q}) \in Event
      /\ shown'[q] = shown[q] \/ shown'[q] = Append(shown[q], Ev("error", {q}))
      /\ runner[q] = "none" \/ stream[q] = "join"
      /\ UNCHANGED <<runner, queue, sent>>
  BY EventTypes DEF LaunchFails, Join, Show, Stream, TypeOK, runners
<1>2. Cardinality(TokensIn(shown'[q])) = Cardinality(TokensIn(shown[q]))
  <2>1. Ev("error", {q}).type # "token"
    BY EventKinds
  <2> QED
    BY <1>1, <2>1, TokensAppended
<1> QED
  BY <1>1, <1>2 DEF Whole

LEMMA WholeKept ==
    ASSUME NEW x \in Queries, Whole(x), shown'[x] = shown[x], queue'[x] = queue[x], sent'[x] = sent[x],
           runner'[x] = "none" \/ stream'[x] = "join" \/ (stream'[x] = "closed" /\ ~cut'[x])
               => runner[x] = "none" \/ stream[x] = "join" \/ (stream[x] = "closed" /\ ~cut[x])
    PROVE  Whole(x)'
BY DEF Whole

\* What a step of a turn does to the stream and the tokens of one that meets no other: nothing.
LEMMA WholeStep ==
    ASSUME Isolation, [Next]_vars, NEW x \in Queries \ met, Ends(x), Whole(x)
    PROVE  Whole(x)'
<1> USE DEF agent, streams, runners, stores, removal
<1>0. /\ TypeOK /\ Serves(x) /\ Ends(x) /\ Whole(x) /\ Together(x)
  BY DEF Isolation, TypeOK, Together
<1>1. ASSUME NEW q \in Queries, x # q,
             \/ Streaming(q) \/ Disconnect(q) \/ Running(q) \/ Persisting(q)
             \/ \E c \in Chats : Start(q, c)
      PROVE  Whole(x)'
  <2>1. captured[q] # x \/ runner[q] # "tokens"
    BY <1>1 DEF Isolation, Apart
  <2>2. callback # x \/ runner[q] \in {"none", "over"}
    BY <1>1 DEF Isolation, Apart
  <2>3. /\ stream'[x] = stream[x] /\ runner'[x] = runner[x] /\ cut'[x] = cut[x] /\ sent'[x] = sent[x]
        /\ shown'[x] = shown[x] /\ queue'[x] = queue[x]
    <3>1. CASE Streaming(q)
      BY <1>0, <1>1, <3>1 DEF Streaming, ClearPartial, Launch, LaunchFails, Receive, Sent, Join, Drained, Save,
         Stream, Show, TypeOK
    <3>2. CASE Disconnect(q)
      BY <1>0, <1>1, <3>2 DEF Disconnect, CutClearing, CutSending, CutPolling, CutWaiting, CancelRunner, Cut,
         Stream, Runner, TypeOK
    <3>3. CASE Begin(q) \/ Answering(q) \/ Final(q) \/ LLMError(q)
      BY <1>0, <1>1, <3>3 DEF Begin, Answering, Final, LLMError, Runner, TypeOK
    <3>4. CASE Token(q) \/ Answered(q) \/ Finish(q)
      BY <1>0, <1>1, <2>1, <2>2, <3>4 DEF Token, Answered, Finish, Emit, Runner, TypeOK
    <3>5. CASE Persisting(q) \/ \E c \in Chats : Start(q, c)
      BY <1>0, <1>1, <3>5 DEF Persisting, PersistRead, PersistAppend, PersistFails, Start, Stream, TypeOK
    <3> QED
      BY <1>1, <3>1, <3>2, <3>3, <3>4, <3>5 DEF Running
  <2> QED
    BY <1>0, <2>3, WholeKept
<1>2. ASSUME Receive(x) PROVE Whole(x)'
  BY <1>0, <1>2, WholeReceive
<1>3. ASSUME LaunchFails(x) \/ Join(x) PROVE Whole(x)'
  BY <1>0, <1>3, WholeShown
<1>4. ASSUME Finish(x) PROVE Whole(x)'
  BY <1>0, <1>4, WholeFinish
<1>5. ASSUME Token(x) PROVE Whole(x)'
  <2>1. /\ runner[x] = "tokens" /\ captured[x] = x /\ UNCHANGED <<stream, cut, shown, runner>>
        /\ queue'[x] = queue[x] \o <<Ev("token", {x})>> /\ sent'[x] = sent[x] + 1
    BY <1>0, <1>5 DEF Token, Emit, Serves, TypeOK
  <2>2. Ev("token", {x}) \in Event /\ Ev("token", {x}).type = "token"
    BY EventTypes, EventKinds
  <2> QED
    BY <1>0, <2>1, <2>2, WholeEmit
<1>6. ASSUME Answered(x) PROVE Whole(x)'
  <2>1. /\ runner[x] = "tokens" /\ callback = x /\ UNCHANGED <<stream, cut, shown, sent>> /\ runner'[x] = "answered"
        /\ queue'[x] = queue[x] \o <<Ev("usage", usage')>>
    BY <1>0, <1>6 DEF Answered, Emit, Runner, Serves, TypeOK
  <2>2. Ev("usage", usage') \in Event /\ Ev("usage", usage').type = "usage"
    BY <1>0, <1>6 DEF Answered, TypeOK, Ev, Event
  <2> QED
    BY <1>0, <2>1, <2>2, WholeEmit
<1>7. ASSUME \/ ClearPartial(x) \/ Launch(x) \/ Sent(x) \/ Drained(x) \/ Save(x)
             \/ CutClearing(x) \/ CutSending(x) \/ CutPolling(x) \/ CutWaiting(x)
             \/ \E c \in Chats : Start(x, c)
      PROVE  Whole(x)'
  <2>1. /\ UNCHANGED <<shown, queue, sent>> /\ stream'[x] # "join" /\ (stream'[x] = "closed" => cut'[x])
    <3>1. CASE ClearPartial(x) \/ Launch(x) \/ Sent(x) \/ \E c \in Chats : Start(x, c)
      BY <1>0, <3>1 DEF ClearPartial, Launch, Sent, Start, Stream, TypeOK
    <3>2. CASE Drained(x) \/ Save(x)
      BY <1>0, <3>2 DEF Drained, Save, Stream, TypeOK, Ends
    <3>3. CASE CutClearing(x) \/ CutSending(x) \/ CutPolling(x) \/ CutWaiting(x)
      BY <1>0, <3>3 DEF CutClearing, CutSending, CutPolling, CutWaiting, Cut, Stream, TypeOK
    <3> QED
      BY <1>7, <3>1, <3>2, <3>3
  <2>2. runner'[x] = "none" => runner[x] = "none"
    BY <1>0, <1>7 DEF ClearPartial, Launch, Sent, Start, Drained, Save, CutClearing, CutSending, CutPolling,
       CutWaiting, TypeOK
  <2> QED
    BY <1>0, <2>1, <2>2, WholeKept
<1>8. ASSUME CancelRunner(x) \/ Begin(x) \/ Answering(x) \/ Final(x) \/ LLMError(x) PROVE Whole(x)'
  <2>1. UNCHANGED <<stream, cut, shown, queue, sent>> /\ runner'[x] # "none"
    BY <1>0, <1>8 DEF CancelRunner, Begin, Answering, Final, LLMError, Runner, TypeOK
  <2> QED
    BY <1>0, <2>1, WholeKept
<1>9. ASSUME \/ Persisting(x)
             \/ \E c \in Chats : Delete(c) \/ DropPartial(c) \/ ExpirePartial(c)
             \/ Shutdown \/ UNCHANGED vars
      PROVE  Whole(x)'
  <2>1. UNCHANGED <<stream, cut, shown, queue, runner, sent>>
    BY <1>9 DEF Persisting, PersistRead, PersistAppend, PersistFails, Delete, DropPartial, ExpirePartial, Shutdown,
       vars
  <2> QED
    BY <1>0, <2>1, WholeKept
<1> QED
  BY <1>1, <1>2, <1>3, <1>4, <1>5, <1>6, <1>7, <1>8, <1>9 DEF Next, Streaming, Disconnect, Running

\* A client that stays has seen every token the model produced when its stream ends, also when
\* the answer broke off with an error, if its turn met no other.
THEOREM AnswersAreWhole == Spec => []CompleteAnswers
<1> DEFINE I == \A q \in Queries : Ends(q) /\ (q \notin met => Whole(q))
<1>1. Init => I
  <2> SUFFICES ASSUME Init, NEW q \in Queries PROVE Ends(q) /\ Whole(q)
    OBVIOUS
  <2>1. /\ shown[q] = <<>> /\ queue[q] = <<>> /\ sent[q] = 0 /\ stream[q] = "none" /\ runner[q] = "none"
    BY DEF Init
  <2>2. TokensIn(<<>>) = {} /\ Dones(<<>>) = {} /\ Sentinels(<<>>) = {}
    BY DEF TokensIn, Dones, Sentinels
  <2>3. Cardinality(TokensIn(<<>>)) = 0
    BY <2>2, FS_EmptySet
  <2> QED
    BY <2>1, <2>2, <2>3 DEF Ends, Whole
<1>2. Isolation /\ I /\ [Next]_vars => I'
  <2> SUFFICES ASSUME Isolation, I, [Next]_vars PROVE I'
    OBVIOUS
  <2>1. TypeOK /\ met \subseteq met'
    BY MetStep DEF Isolation
  <2>2. \A q \in Queries : Ends(q)'
    BY <2>1, EndsStep
  <2>3. ASSUME NEW q \in Queries, q \notin met' PROVE Whole(q)'
    BY <2>1, <2>3, WholeStep
  <2> QED
    BY <2>2, <2>3
<1>3. Isolation /\ I => CompleteAnswers
  <2> SUFFICES ASSUME Isolation, I, NEW q \in Queries \ met, stream[q] = "closed", ~cut[q]
               PROVE  Tokens(q) = sent[q]
    BY DEF CompleteAnswers
  <2>1. /\ queue[q] = <<>> /\ shown[q] \in Seq(Event) /\ sent[q] \in Nat
        /\ Cardinality(TokensIn(shown[q])) + Cardinality(TokensIn(queue[q])) = sent[q]
    BY DEF Whole, Isolation, TypeOK
  <2>2. TokensIn(queue[q]) = {}
    BY <2>1 DEF TokensIn
  <2>3. Cardinality(TokensIn(queue[q])) = 0 /\ Cardinality(TokensIn(shown[q])) \in Nat
    BY <2>1, <2>2, TokensFinite, FS_EmptySet, FS_CardinalityType
  <2>4. Cardinality(TokensIn(shown[q])) = sent[q]
    BY <2>1, <2>3
  <2> QED
    BY <2>4 DEF Tokens, TokensIn
<1> QED
  BY <1>1, <1>2, <1>3, Isolated, PTL DEF Spec

-------------------------------------------------------------------------------
\* The safety under EveryStreamEnds, however turns overlap: a stream that waits for an event has
\* a runner that has still to send one, and whoever waits for its runner has one.
NobodyIsForgotten ==
    \A q \in Queries :
        /\ stream[q] = "next" /\ queue[q] = <<>> => runner[q] \notin {"none", "over"}
        /\ stream[q] = "join" => runner[q] = "over"
        /\ stream[q] = "drain" => runner[q] # "none"

Launched(q) == stream[q] \in {"next", "sent", "join", "drain", "save"} => runner[q] # "none"

LEMMA LaunchedStep ==
    ASSUME TypeOK, [Next]_vars, \A x \in Queries : Launched(x), NEW x \in Queries
    PROVE  Launched(x)'
<1> USE DEF agent, streams, runners, stores, removal
<1>1. runner[x] # "none" => runner'[x] # "none"
  <2>1. ASSUME NEW q \in Queries, Streaming(q) \/ Disconnect(q)
        PROVE  runner'[x] = runner[x] \/ runner'[x] # "none"
    BY <2>1 DEF Streaming, ClearPartial, Launch, LaunchFails, Receive, Sent, Join, Drained, Save, Disconnect,
       CutClearing, CutSending, CutPolling, CutWaiting, CancelRunner, Runner, TypeOK
  <2>2. ASSUME NEW q \in Queries, Running(q) \/ Persisting(q) \/ \E c \in Chats : Start(q, c)
        PROVE  runner'[x] = runner[x] \/ runner'[x] # "none"
    <3>1. CASE Running(q)
      BY <3>1 DEF Running, Begin, Answering, Token, Answered, Final, LLMError, Finish, Runner, TypeOK
    <3>2. CASE Persisting(q) \/ \E c \in Chats : Start(q, c)
      BY <3>2 DEF Persisting, PersistRead, PersistAppend, PersistFails, Start
    <3> QED
      BY <2>2, <3>1, <3>2
  <2>3. ASSUME \/ \E c \in Chats : Delete(c) \/ DropPartial(c) \/ ExpirePartial(c)
               \/ Shutdown \/ UNCHANGED vars
        PROVE  runner'[x] = runner[x]
    BY <2>3 DEF Delete, DropPartial, ExpirePartial, Shutdown, vars
  <2> QED
    BY <2>1, <2>2, <2>3 DEF Next
<1>2. stream'[x] \in {"next", "sent", "join", "drain", "save"} =>
          stream[x] \in {"next", "sent", "join", "drain", "save"} \/ runner'[x] # "none"
  <2>1. ASSUME NEW q \in Queries, Launch(q) PROVE stream'[x] = stream[x] \/ runner'[x] # "none"
    BY <2>1 DEF Launch, Stream, TypeOK
  <2>2. ASSUME NEW q \in Queries,
               \/ ClearPartial(q) \/ LaunchFails(q) \/ Receive(q) \/ Sent(q) \/ Join(q) \/ Drained(q) \/ Save(q)
               \/ Disconnect(q) \/ \E c \in Chats : Start(q, c)
        PROVE  \/ stream'[x] \notin {"next", "sent", "join", "drain", "save"}
               \/ stream[x] \in {"next", "sent", "join", "drain", "save"}
    <3>1. CASE ClearPartial(q) \/ LaunchFails(q) \/ Join(q) \/ Save(q) \/ \E c \in Chats : Start(q, c)
      <4>1. stream' = [stream EXCEPT ![q] = "clear"] \/ stream' = [stream EXCEPT ![q] = "launch"]
            \/ stream' = [stream EXCEPT ![q] = "closed"]
        BY <3>1 DEF ClearPartial, LaunchFails, Join, Save, Start, Stream
      <4> QED
        BY <4>1 DEF TypeOK
    <3>2. CASE Receive(q) \/ Sent(q) \/ Drained(q)
      BY <3>2 DEF Receive, Sent, Drained, Stream, TypeOK
    <3>3. CASE Disconnect(q)
      BY <3>3 DEF Disconnect, CutClearing, CutSending, CutPolling, CutWaiting, CancelRunner, Stream, TypeOK
    <3> QED
      BY <2>2, <3>1, <3>2, <3>3
  <2>3. ASSUME NEW q \in Queries, Running(q) \/ Persisting(q)
        PROVE  stream' = stream
    BY <2>3 DEF Running, Begin, Answering, Token, Answered, Final, LLMError, Finish, Persisting,
       PersistRead, PersistAppend, PersistFails
  <2>4. ASSUME \/ \E c \in Chats : Delete(c) \/ DropPartial(c) \/ ExpirePartial(c)
               \/ Shutdown \/ UNCHANGED vars
        PROVE  stream' = stream
    BY <2>4 DEF Delete, DropPartial, ExpirePartial, Shutdown, vars
  <2> QED
    BY <2>1, <2>2, <2>3, <2>4 DEF Next, Streaming
<1> QED
  BY <1>1, <1>2 DEF Launched

\* However turns overlap, fail or are cancelled, nobody waits for an event or a runner that
\* can no longer come: the fairness of EveryStreamEnds is all that a stream needs to end.
THEOREM NobodyForgotten == Spec => []NobodyIsForgotten
<1> DEFINE I == TypeOK /\ \A q \in Queries : Ends(q) /\ Launched(q)
<1>1. Init => I
  <2> SUFFICES ASSUME Init PROVE I
    OBVIOUS
  <2>1. TypeOK
    BY ChatTurnAssumption DEF Init, TypeOK
  <2>2. \A q \in Queries : Ends(q) /\ Launched(q)
    BY DEF Init, Ends, Dones, Sentinels, Launched
  <2> QED
    BY <2>1, <2>2
<1>2. I /\ [Next]_vars => I'
  BY TypeStep, EndsStep, LaunchedStep
<1>3. I => NobodyIsForgotten
  <2> SUFFICES ASSUME I, NEW q \in Queries
               PROVE  /\ stream[q] = "next" /\ queue[q] = <<>> => runner[q] \notin {"none", "over"}
                      /\ stream[q] = "join" => runner[q] = "over"
                      /\ stream[q] = "drain" => runner[q] # "none"
    BY DEF NobodyIsForgotten
  <2>1. ASSUME stream[q] = "next", queue[q] = <<>>, runner[q] = "over" PROVE FALSE
    <3>1. Pending(q)
      BY <2>1 DEF Ends
    <3>2. Dones(queue[q]) = {} /\ Sentinels(queue[q]) = {}
      BY <2>1 DEF Dones, Sentinels
    <3> QED
      BY <3>1, <3>2 DEF Pending
  <2> QED
    BY <2>1 DEF Ends, Launched
<1> QED
  BY <1>1, <1>2, <1>3, PTL DEF Spec
=================================================================================
