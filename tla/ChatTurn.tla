-------------------------------- MODULE ChatTurn --------------------------------
(***************************************************************************)
(* One turn of a chat, from the request to the rows it leaves, on one pod: *)
(* the event stream of main.py's stream_chat_query, ChatAgent.query and    *)
(* its runner task, and the persist task of agent.py.                      *)
(*                                                                         *)
(* A pod has one ChatAgent for all users.  last_state, stream_callback and *)
(* _usage_accumulator are attributes of it, so the turns that are in       *)
(* progress on a pod at the same time share them.  A step runs from one    *)
(* await to the next.  The stream slot of a turn is StreamSlots', and what *)
(* becomes of its append is ChatStore's.  node_start and node_end events   *)
(* carry nothing and are left out.                                         *)
(***************************************************************************)
EXTENDS Naturals, Sequences, FiniteSets

CONSTANTS
    Queries,    \* numbered in the order in which they arrive
    Chats,
    MaxActive,  \* bound on turns in progress at once
    MaxTokens,  \* bound on the tokens of an answer
    MaxDeletes, \* bound on deletes of chats
    Failures,   \* what may go wrong: see Failing
    None

Failing == {"disconnect", "llm", "model", "redis", "sql", "shutdown"}

ASSUME ChatTurnAssumption ==
    /\ Queries \subseteq Nat /\ MaxActive \in Nat /\ MaxTokens \in Nat /\ MaxDeletes \in Nat
    /\ Failures \subseteq Failing
    /\ None \notin Queries \union Chats

VARIABLES
    last,       \* agent.last_state: whose messages, and if the answer is among them
    callback,   \* agent.stream_callback: whose queue it writes to
    usage,      \* agent._usage_accumulator: the queries counted since it was reset
    chat,       \* per query, the chat it is for
    stream,     \* where event_stream is
    queue,      \* token_q
    shown,      \* the events the client was sent
    cut,        \* did the client disconnect
    runner,     \* where _run_graph is
    captured,   \* whose queue _stream_response writes to
    sent,       \* how many tokens the model produced
    failed,     \* did the runner raise
    persist,    \* where _persist_conversation is
    held,       \* the turn it read
    partial,    \* per chat, "partial" in Redis: whose answer is in it
    log,        \* per chat, the turns appended to the store
    up,         \* is the connection pool open
    deletes,    \* how many deletes there were
    dropping,   \* chats whose delete has still to clear the partial
    gone,       \* history, per chat: the queries at rest when it was deleted
    met         \* history: the queries that were in progress at the same time as another

agent == <<last, callback, usage>>
streams == <<chat, stream, shown, cut>>
runners == <<runner, captured, sent, failed>>
stores == <<persist, held, log, up>>
removal == <<deletes, dropping, gone>>
vars == <<agent, streams, queue, runners, stores, partial, removal, met>>

Turn == [of : Queries, answered : BOOLEAN]
\* An event, and the queries whose data it carries.
Event == [type : {"token", "usage", "done", "error", "sentinel"}, of : SUBSET Queries]
Ev(type, of) == [type |-> type, of |-> of]

Init ==
    /\ last = None /\ callback = None /\ usage = {}
    /\ chat = [q \in Queries |-> None]
    /\ stream = [q \in Queries |-> "none"]
    /\ queue = [q \in Queries |-> <<>>]
    /\ shown = [q \in Queries |-> <<>>]
    /\ cut = [q \in Queries |-> FALSE]
    /\ runner = [q \in Queries |-> "none"]
    /\ captured = [q \in Queries |-> None]
    /\ sent = [q \in Queries |-> 0]
    /\ failed = [q \in Queries |-> FALSE]
    /\ persist = [q \in Queries |-> "none"]
    /\ held = [q \in Queries |-> None]
    /\ partial = [c \in Chats |-> None]
    /\ log = [c \in Chats |-> <<>>]
    /\ up = TRUE
    /\ deletes = 0 /\ dropping = {} /\ gone = [c \in Chats |-> {}]
    /\ met = {}

Stream(q, from, to) == stream[q] = from /\ stream' = [stream EXCEPT ![q] = to]
Runner(q, from, to) == runner[q] = from /\ runner' = [runner EXCEPT ![q] = to]
Persist(q, from, to) == persist[q] = from /\ persist' = [persist EXCEPT ![q] = to]
Show(q, e) == shown' = [shown EXCEPT ![q] = Append(@, e)]
Emit(q, events) == queue' = [queue EXCEPT ![q] = @ \o events]
Tokens(q) == Cardinality({i \in DOMAIN shown[q] : shown[q][i].type = "token"})

Active(q) ==
    \/ stream[q] \notin {"none", "closed"}
    \/ runner[q] \notin {"none", "over"}
    \/ persist[q] \in {"ready", "append"}
InProgress == {q \in Queries : Active(q)}

-------------------------------------------------------------------------------
\* event_stream and ChatAgent.query

Start(q, c) ==
    /\ up /\ \A x \in Queries : x < q => stream[x] # "none"
    /\ Cardinality(InProgress) < MaxActive
    /\ Stream(q, "none", "clear")
    /\ chat' = [chat EXCEPT ![q] = c]
    /\ met' = IF InProgress = {} THEN met ELSE met \union InProgress \union {q}
    /\ UNCHANGED <<agent, shown, cut, queue, runners, stores, partial, removal>>

\* DEL partial, whose failure is swallowed.
ClearPartial(q) ==
    /\ Stream(q, "clear", "launch")
    /\ \/ partial' = [partial EXCEPT ![chat[q]] = None]
       \/ "redis" \in Failures /\ UNCHANGED partial
    /\ UNCHANGED <<agent, chat, shown, cut, queue, runners, stores, removal, met>>

\* Slip: a callback that is set is not replaced.
LaunchOldCallback(q) ==
    /\ Stream(q, "launch", "next")
    /\ last' = None /\ usage' = {}
    /\ callback' = IF callback = None THEN q ELSE callback
    /\ runner' = [runner EXCEPT ![q] = "ready"]
    /\ UNCHANGED <<chat, shown, cut, queue, captured, sent, failed, stores, partial, removal, met>>

\* Slip: the accumulator is not reset.
LaunchOldUsage(q) ==
    /\ Stream(q, "launch", "next")
    /\ last' = None /\ callback' = q /\ UNCHANGED usage
    /\ runner' = [runner EXCEPT ![q] = "ready"]
    /\ UNCHANGED <<chat, shown, cut, queue, captured, sent, failed, stores, partial, removal, met>>

\* Slip: the runner is started before there is a callback.
LaunchNoCallback(q) ==
    /\ Stream(q, "launch", "next")
    /\ last' = None /\ usage' = {} /\ UNCHANGED callback
    /\ runner' = [runner EXCEPT ![q] = "ready"]
    /\ UNCHANGED <<chat, shown, cut, queue, captured, sent, failed, stores, partial, removal, met>>

\* query() up to its first wait: reset the agent and start the runner.
Launch(q) ==
    /\ Stream(q, "launch", "next")
    /\ last' = None /\ usage' = {} /\ callback' = q
    /\ runner' = [runner EXCEPT ![q] = "ready"]
    /\ UNCHANGED <<chat, shown, cut, queue, captured, sent, failed, stores, partial, removal, met>>

\* The selected model is not available: no runner.
LaunchFails(q) ==
    /\ "model" \in Failures
    /\ Stream(q, "launch", "closed") /\ Show(q, Ev("error", {q}))
    /\ UNCHANGED <<agent, chat, cut, queue, runners, stores, partial, removal, met>>

Receive(q) ==
    /\ queue[q] # <<>>
    /\ queue' = [queue EXCEPT ![q] = Tail(@)]
    /\ IF Head(queue[q]).type = "sentinel"
       THEN Stream(q, "next", "join") /\ UNCHANGED shown
       ELSE Stream(q, "next", "sent") /\ Show(q, Head(queue[q]))
    /\ UNCHANGED <<agent, chat, cut, runners, stores, partial, removal, met>>

\* The event is sent and the client is still there.
Sent(q) ==
    /\ Stream(q, "sent", "next")
    /\ UNCHANGED <<agent, chat, shown, cut, queue, runners, stores, partial, removal, met>>

\* query() waits for its runner, and reports what it raised.
Join(q) ==
    /\ runner[q] = "over"
    /\ Stream(q, "join", "closed")
    /\ IF failed[q] THEN Show(q, Ev("error", {q})) ELSE UNCHANGED shown
    /\ UNCHANGED <<agent, chat, cut, queue, runners, stores, partial, removal, met>>

-------------------------------------------------------------------------------
\* The client goes away.  The server cancels the stream at the await it is in, and again
\* at each further one.

Cut(q) == "disconnect" \in Failures /\ cut' = [cut EXCEPT ![q] = TRUE]

CutClearing(q) ==
    /\ Cut(q) /\ Stream(q, "clear", "closed")
    /\ partial' \in {partial, [partial EXCEPT ![chat[q]] = None]}
    /\ UNCHANGED <<agent, chat, shown, queue, runners, stores, removal, met>>

\* Within send: the generators are closed, which is no CancelledError.
CutSending(q) ==
    /\ Cut(q) /\ Stream(q, "sent", "closed")
    /\ UNCHANGED <<agent, chat, shown, queue, runners, stores, partial, removal, met>>

\* is_disconnected() says so after the event.
CutPolling(q) ==
    /\ Cut(q) /\ Stream(q, "sent", "save")
    /\ UNCHANGED <<agent, chat, shown, queue, runners, stores, partial, removal, met>>

\* Within token_q.get(): query() waits for its runner before it gives up.
CutWaiting(q) ==
    /\ Cut(q) /\ queue[q] = <<>> /\ Stream(q, "next", "drain")
    /\ UNCHANGED <<agent, chat, shown, queue, runners, stores, partial, removal, met>>

\* The next cancellation hits that wait, and so the runner, which may not have begun.
CancelRunner(q) ==
    /\ stream[q] = "drain"
    /\ \/ Runner(q, "ready", "over")
       \/ \E l \in {"asked", "tokens", "answered"} : Runner(q, l, "finish")
    /\ UNCHANGED <<agent, streams, queue, captured, sent, failed, stores, partial, removal, met>>

\* An error of the runner replaces the cancellation, and nothing is saved.
Drained(q) ==
    /\ runner[q] = "over"
    /\ Stream(q, "drain", IF failed[q] THEN "closed" ELSE "save")
    /\ UNCHANGED <<agent, chat, shown, cut, queue, runners, stores, partial, removal, met>>

\* SET partial, if there is any text; it may be cancelled too.
Save(q) ==
    /\ Stream(q, "save", "closed")
    /\ \/ Tokens(q) > 0 /\ partial' = [partial EXCEPT ![chat[q]] = q]
       \/ UNCHANGED partial
    /\ UNCHANGED <<agent, chat, shown, cut, queue, runners, stores, removal, met>>

-------------------------------------------------------------------------------
\* _run_graph and generate

\* The graph's first value is its input: the question alone.
Begin(q) ==
    /\ Runner(q, "ready", "asked")
    /\ last' = [of |-> q, answered |-> FALSE]
    /\ UNCHANGED <<callback, usage, streams, queue, captured, sent, failed, stores, partial, removal, met>>

\* After retrieval the model starts to answer; its tokens go where the callback is now.
Answering(q) ==
    /\ Runner(q, "asked", "tokens") /\ captured' = [captured EXCEPT ![q] = callback]
    /\ UNCHANGED <<agent, streams, queue, sent, failed, stores, partial, removal, met>>

Token(q) ==
    /\ runner[q] = "tokens" /\ sent[q] < MaxTokens
    /\ sent' = [sent EXCEPT ![q] = @ + 1]
    /\ Emit(captured[q], <<Ev("token", {q})>>)
    /\ UNCHANGED <<agent, streams, runner, captured, failed, stores, partial, removal, met>>

\* The answer is complete, with the usage report that was asked for.
Answered(q) ==
    /\ Runner(q, "tokens", "answered")
    /\ usage' = usage \union {q}
    /\ Emit(callback, <<Ev("usage", usage')>>)
    /\ UNCHANGED <<last, callback, streams, captured, sent, failed, stores, partial, removal, met>>

Final(q) ==
    /\ Runner(q, "answered", "finish")
    /\ last' = [of |-> q, answered |-> TRUE]
    /\ UNCHANGED <<callback, usage, streams, queue, captured, sent, failed, stores, partial, removal, met>>

\* Retrieval or the model fails, or times out: generate raises.
LLMError(q) ==
    /\ "llm" \in Failures
    /\ Runner(q, "asked", "finish") \/ Runner(q, "tokens", "finish")
    /\ failed' = [failed EXCEPT ![q] = TRUE]
    /\ UNCHANGED <<agent, streams, queue, captured, sent, stores, partial, removal, met>>

\* Slip: the end goes to whoever the callback serves.
FinishToCallback(q) ==
    /\ Runner(q, "finish", "over")
    /\ Emit(callback, <<Ev("done", {q}), Ev("sentinel", {q})>>)
    /\ persist' = [persist EXCEPT ![q] = IF last = None THEN "none" ELSE "ready"]
    /\ UNCHANGED <<agent, streams, captured, sent, failed, held, log, up, partial, removal, met>>

\* Slip: only the sentinel is sent in the finally.
FinishWithoutDone(q) ==
    /\ Runner(q, "finish", "over")
    /\ Emit(q, IF failed[q] THEN <<Ev("sentinel", {q})>> ELSE <<Ev("done", {q}), Ev("sentinel", {q})>>)
    /\ persist' = [persist EXCEPT ![q] = IF last = None THEN "none" ELSE "ready"]
    /\ UNCHANGED <<agent, streams, captured, sent, failed, held, log, up, partial, removal, met>>

\* Slip: not in a finally.
FinishUnlessFailed(q) ==
    /\ Runner(q, "finish", "over")
    /\ IF failed[q] THEN UNCHANGED queue
       ELSE Emit(q, <<Ev("done", {q}), Ev("sentinel", {q})>>)
    /\ persist' = [persist EXCEPT ![q] = IF last = None THEN "none" ELSE "ready"]
    /\ UNCHANGED <<agent, streams, captured, sent, failed, held, log, up, partial, removal, met>>

\* Slip: nothing is kept for a client that has gone.
FinishIfConnected(q) ==
    /\ Runner(q, "finish", "over")
    /\ Emit(q, <<Ev("done", {q}), Ev("sentinel", {q})>>)
    /\ persist' = [persist EXCEPT ![q] = IF last = None \/ cut[q] THEN "none" ELSE "ready"]
    /\ UNCHANGED <<agent, streams, captured, sent, failed, held, log, up, partial, removal, met>>

\* The finally of _run_graph: end the stream, and start to persist whatever last_state is.
Finish(q) ==
    /\ Runner(q, "finish", "over")
    /\ Emit(q, <<Ev("done", {q}), Ev("sentinel", {q})>>)
    /\ persist' = [persist EXCEPT ![q] = IF last = None THEN "none" ELSE "ready"]
    /\ UNCHANGED <<agent, streams, captured, sent, failed, held, log, up, partial, removal, met>>

-------------------------------------------------------------------------------
\* _persist_conversation, a task of its own

PersistRead(q) ==
    /\ Persist(q, "ready", IF last = None THEN "lost" ELSE "append")
    /\ held' = [held EXCEPT ![q] = last]
    /\ UNCHANGED <<agent, streams, queue, runners, log, up, partial, removal, met>>

PersistAppend(q) ==
    /\ up /\ Persist(q, "append", "done")
    /\ log' = [log EXCEPT ![chat[q]] = Append(@, held[q])]
    /\ UNCHANGED <<agent, streams, queue, runners, held, up, partial, removal, met>>

\* The error is logged.
PersistFails(q) ==
    /\ ~up \/ "sql" \in Failures
    /\ Persist(q, "append", "lost")
    /\ UNCHANGED <<agent, streams, queue, runners, held, log, up, partial, removal, met>>

\* The server lets the open streams end, then lifespan closes the pool.
Shutdown ==
    /\ "shutdown" \in Failures /\ up /\ \A q \in Queries : stream[q] \in {"none", "closed"}
    /\ up' = FALSE
    /\ UNCHANGED <<agent, streams, queue, runners, persist, held, log, partial, removal, met>>

-------------------------------------------------------------------------------
\* delete_conversation and the life of a partial, next to the turns

\* The rows go first.  Nothing stops a turn of the chat that is in progress.
Delete(c) ==
    /\ up /\ deletes < MaxDeletes /\ deletes' = deletes + 1
    /\ \E q \in Queries : chat[q] = c
    /\ log' = [log EXCEPT ![c] = <<>>]
    /\ dropping' = dropping \union {c}
    /\ gone' = [gone EXCEPT ![c] = {q \in Queries : chat[q] = c /\ ~Active(q)}]
    /\ UNCHANGED <<agent, streams, queue, runners, persist, held, up, partial, met>>

\* Slip: the delete leaves the partial to its TTL.
DropPartialNever(c) ==
    /\ c \in dropping /\ dropping' = dropping \ {c}
    /\ UNCHANGED <<agent, streams, queue, runners, stores, partial, deletes, gone, met>>

\* Then DEL partial, whose failure is swallowed.
DropPartial(c) ==
    /\ c \in dropping /\ dropping' = dropping \ {c}
    /\ \/ partial' = [partial EXCEPT ![c] = None] /\ UNCHANGED gone
       \/ /\ "redis" \in Failures
          /\ gone' = [gone EXCEPT ![c] = @ \ {partial[c]}] /\ UNCHANGED partial
    /\ UNCHANGED <<agent, streams, queue, runners, stores, deletes, met>>

\* The TTL of a partial (cache.py:49).
ExpirePartial(c) ==
    /\ partial[c] # None
    /\ partial' = [partial EXCEPT ![c] = None]
    /\ UNCHANGED <<agent, streams, queue, runners, stores, removal, met>>

-------------------------------------------------------------------------------
Streaming(q) ==
    \/ ClearPartial(q) \/ Launch(q) \/ LaunchFails(q) \/ Receive(q) \/ Sent(q) \/ Join(q)
    \/ Drained(q) \/ Save(q)
Disconnect(q) ==
    \/ CutClearing(q) \/ CutSending(q) \/ CutPolling(q) \/ CutWaiting(q) \/ CancelRunner(q)
Running(q) ==
    \/ Begin(q) \/ Answering(q) \/ Token(q) \/ Answered(q) \/ Final(q)
    \/ LLMError(q) \/ Finish(q)
Persisting(q) == PersistRead(q) \/ PersistAppend(q) \/ PersistFails(q)

Next ==
    \/ \E q \in Queries :
          \/ \E c \in Chats : Start(q, c)
          \/ Streaming(q) \/ Disconnect(q) \/ Running(q) \/ Persisting(q)
    \/ \E c \in Chats : Delete(c) \/ DropPartial(c) \/ ExpirePartial(c)
    \/ Shutdown

Spec == Init /\ [][Next]_vars

\* Tasks that can run do, and the model answers or its request times out.
FairSpec ==
    /\ Spec
    /\ \A q \in Queries : /\ WF_vars(Streaming(q))
                          /\ WF_vars(Running(q))
                          /\ WF_vars(Persisting(q))

-------------------------------------------------------------------------------
\* A runner and its persist task exist from the launch on, and hold what they use.
TypeOK ==
    /\ last \in Turn \union {None} /\ callback \in Queries \union {None}
    /\ usage \subseteq Queries
    /\ chat \in [Queries -> Chats \union {None}]
    /\ stream \in [Queries -> {"none", "clear", "launch", "next", "sent", "join", "drain",
                               "save", "closed"}]
    /\ queue \in [Queries -> Seq(Event)] /\ shown \in [Queries -> Seq(Event)]
    /\ cut \in [Queries -> BOOLEAN] /\ failed \in [Queries -> BOOLEAN]
    /\ runner \in [Queries -> {"none", "ready", "asked", "tokens", "answered", "finish",
                               "over"}]
    /\ captured \in [Queries -> Queries \union {None}]
    /\ sent \in [Queries -> 0 .. MaxTokens]
    /\ persist \in [Queries -> {"none", "ready", "append", "done", "lost"}]
    /\ held \in [Queries -> Turn \union {None}]
    /\ partial \in [Chats -> Queries \union {None}]
    /\ log \in [Chats -> Seq(Turn)] /\ up \in BOOLEAN
    /\ deletes \in 0 .. MaxDeletes /\ dropping \subseteq Chats
    /\ gone \in [Chats -> SUBSET Queries] /\ met \subseteq Queries
    /\ \A q \in Queries :
         /\ stream[q] # "none" => chat[q] \in Chats
         /\ stream[q] \in {"none", "clear", "launch"} => runner[q] = "none"
         /\ runner[q] # "none" => callback # None
         /\ runner[q] = "tokens" => captured[q] # None
         /\ persist[q] # "none" => runner[q] = "over"
         /\ persist[q] = "append" => held[q] # None

InSeq(s) == {s[i] : i \in DOMAIN s}

\* Every event of a stream and every stored turn is of the query that asked for it, and
\* no query is stored twice (agent.py:422-426, 490-499), as the module comment of main.py:
\* 19-22 promises.
OwnTurnsOnly ==
    /\ \A q \in Queries : \A e \in InSeq(shown[q]) : e.of = {q}
    /\ \A c \in Chats : /\ \A t \in InSeq(log[c]) : chat[t.of] = c
                        /\ \A i, j \in DOMAIN log[c] : log[c][i].of = log[c][j].of => i = j

\* The promise is kept to a query that meets no other, whoever overlapped before or overlaps
\* after it: the agent it finds and leaves behind carries nothing over.
OwnUnlessMet ==
    /\ \A q \in Queries \ met : \A e \in InSeq(shown[q]) : e.of = {q}
    /\ \A c \in Chats :
         /\ \A t \in InSeq(log[c]) : t.of \in met \/ chat[t.of] = c
         /\ \A i, j \in DOMAIN log[c] : log[c][i].of = log[c][j].of => i = j \/ log[c][i].of \in met

\* A client that stays has seen every token the model produced when its stream ends, the
\* tokens before an error included (agent.py:428-433), if its turn met no other.
CompleteAnswers ==
    \A q \in Queries \ met : stream[q] = "closed" /\ ~cut[q] => Tokens(q) = sent[q]

\* However turns overlap, a stream that was launched and not cut ends with one done event,
\* followed at most by the error of its own runner (agent.py:428-448, 481-483).
DoneExactlyOnce ==
    \A q \in Queries :
        LET s == shown[q]
            dones == {i \in DOMAIN s : s[i].type = "done"}
        IN  /\ dones \subseteq {Len(s) - 1, Len(s)} /\ Cardinality(dones) =< 1
            /\ stream[q] = "closed" /\ ~cut[q] /\ runner[q] # "none" =>
                   dones = {IF failed[q] THEN Len(s) - 1 ELSE Len(s)}

\* However turns overlap and fail, every stream ends, and gives its slot back
\* (agent.py:428-438, main.py:330-360).
EveryStreamEnds == \A q \in Queries : stream[q] # "none" ~> stream[q] = "closed"

\* A turn the model answered is stored in its chat, even if the client has gone
\* (agent.py:480-488), unless it meets another.
AnsweredIsKept ==
    \A q \in Queries :
        (runner[q] = "finish" /\ last = [of |-> q, answered |-> TRUE])
            ~> \/ q \in met
               \/ \E c \in Chats : chat[q] = c /\ [of |-> q, answered |-> TRUE] \in InSeq(log[c])

\* What was over when its chat was deleted does not come back: its partial never, its turn
\* not if it met no other, though other turns of the chat are in progress, begin while the
\* delete is under way or are stored after it (postgres_storage.py:700-718).
DeletedStaysGone ==
    \A c \in Chats :
        /\ \A t \in InSeq(log[c]) : t.of \notin gone[c] \ met
        /\ c \notin dropping => partial[c] \notin gone[c]
===============================================================================
