# TLA+ models of rag-agent-chatbot

Specifications, TLC configurations and TLAPS proofs for the retrieval chatbot in
`src/assets/backend` (FastAPI, LangGraph, PostgreSQL, Redis, Milvus) and the state its React
front end keeps. File names below are relative to `src/assets/backend` unless they start with
`src/`.

## The system

Several identical **pods** run `main.py`. A pod serves every user from one asyncio loop and holds
one `ChatAgent`, one `PostgreSQLConversationStorage` with its own in-process caches, one
connection pool and one Redis client. PostgreSQL and Redis are shared by the pods.

| Component | State | Operations | Interacts by |
|---|---|---|---|
| Per-user stream cap (`cache.py:141-194`, `main.py:320-370`) | a Redis counter with an expiry per user | acquire, reject, fail open, release, floor | Redis commands; every query holds a slot for as long as its stream |
| Chat history store (`postgres_storage.py`) | tables `conversations`, `messages`; L1 lists per pod; L2 lists in Redis | exists, get_messages / get_history_dicts, append_messages_to_chat, create_empty_chat, delete_conversation, list_conversations | SQL, Redis; called by the HTTP handlers and by the agent's persist task |
| Chat turn (`agent.py`, `main.py:287-370`) | `last_state`, `stream_callback`, `_usage_accumulator` of the one agent; a queue per query; the partial answer in Redis | query, _run_graph, generate, _stream_response, _persist_conversation, event_stream, disconnect, shutdown | asyncio tasks and queues; ends in an append of the store |
| Ingestion and sources (`main.py:373-639`, `utils.py`, `postgres_storage.py:857-948`) | `indexing_tasks` in the memory of the pod, `document_sources`, files, vectors, selected sources | upload, background ingestion, status, list, delete, select | background tasks, Milvus, PostgreSQL |
| Vector store (`vector_store.py`) | a Milvus collection, the flag that it was migrated | index, search with a visibility filter, delete by source, migrate | called by ingestion and by the agent |
| Authentication (`auth.py`) | the JWKS document and when it was fetched | fetch, refresh loop, choose a key, decode | HTTP to the identity provider; every request |
| Configuration (`config.py`, `main.py:642-666`) | the configuration file, the copy in memory; the agent's current model and client | read, write, select a model | a file on a volume of the pod; every query takes the selection over |
| Token path (`agent.py:271-382`, `main.py:270-272`, `src/assets/frontend/src/lib/api.ts`) | what the filter holds back, bytes on their way, the buffer of the page | filter a chunk, frame a token, read | server-sent events |
| Chats, metadata, preferences (`main.py:680-860`) | `chat_metadata`, `user_preferences`, their caches | new, rename, clear, delete, current chat | sequences of store operations |
| Front end (`src/assets/frontend`) | the open chat, its messages, the stream being read, polls | switch, ask, cancel, delete, upload | HTTP and server-sent events |

### What makes it hard

* every `await` is a point where another request of the pod runs, and other pods run all the time;
* three copies of a chat (table, L1 of every pod, Redis) are updated without a transaction;
* Redis commands may fail and are swallowed, pods crash between two of them, keys expire;
* a client may go away at any await; cancellation reaches the stream and through it the runner;
* attributes of the one agent are shared by the queries of all users of a pod;
* background tasks outlive the request that started them and nobody awaits them.

The hazards, each at its line, are in `PROJECT.json` under `hazards`, with the properties that
would catch them.

### What makes each part correct

| Part | It is correct when |
|---|---|
| Stream cap | the number of open streams of a user never passes the cap unless the limiter said it was degraded, and a leak never shuts a user out for good |
| Chat history store | the tables agree with each other, a cache never shows what was not committed to the same user and chat, caches become right again, and a turn is not lost |
| Chat turn | a stream carries its own query only, ends, with one `done`; a complete answer reaches a client that stays and is stored whatever the client does. The first and the last two hold of a turn while no other is in progress on its pod |
| Sources | a row has its chunks, chunks can be deleted by their owner, a client is told `completed` only for listed files, a selection changes only as asked |
| Front end | the page shows the chat it says it shows, reads one stream it can stop, agrees with the server, and its composer comes back |
| Authentication | a token of a published key is accepted whatever is rotated, unless the one fetch it triggered failed; the cache comes to hold what the provider publishes |
| Configuration | a query is answered by an available model that was selected while it ran |
| Token path | the page shows the answer without its think blocks, however it is cut |
| Chat names | every pod comes to show the name in the database |
| Vector schema | a pod that is ready never faces the old schema; old chunks and acknowledged uploads survive the migration, save for its named mishaps |

## Modules

| Module | Models | Composed with |
|---|---|---|
| `StreamCap` | abstract: a set of holders that grows below the cap unless degraded | |
| `StreamSlots` | the slot protocol of `cache.py` on one Redis key, every command a step, all pods | implements `StreamCap` (`INSTANCE StreamCap WITH holders <- Admitted, degraded <- tainted`) |
| `StreamSlots_proofs` | its theorems | |
| `ChatTable` | abstract: owner and turns of each chat, and the turns stored so far | |
| `ChatStore` | PostgreSQL tables, L1 of every pod, Redis, chat lists; every SQL statement and Redis command a step | its tables implement `ChatTable` (`log` is who sent what in a chat, `stored` the turns that were committed) |
| `ChatStore_proofs` | its theorems | |
| `ChatTurn`, `ChatTurn_proofs` | one pod's agent with its shared attributes, runner, event stream, persist task; its theorems | uses the slot of `StreamSlots`, ends in the append of `ChatStore` |
| `DocumentSources`, `DocumentSources_proofs` | uploads, background indexing, task status, rows, chunks, delete, selection; its theorems | |
| `ChatView`, `ChatView_proofs` | one browser tab with React's delayed effects, and the composite chat handlers of `main.py`; its theorems | sees a turn as answered and stored some time |
| `VectorMigration`, `VectorMigration_proofs` | the lazy migration of the Milvus collection inside of the operations of all pods and threads; its theorems | |
| `Jwks` | the key cache of a pod: refresh loop, requests, lock, choice of a key, rotation | |
| `ModelSelection` | the selected model from `config.json` to the call of the model | takes over a launch and a call of `ChatTurn` |
| `TokenPipe` | the think filter, the frames and the page's buffer | details a token of `ChatTurn` |
| `Answer_proofs` | the theorems of the last two: what is answered, and what of it is shown | extends both |
| `ChatNames` | the name of a chat in its row and in the cache of every pod | |
| `PodCopies_proofs` | the theorems of `Jwks` and `ChatNames`: what a pod has copied and nobody tells it changes of | extends `Jwks`, `INSTANCE` of `ChatNames` |
| `MCPlatform` | instances of six modules that share no state: `StreamSlots` with a patient user, twice, and `VectorMigration`, `Jwks`, `ModelSelection`, `TokenPipe`, `ChatNames` | extends three of them (so that TLC evaluates their assumptions), `INSTANCE` of the others; the initial state says which one runs |
| other `MC*` | instances for TLC: the symmetry sets | |

The line of every definition is in `PROJECT.json` under `map`. The names follow the code; a
definition preceded by "Slip:" is a plausible mistake in the definition after it, and takes no
part in the specification: with the slip in its place the property named in `mutants` fails, which
shows that the property depends on that piece of code.

### StreamSlots

`count` and `ttl` are the Redis key. `Acquire` is the INCR of `acquire_stream_slot`, `ArmExpiry` the
EXPIRE and the comparison, `Reject` the DECR of a 429; `FailOpen` is any command raising, with or
without having reached Redis. `Release`, `Floor` and `ReleaseLost` are `release_stream_slot`.
`AcquireUnlinked` and `ReleaseUnlinked` are a pod whose `connect()` failed. `Tick` ages the key and
the streams, `Restart` is a pod that dies with its streams. Two history variables say when the
counter may be wrong: `credited` are the streams whose INCR is in the key as it is now, and
`tainted` is set when a live claim is not credited (fail open, or the key expired under a stream)
and cleared when the user has no stream and the counter is not negative.

### ChatStore

`owner`, `count`, `rows`, `pend` are the tables and the open transactions; `l1`, `list1` the
in-process caches of every pod; `l2`, `list2` Redis. `op` holds the operations in progress: where
each is (`pc`) and its local values. `ReadHistory ... SetL2` is `get_messages` /
`get_history_dicts`; `Query ... CommitTurn, Merge` the ownership check of
`POST /chat/{chat_id}/query` and
`append_messages_to_chat`; `Create, Seed` `create_empty_chat`; `Delete, Invalidate, DropL2`
`delete_conversation`; `ListChats ... SetList` `list_conversations`. A step is one statement or
command, and the code after its answer is another. The two messages of a turn are one row,
because one statement inserts both. The INSERT into `conversations` waits for an uncommitted
row with the same key, which `pend` models; read committed is the isolation the pool uses.

### ChatTurn

`last`, `callback`, `usage` are `last_state`, `stream_callback`, `_usage_accumulator` of the one
agent. `Launch`, `Receive`, `Sent`, `Join` are `query()` and the loop of `event_stream`; `Begin`,
`Answering`, `Token`, `Answered`, `Final`, `Finish` are `_run_graph`, `generate` and
`_stream_response`; `PersistRead`, `PersistAppend` are `_persist_conversation`. The `Cut*` actions
are the places where a disconnect can hit: within a send, at the poll of `is_disconnected()`, while
waiting for the queue. The last needs a second cancellation for the runner (`CancelRunner`),
because `query()` shields nothing but awaits its task in a `finally`. `Delete` and `DropPartial` are
`delete_conversation` as far as turns see it, in its two parts: the rows, then the partial in Redis;
`ExpirePartial` is the TTL of a partial. Two variables are history: `gone`, the turns of a chat that were over when it
was deleted, and `met`, the queries that were in progress at the same time as another (`Active`: its stream, its
runner or its persist task is). A turn that met another may lose or mix up data, as `turn_cross` shows; `OwnUnlessMet`,
`CompleteAnswers` and `AnsweredIsKept` are what a turn that met none is owed all the same, whoever overlapped before it or
overlaps after it, and `DoneExactlyOnce`, `EveryStreamEnds` and the partials of `DeletedStaysGone` hold of every turn.

### DocumentSources

`Ingest` is the accepted request of `/ingest`; `StartLoading`, `Loaded`, `Index`, `SaveRow`,
`Complete`, `FailIngest` the background task of `utils.py` with its calls of the vector store and
of PostgreSQL; `Poll` and `GiveUp` the polling of `DocumentIngestion.tsx`; `DeleteRow`,
`DeleteVectors`, `ReadPrefs`, `StorePrefs` `DELETE /sources/{source_name}`; `Choose`, `StoreChoice`
`POST /selected_sources`. `Restart` stops the pod's tasks and requests and forgets its
`indexing_tasks`. `overlap` is history: which deletes ran at the same time as which uploads,
choices and other deletes.

### ChatView

`shown`, `view`, `streaming`, `ref`, `pending` are `currentChatId`, `response`, `isStreaming`,
`streamAbortRef`, `pendingTokens`; `due` says that the effects of the last change of chat are still
to run. `Effects`, `Headers`, `Apply` are the history effect of `QuerySection.tsx`; `Ask`, `Token`,
`Flush`, `Told`, `Finally`, `Cancel` the stream; `Select`, `New`, `Delete`, `Clear` with `Create`,
`Post`, `Switch`, `DeleteServer`, `List`, `ClearList`, `ClearOne` the side bar with the handlers of
`main.py:691-860`. The lists of chats that `List` and `ClearList` get may be up to a minute old, so they
are any set of ids there ever were; `misled` notes that the tab went on to a chat that was gone.

### VectorMigration

`coll` is the Milvus collection that bears the name `context`: its schema and how often it holds each chunk.
`op` are operations of the vector store, in whatever pod and thread: `Begin` looks at `_migration_done`;
`CheckSchema`, `ReadChunks`, `Drop`, `Create`, `InsertBatch` are `_migrate_collection_if_needed` call by call;
`Bind` builds the wrapper and sets the flag; `Use` is the operation itself; `GiveUp` is the `except` of
`_ensure_migrated`, reached by `Fail` or by a call that meets another schema or no collection. `Restart` ends
a pod. `mishaps` is history: what befell a migration that makes a loss possible.

### Jwks

`cache` is `_keys_by_kid`, `fresh` the comparison of `_last_fetch` with the interval, `loop` `init_jwks` and then
`_refresh_loop`. A request goes through `Arrive`, `Acquire` (the lock, with the check repeated), `Answer`,
`Deliver`; `Verdict` is `decode_jwt_token` from one return of `_ensure_keys` to the next, and `Pick`
`_pick_key_for_token`. `Rotate` is the auth service, `Age` the passing of the interval at any time. `steady` is
history: has the request's token been good ever since it arrived.

### TokenPipe

`think`, `pending` are the locals of `_stream_response`; `Filter` is its `while` loop on one chunk, `Pass` a round of it, `Take` what
comes before it, with the case of the first chunk. `wire` is what `_sse` has written and the page has not read, `Frames` the loop over `buffer`
in `streamChatQuery`, `Shown` what one of them adds to the page. The loops are recursive functions of the state in which a
round begins, so that they can be proved about. A text is a sequence of symbols, with the tags shortened to three and four symbols, and
what `json.dumps` does to a line break is kept, since the separator of frames depends on it.

### ModelSelection

`file` is the field in `config.json`, or its being missing or torn; `config` the copy of `ConfigManager`; `current`
the agent's model and client, which change together. `Start` is `_ensure_config_exists` and `ChatAgent.create`,
`Select` `POST /selected_model`, whose write may fail after the copy has changed, `Launch` the start of `query`,
`Call` the call in `generate`. `Crash` ends the container, with or without its volume.

### ChatNames

`row` is the row of `chat_metadata`, `cache` the `_metadata_cache` of each pod. `Read`, `Put` are `get_chat_metadata`;
`Rename`, `CheckOwned`, `Write`, `Put` `rename_chat`; `Delete`, `Invalidate` the part of `delete_conversation` that
matters; `Expire` is the TTL, `_cache_eviction_worker` or an eviction; `Fail` ends a request anywhere.

## Runs

| Run | Instance | Shows |
|---|---|---|
| `slots_cap` | 3 streams, 2 pods, cap 2, TTL 2, life 3, 2 faults | `CapUnlessDegraded` and the refinement of `StreamCap` under every race and every fault; without faults a counter above zero has an expiry or gets it at once (`PositiveIsTimed`) |
| `platform` | seven instances, one per initial state: | |
| - slots | 3 streams, 1 pod, cap 1, TTL 2, life 3, 1 fault, no tick inside a call | a user who waits out the TTL is served again and again (`PatientUserServed`); a counter below zero does not stay there (`NegativeHeals`) |
| - crowd | 4 streams, 1 pod, cap 1, TTL 1, life 1, no fault | `NegativeHeals` when more requests are rejected next to a release that floors the counter |
| - migration | 2 pods, 2 operations of any kind, 2 chunks, 2 faults | `ReadyNotLegacy`, `NothingLost` |
| - keys | 2 requests, 3 keys in 3 sets, 1 rotation, 1 failing fetch | `ValidTokenAccepted`, `KeysFollowProvider` |
| - tokens | all texts of three pieces out of seven, chunks up to 3 and reads up to 4 symbols | `PageShowsAnswer` |
| - model | 2 queries, 2 models and an unknown name, 3 selections, 1 crash | `AnsweredBySelection` |
| - names | 2 pods, 2 requests, 2 names, 2 renames | `NamesHeal` |
| `store_serial` | 1 pod, 2 chats, one operation at a time, no fault | `CoherentWhenIdle`: the three copies and both lists agree exactly after each operation |
| `store_race` | 2 users, the same chat, 2 operations, 3 writes, 1 fault | `CountMatchesRows`, `NoPhantom` |
| `store_heals` | 2 pods, 2 operations, 1 fault of any kind | `EventuallyCoherent`; `ImplementsTable`: a turn is stored at most once and whole, and goes only with its chat |
| `store_lost` | 2 appends of one user to one chat | a violation: `TurnsPersist` |
| `turn_serial` | 2 turns one after the other, 2 chats, disconnects, failures, 1 delete | `CompleteAnswers`, `AnsweredIsKept`, `DeletedStaysGone` |
| `turn_mixed` | 2 turns overlapping on a pod or one after the other, disconnects, errors, shutdown | `OwnUnlessMet`; `DoneExactlyOnce` and `EveryStreamEnds` also when the attributes are mixed up |
| `turn_cross` | 2 turns overlapping, no failure | a violation: `OwnTurnsOnly` |
| `sources_rows` | 2 users, 1 name, 2 uploads, 2 deletes, 1 fault | rows have their chunks, chunks can be deleted |
| `sources_settle` | 1 user, 2 names, 2 pods, upload, 2 deletes, choice, 1 fault | told means listed; selections; every upload and its polling end |
| `view` | 3 chats, 2 queries, 2 operations of the side bar (3 clicks in all), 2 loads, old lists, 1 fault | shows its chat, one stream, agrees with the server, composer comes back |

### Why the bounds are enough

*Slots.* The hazards need one stream over the cap (3 streams, cap 2), a release between the INCR and
the DECR of a rejected request (the third stream), the key expiring under a stream (life 3 > TTL 2)
and an error after a leak (2 faults); the cap itself is proved for any number of streams. In `platform` one fault
leaks the one slot of a user, which takes the key's whole life to heal. That the counter stays below zero takes a stream
whose key expired under it, one that is counted and one that is rejected (`slots`, cap 1); that the floor of the first wipes
out the increment of the rejected one takes four (`crowd`). *Store.* A lost append, a double merge and a stale fill each need two operations, a
third write makes the damage visible, and one fault reaches every recovery path. An append whose chat has changed hands since
its ownership check needs four writes and two users; that case of `ImplementsTable` is left to its proof. Two pods are
needed for stale L1. *Turn.* Everything shared is shared by two; one token is enough to be
delivered to the wrong stream. `turn_mixed` has no tokens, to keep it within minutes: a stream that another's callback serves
shows in the usage reports, and tokens are left to `TurnsAreOwn`. That a turn which met none is served right next to turns that did meet takes three queries, and that
case, like `CompleteAnswers` and `DeletedStaysGone` with overlapping turns, is left to the proofs.
*Sources.* A name taken over needs two users; a restart or a failure between any two steps is one
fault; what two deletes or a delete and a choice do to a selection needs two names. In `sources_settle` every request has
its pod beforehand (`Routed`): one pod takes the upload and a delete, the other the second delete and the choice, so that requests
of one pod and of two meet, and a restart ends some and leaves others. *View.* Three clicks are what the overlaps need: ask, switch, ask; or two operations and a
query. Two loads are two switches (a switch beyond them is not taken). *Migration.* Two operations reach every
mishap (a second drop needs two migrations, an overtaken one an upload), and two chunks a migration cut in the
middle of its batches; any number is proved. *Keys.* A request whose token is good and one that holds the lock are two; the
key sets have a retired key, an added one and one without `kid`. *Tokens.* A tag is shorter than the longest
read, so that each tag and each separator is cut at every place and also arrives whole. *Model.* One query
replaces the client of another. *Names.* A stale fill needs a read and a rename, on one pod or on two.

`platform` composes its parts by choice and not in parallel, since they share no variable: running them side by
side would multiply the states and add no behaviour to any of them. Each part is its module's own `Next`.

Deadlock is checked in `slots_cap` and the store runs that pass. `ChatTurn`, `DocumentSources`, `ChatView` and the parts
of `platform` have finitely many requests and stop when all are done, so there it is off;
`EveryStreamEnds`, `EveryUploadSettles` and `ComposerComesBack` say what a deadlock would break.
`store_lost` stops after its last write, too.

### Fairness

* `platform`, slots and crowd: calls in progress continue, streams end (see `EveryStreamEnds`), time passes, and
  the user comes back, but tries a full counter only when its key has no time left. That last
  condition is on the client: without it the property fails, see "Known divergences".
* `platform`, keys: the refresh loop wakes, and its calls end by an answer or the time-out of the client. No request
  is assumed to be made or to end, so it is the loop that brings the cache up to date.
* `platform`, names: a request that has begun goes on, and entries expire (every entry has a TTL).
* `platform`, migration, tokens and model: none, only safety is claimed.
* `store_heals`: every command is answered (asyncpg and redis time-outs make an answer of silence)
  and every entry expires (L1 and L2 entries are all written with a TTL). Nothing is assumed of clients.
* `turn_*`: tasks that can run do, which is asyncio's round robin; the model answers, or its request
  times out (`llm` client time-out). The client is not assumed to do anything.
* `sources_settle`: the loop runs its tasks, threads return, and the client polls at its interval.
* `view`: an open stream ends (which is what `turn_*` shows of the server, or the abort), and React runs
  passive effects. Nothing is assumed of the user, of the histories or of the side bar.

All are weak fairness.

## Findings

* **Lost append** (`store_lost`; `postgres_storage.py:630`). `MAX(position)` is read without a lock.
  Of two concurrent appends to one chat, one violates the primary key `(chat_id, position)`; the error
  ends in the log of a task that nobody awaits and the turn is stored nowhere, while
  `src/docs/architecture.md:405` says that completed messages are persisted after each turn.
* **Crossed turns** (`turn_cross`; `agent.py:425`). `query()` overwrites `stream_callback`, `last_state`
  and `_usage_accumulator` of the one agent of a pod. While two turns overlap, tokens of one go to the
  other's stream, usage is added up over both, and `_persist_conversation` stores the messages of one
  under the other's user and chat. `main.py:20-21` says cross-user reads are impossible.

### Known divergences

Met while modelling; each is in the models as the code has it, and is exempted, by name, in the property
it would break, or is outside of what the properties state.

*Slots.* INCR and EXPIRE are two commands (`cache.py:162`), so a counter without expiry exists until the
next acquire. A rejected request re-arms the EXPIRE (`cache.py:163`), so a full counter that leaked never
decays while its user retries, although `main.py:85-88` expects the TTL to heal it.
Only a release floors the counter. A rejected request takes its increment back as it is (`cache.py:165`). When a stream that outlived
the key has taken it back already, or its floor has wiped it out, the counter stays below zero with nobody about to repair
it, and one stream too many is let in, until the key expires or the user's next requests and releases make it good; the comment
at `cache.py:186` thinks of a double release only. `NegativeHeals` says that it ends.

*Store.* A stale L1 list is extended and written through to Redis
(`postgres_storage.py:671`; `src/docs/sse-and-caching-k8s.md:142-143`). A SET that fails after the commit
leaves the old entry (`:681`). A history read that fills L1 between the commit and the merge makes the
list hold the turn twice (`:673`). The ownership check takes no lock (`:619`): if the chat is deleted and opened again by another user
before the INSERT, the turn becomes a row of the other's chat, which its `message_count` counts and no read shows (reads are by `user_id`). A delete of a chat whose answer is still generated brings it back.

*Turn.* When the model fails, the question is stored without an answer (`agent.py:485`). After a disconnect
both the partial and the full answer may be kept (`main.py:353`). A client that goes while `send` is
awaited closes the generators, and the text read so far is not saved (`main.py:350`;
`src/docs/architecture.md:408`). The pool closes before persist tasks that are still waiting
(`main.py:218`; `src/docs/sse-and-caching-k8s.md:143-144`). The error event of a failed runner comes after
`done` (`agent.py:448`).

*Sources.* `src/docs/architecture.md:510` says the key of `document_sources` is `(source_name, user_id)`; in
the code it is `source_name`, so another user's upload takes the row over and the first owner's chunks can
no longer be deleted through it (`postgres_storage.py:872`). Deleting the only selected source leaves an
empty selection, which a search takes for all visible sources (`src/docs/architecture.md:574`). A file that
cannot be loaded is listed with no chunks and reported `completed`. The status of a task is per pod, so a
poll that reaches another pod gets 404. An upload that fails part way leaves chunks that are found but not
listed. A choice stored while a delete is between its read and its write is lost, and of two deletes at once the
second to write puts the first one's source back into the selection (`main.py:586`).

*Vector schema.* Between the drop and the last insert the chunks are only in the memory of one thread
(`vector_store.py:250`): a failing call or a restart loses them, and the retry finds nothing to migrate ("interrupted").
Two operations that both saw the old schema drop twice, the second time the new collection ("second drop"), and an upload on
another pod may create the missing collection first, with the wrapper's schema ("overtaken"). A migration that fails
because another thread was faster sets `_store = None` when the other has set `_migration_done` (`vector_store.py:198`): the pod
then skips the guard, and its uploads fail and its searches find nothing until it restarts, although the log says
"Will retry on next vector operation".

*Keys.* A request that comes when the cache is older than the interval fetches on the request path and makes others queue
for the lock (`auth.py:137`), although `auth.py:146-147` says a slow fetch never adds latency to a query. The answer of
the loop, which takes no lock, may replace a newer set; the forced fetch covers it.

*Tokens.* What is held back as the possible start of a tag is never sent when the answer ends there (`agent.py:341`), so an
answer that ends in `<` loses it. White space before a first `<think>` is dropped only if the tag is in the same chunk.

*Model.* The selection is "server-wide" (`main.py:643, 655`) in the sense of one pod: other pods do not see it, and it goes with the
pod. Any name can be selected; while one that is not available is, every query of the pod fails at its launch. A
selection whose write fails answers 500 and counts all the same (`config.py:189`).

*Names.* A rename or a delete is not announced to other pods, which show the old name until their entry expires; so does a pod
whose read was overtaken by a rename (`postgres_storage.py:782, 813`).

*View.* `QuerySection.tsx:252` does not look at `cancelled` after `await res.json()`: leaving a chat
while its history is between headers and body puts that history on the page of the next chat (`late`).
A history of the same chat that arrives after a query was sent takes the question away and frees the button;
a second query then overwrites `streamAbortRef`, so that the first stream can no longer be aborted and its
tokens appear in the chat that is shown next; `done` and the `finally` of an older stream free the button,
too (`hasty`). Choosing the chat that is shown empties the page without a reload (`App.tsx:189`).
Overlapping operations of the side bar leave the tab on a chat that is deleted or not the current one
(`crossed`). A pod may answer `GET /chats` with a list up to a minute old, so that after a delete the tab may choose a chat
that is gone, is refused, and stays on the deleted one (`misled`); clearing by an old list leaves the chats that are not on it.

## Proofs

TLAPS checks the following for every value of the constants under the assumption named in the module
(`StreamSlotsAssumption`: finitely many streams and numeric bounds; `ChatStoreAssumption`; `PipeAssumption`: texts are of
symbols, bounds are numbers; `ModelAssumption`: the default is available and "down", which stands for no configuration, is nobody's name)
or in the theorem. Every invariant that a passing run checks is stated by a theorem; `TypesOK` of `MCPlatform` is a conjunction of instances
of five `TypeOK`s, and each of these is.

**StreamSlots.** `TypeCorrect` (`[]TypeOK`), `CapHolds` (`[]CapUnlessDegraded`) and `Refinement`
(`Spec => ImplementsCap`); `PositiveTimed` (`[]PositiveIsTimed`), which needs no more than the types. The cap is not inductive: a request compares the reply of an INCR that may be
old by then. `IInv == TypeOK /\ Counted`, where `Counted` says that, unless degraded, every claim is in the counter,
the counter is at least the number of claims (it may be more, by what leaked), no release is about to floor
it, and the *winners* fit under the cap: the streams that are open together with those whose reply, as old
as it may be, will let them in. `TypeStep` and `CountedStep` show it inductive, one case per
action; `RoomForWinner` derives from it that a stream that wins its comparison finds a free place, which
with `StepSimulation` gives the refinement: each step is an Enter, a Leave or a stutter of `StreamCap`.

**ChatStore.** `TypeCorrect` (`[]TypeOK`), `CountsRows` (`[]CountMatchesRows`), `NoPhantoms`
(`[]NoPhantom`) and `Refinement` (`Spec => ImplementsTable`). `IInv == TypeOK /\ TableInv /\ CacheInv`. `TableInv` adds to the counts that a
transaction that inserts a `conversations` row does so on a chat that has none, that rows, transactions and
queries are only of chat ids in use (`known`), and that the rows of a chat are finitely many: without it a
commit might put its owner over another's, or `Create` reset the count of a chat in use. `CacheInv` is that everything a cache
holds, everything a row holds (`RowsCommitted`) and everything an operation carries in its locals
(`SnapsCommitted`) was committed under the key it is for; NoPhantom alone is not inductive since a cache is
filled from the locals of an operation that read some time ago. The lemmas `TypeStep`, `TablesStep`,
`ChatsKnownStep`, `RowsCommittedStep`, `SnapsStep` and `PhantomStep` each take one part through all actions. `Refinement` needs one part more, `TurnsFresh`: a turn that is still to be saved is of
one operation and not among those committed, which is why none is stored twice; `TableSimulation` then maps every step.
`CoherentAlone` (`[]CoherentWhenIdle`) is for one pod, one operation at a time and no fault, which is what the property is about: the
hypotheses are on the constants (`Ops` and `Pods` have one member, `Faults` none), users, chats and writes are any. It needs what
the copies hold at every step of the operation, not only between operations: `Exact` says of every chat and list which copy may
be behind, and at which step the locals of the operation are the rows (`ChatExact`, `ListExact`), and `RowsOfOwner` that a chat
has the rows of its owner only.

**VectorMigration.** `TypeCorrect`, `ReadyIsPast` (`[]ReadyNotLegacy`) and `LosesNothing` (`[]NothingLost`, for chunks and uploads
that are distinct). `ReadyNotLegacy` needs `Past`: whoever is between its drop and its bind has seen that the collection
is no longer the old one, and no step makes it old again. `NothingLost` speaks of the moment only; `Books` adds that
the old collection is whole as long as it is there, and so is what a migration before its drop has read
(`OldIsWhole`), that at most one migration holds chunks and what it holds and what is there add up to one of each
(`InHandOrThere`), and that an upload that was not acknowledged has added nothing (`UploadsThere`). All of it is under `mishaps = {}`,
and the step lemmas show that each action either records a mishap or keeps the books.

**Jwks.** `TypeCorrect` and `AcceptsValid` (`Spec => ValidTokenAccepted`), for published sets that are sets of keys. The invariant
`Carries` says that a steady token verifies with what is published and with the answer on its way to its request;
`GoodKeysAccept` that keys that verify a token are the ones picked for it, and `FirstIsGentle` that a first look at a
cache turns nothing down. Together they leave a failed fetch as the only reason.

`KeysStayRight` is the safety under `KeysFollowProvider`: between two rotations, when no answer from before the last one is on its way any more
(`NothingOld`), none ever is, and the cache takes over nothing but the published keys, whoever fetches, fails or is late.

**ChatNames** (in `PodCopies_proofs`). `NamesTypeCorrect` needs that a rename which is about to write carries a name the user gave (`Given`): the
types alone would let it write the id. `NamesStayRight` is the safety under `NamesHeal`, in the same form as for the keys (`NoOldName`). Both theorems say
what repair rests on: while the original stays as it is, only what was under way before its last change can spoil a copy again.

**TokenPipe** (in `Answer_proofs`). `ShowsAnswer` (`[]PageShowsAnswer`) and `PipeTypeCorrect`, for any answers, chunks and cuts, and
`FilterIsVisible`: the loop of `_stream_response` on a text in one piece sends what the reference definition `Visible` says. The runs can only try
texts of three pieces. The invariant is `PipeInv`: one sequence, `Total`, is
an answer all the time. It consists of what the page shows, what the frames on their way will show (`Decode`, of the buffer and the wire), and what
is visible of `_pending` and of the text to come, given the state of the filter (`Rest`); a chunk and a read only move things within it. To be
inductive it needs how the parts are cut: what is pending is at most what may become a tag (`Held`; in a think block it holds no closing tag),
what is on its way is whole frames (`Tidy`: each begins with `data:` and has its blank line at the end, where no token can have put one since
`json.dumps` escapes it), and the buffer holds no blank line between two reads. At the end nothing of a held-back beginning is visible (`HeldRest`), so that
`Total` is the page. The work is in two lemmas on sequences: `HoldBack`, that what the filter sends in front of a tag that may be cut is visible
whatever follows, and `DecodeAppend`, that a frame appended to a stream shows its token at the end. For the first chunk `TakeKeeps` shows that
dropping white space ahead of `<think>` gives one of the two `Answers`.

The loops and `Visible`, `Decode` are recursive functions, defined by `CHOOSE`, and that there is a function which satisfies the equation has to be
proved. The library's theorems of induction and recursion take an operator as a parameter, which the provers cannot instantiate, so
`Answer_proofs` has its own with sets and functions in its place, from the well-foundedness of the naturals (`WFMin`): `Minimum`,
`Induction`, `Descent`, `Recursion` (a function defined by going to something smaller exists) and `LoopEnds` (a loop whose rounds make something
smaller ends, and what its rounds keep holds then).

**ModelSelection** (in `Answer_proofs`). `ModelTypeCorrect` and `AnswersBySelection` (`[]AnsweredBySelection`). `Following`
says that for a query under way both the selection and the agent's model are among what was selected since its launch.

**DocumentSources.** `TypeCorrect`, `RowsHaveChunks` (`[]RowHasItsChunks`), `ChunksAreAccounted` (`[]ChunksAccounted`),
`ListedIsTrue` (`[]ListedWhenTold`) and `SelectionsAreChosen` (`SelectionIsChosen`), for any requests, pods and faults.
The proof goes through the actions twice only: `StepMoves` and `StepMovesSelections` sum up what any of them does to one
upload, delete, row, chunk, status or selection (`Moves`, `SelectionMoves`), and the rest needs no action. The invariant adds that
the history misses no pair that runs at once (`Overlapping`); that rows and chunks come from the late part of a task
(`FromLate`); that what was indexed is there from before the first row is written, and a row that shows up under a delete
whose call of Milvus is still to come was written by an upload it met (`Indexed`); that chunks are accounted for from the
time their own row is saved and not only at the end (`SavedAccounted`), likewise for `SavedListed`; and that the selection a delete is about to
store is the one in the table without its source, unless another request met it (`FreshPrefs`). `StatusIsTrue` is the
safety under `EveryUploadSettles`: an entry of `indexing_tasks` says where its task is, so nobody polls for the end of one that is gone.

**ChatTurn.** `TypeCorrect`, `TurnsAreOwn` (`[]OwnUnlessMet`), `AnswersAreWhole` (`[]CompleteAnswers`), `GoneStaysGone`
(`[]DeletedStaysGone`), `DoneOnce` (`[]DoneExactlyOnce`) and `NobodyForgotten`, for any queries, any number of them in progress at once,
and any failures. `Isolation` is the invariant of the first ones. Whoever is in progress with another is marked (`MetAll`), so one that is
not is alone while it is in progress; the callback, the accumulator and `last_state` are then its own (`Serves`), and, the part that a
proof about one turn at a time would not need, no *other* runner or persist task holds anything of it, before, while
and after it runs (`Apart`): what is emitted to it is its own (`OwnEvents`) and what is appended of it is appended by it, once (`OwnRows`). `Gone` adds
that a deleted turn is at rest and stays so, hence neither appends nor saves a partial. `PromiseKept` is the corollary
for `MaxActive = 1` and finitely many queries (so that the guard of `Start` means that none is in progress): nobody meets anyone, and
`OwnTurnsOnly`, which `turn_cross` refutes with two turns at once, holds of every turn. `AnswersAreWhole` counts: the tokens that
were shown and those in the queue are those the model produced (`Whole`), and a queue of which the sentinel was read is empty.
`DoneOnce` needs to know what is still in the queue: before the runner is over there is no `done` and no sentinel anywhere, afterwards
they are next to each other in the queue or the sentinel is the next to be read (`Ends`, `Pending`); tokens and usage reports of other turns
change nothing in that. `NobodyForgotten` follows from the same: a stream that waits for an event has a runner that has not sent
its last, so all that `EveryStreamEnds` needs besides is the fairness.

**ChatView.** `TypeCorrect`, `ReadsOneStream` (`[]OneStream`), `ShowsOwnChat` (`[]ShowsItsChat`) and `TabAndServerAgree` (`[]TabAgrees`), for
any chats, queries, loads and operations. Here, too, the actions are summed up: `StepKinds` sorts them into steps of the page
(`PageStep`), steps of the side bar or the server (`QuietStep`) and `Switch`, which is the only one that touches both. The invariant adds
that chats in use were created (`Used`), how far an operation that nothing crosses has come (`Phases`), that the stream that is read is the one
`streamAbortRef` names and what waits for a frame is its own (`Reading`), that of the histories being loaded all but the last are
cancelled (`InOrder`), and that what is on the screen belongs to the chat of the last history that got there (`Shows`). `ComposerHeld` is the
safety under `ComposerComesBack`: a locked composer has a stream whose `finally` will unlock it.

Only model-checked: liveness (`PatientUserServed`, `EventuallyCoherent`, `EveryStreamEnds`,
`NegativeHeals`, `AnsweredIsKept`, `EveryUploadSettles`, `ComposerComesBack`, `KeysFollowProvider`, `NamesHeal`), which is out of reach of the prover under
fairness (`KeysStayRight`, `NamesStayRight`, `StatusIsTrue`, `NobodyForgotten` and `ComposerHeld` are the safety under five of them); and the two
properties that runs refute.

## Not modelled

* Data: texts, prompts, embeddings, scores, file validation and paths, the order of chat lists, several
  users in the slot model (keys of users are independent, so one is enough).
* LangGraph and the model server: `generate` retrieves, asks, and answers with tokens or an error; the tool
  and node events carry nothing and are left out.
* How Starlette and anyio deliver a cancellation again and again, beyond one per await.
* The ticks of cache TTLs, which expire any time; the LRU order, since any entry may be evicted.
* `GET /chat_id`, which the front end does not call, and signing in; the claims of a token other than its key.
* Start-up of the pool with its retries (`postgres_storage.py:197`), and the size of the pool. A rejected append acquires a second
  connection while it holds one (`postgres_storage.py:628`), which takes as many users colliding on chat ids at once as the pool
  is large.
* Scores and the visibility filter of a search; the tool calls of `_stream_response`, which the agent never asks for.
* Logging, deployment manifests, the embedding server, data classes and prompts.

The status of every part is in `PROJECT.json` under `components`.

## Plan

Done, in order of importance: `StreamSlots` with `StreamCap`, `ChatStore`, `ChatTurn`, `DocumentSources`,
`ChatView`, `VectorMigration`, `Jwks`, `TokenPipe`, `ModelSelection`, `ChatNames`, and proofs of all of them.

Next, models: `ChatTurn` with `ChatStore`, a turn whose append is ChatStore's; the pool as a bounded resource. A
disagreement of the view with its comments (QuerySection's "Aborts any in-flight stream when switching chats") is worth a run
of its own.

Next, proofs: the safety under `EventuallyCoherent` (once clients only read, what is older than the tables is never put into a cache again), in the
form of `KeysStayRight`.
