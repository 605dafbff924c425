------------------------------- MODULE ChatStore -------------------------------
(***************************************************************************)
(* The chat history store of postgres_storage.py: the conversations and    *)
(* messages tables of PostgreSQL, the in-process cache of every pod (L1)   *)
(* and the shared Redis cache (L2), and the operations that read and write *)
(* all three.  Each SQL statement or Redis command takes effect in one     *)
(* step, and the code that runs when its answer arrives is another, so     *)
(* operations interleave at every await.                                   *)
(*                                                                         *)
(* The two messages of a turn are inserted by one statement, so a turn is  *)
(* one row here.  message_count counts turns.  The order of the chat list  *)
(* is left out: a list is the set of its chats.                            *)
(***************************************************************************)
EXTENDS Integers, Sequences, FiniteSets

CONSTANTS
    Pods, Users, Chats,
    Ops,        \* how many operations may be in progress at once
    Kinds,      \* the operations clients ask for
    MaxWrites,  \* bound on turns sent, chats created and chats deleted
    MaxFaults,  \* bound on restarts and failed commands
    Faults,     \* which may fail: "redis", "sql", "pod"
    Miss, None

ASSUME ChatStoreAssumption ==
    /\ MaxWrites \in Nat /\ MaxFaults \in Nat
    /\ Kinds \subseteq {"history", "query", "create", "delete", "list"}
    /\ Faults \subseteq {"redis", "sql", "pod"}
    /\ None \notin Users \union Ops

VARIABLES
    owner,      \* conversations.user_id, None without a row
    count,      \* conversations.message_count
    rows,       \* messages, per chat
    pend,       \* the open transaction that inserted the conversations row, or None
    l1, l2,     \* _message_cache of each pod, and "messages" in Redis
    list1,      \* _chat_list_cache of each pod
    list2,      \* "chats_list" in Redis
    op,         \* operations in progress
    writes, faults,
    known,      \* history: chat ids in use so far
    committed   \* history: turns that were committed, under their user and chat

db == <<owner, count, rows, pend>>
caches == <<l1, l2, list1, list2>>
ghosts == <<known, committed>>
vars == <<owner, count, rows, pend, l1, l2, list1, list2, op, writes, faults,
          known, committed>>

Keys == Users \X Chats
Turns == 1 .. MaxWrites
Row == [pos : Nat, user : Users, turn : Turns]
Idle == [pc |-> "idle", kind |-> None, pod |-> None, user |-> None, chat |-> None,
         turn |-> 0, pos |-> 0, snap |-> Miss]
\* Slip: the cache key leaves the user out.
KeyOfChat(o) == <<CHOOSE u \in Users : TRUE, op[o].chat>>
Key(o) == <<op[o].user, op[o].chat>>
Me(o) == op[o].user

Init ==
    /\ owner = [c \in Chats |-> None]
    /\ count = [c \in Chats |-> 0]
    /\ rows = [c \in Chats |-> {}]
    /\ pend = [c \in Chats |-> None]
    /\ l1 = [p \in Pods |-> [k \in Keys |-> Miss]]
    /\ l2 = [k \in Keys |-> Miss]
    /\ list1 = [p \in Pods |-> [u \in Users |-> Miss]]
    /\ list2 = [u \in Users |-> Miss]
    /\ op = [o \in Ops |-> Idle]
    /\ writes = 0 /\ faults = 0
    /\ known = {} /\ committed = {}

-------------------------------------------------------------------------------
\* Operations: starting, moving on and ending

Start(o, kind, p, u, c, l, turn) ==
    /\ op[o] = Idle /\ kind \in Kinds
    /\ op' = [op EXCEPT ![o] = [Idle EXCEPT !.pc = l, !.kind = kind, !.pod = p,
                                            !.user = u, !.chat = c, !.turn = turn]]
Count == writes < MaxWrites /\ writes' = writes + 1
At(o, l) == op[o].pc = l
Go(o, l) == op' = [op EXCEPT ![o].pc = l]
Take(o, l, v) == op' = [op EXCEPT ![o].pc = l, ![o].snap = v]
\* Slip: the operation's values outlive it.
DoneDirty(o) == op' = [op EXCEPT ![o].pc = "idle"]
Done(o) == op' = [op EXCEPT ![o] = Idle]

Fault(f) == f \in Faults /\ faults < MaxFaults /\ faults' = faults + 1
NoFault == UNCHANGED faults

-------------------------------------------------------------------------------
\* PostgreSQL, read committed

\* SELECT ... WHERE user_id AND chat_id ORDER BY position: the turns, in order.
Selected(u, c) ==
    LET R == {r \in rows[c] : r.user = u}
        Orders == {q \in [1 .. Cardinality(R) -> R] :
                     \A i, j \in DOMAIN q : i < j => q[i].pos < q[j].pos}
    IN  {[i \in DOMAIN q |-> q[i].turn] : q \in Orders}

Owned(u) == {c \in Chats : owner[c] = u}
\* COALESCE(MAX(position), -1) + 1
NextPositions(R) ==
    IF R = {} THEN {0} ELSE {r.pos + 1 : r \in {m \in R : \A x \in R : x.pos =< m.pos}}

\* A transaction that ends without a commit gives up the row it inserted.
Rollback(O) == pend' = [c \in Chats |-> IF pend[c] \in O THEN None ELSE pend[c]]

-------------------------------------------------------------------------------
\* get_messages / get_history_dicts: L1, else L2, else the table.  A hit in L1 changes
\* nothing.

ReadHistory(o, p, u, c) ==
    /\ l1[p][<<u, c>>] = Miss
    /\ Start(o, "history", p, u, c, "getl2", 0)
    /\ UNCHANGED <<db, caches, writes, faults, ghosts>>

\* redis_cache.get_json: an error is a miss.
GetL2(o) ==
    /\ At(o, "getl2")
    /\ \/ l2[Key(o)] # Miss /\ Take(o, "warm", l2[Key(o)]) /\ NoFault
       \/ l2[Key(o)] = Miss /\ Go(o, "select") /\ NoFault
       \/ Go(o, "select") /\ Fault("redis")
    /\ UNCHANGED <<db, caches, writes, ghosts>>

Warm(o) ==
    /\ At(o, "warm")
    /\ l1' = [l1 EXCEPT ![op[o].pod][Key(o)] = op[o].snap]
    /\ Done(o)
    /\ UNCHANGED <<db, l2, list1, list2, writes, faults, ghosts>>

Select(o) ==
    /\ At(o, "select")
    /\ \E turns \in Selected(Me(o), op[o].chat) : Take(o, "fill", turns)
    /\ UNCHANGED <<db, caches, writes, faults, ghosts>>

\* The rows arrive.  A write also drops its pod's chat list.
Fill(o) ==
    /\ At(o, "fill")
    /\ l1' = [l1 EXCEPT ![op[o].pod][Key(o)] = op[o].snap]
    /\ list1' = IF op[o].kind = "history" THEN list1
                ELSE [list1 EXCEPT ![op[o].pod][Me(o)] = Miss]
    /\ Go(o, "setl2")
    /\ UNCHANGED <<db, l2, list2, writes, faults, ghosts>>

SetL2(o) ==
    /\ At(o, "setl2")
    /\ \/ l2' = [l2 EXCEPT ![Key(o)] = op[o].snap] /\ NoFault
       \/ UNCHANGED l2 /\ Fault("redis")
    /\ IF op[o].kind = "history" THEN Done(o) ELSE Go(o, "droplist")
    /\ UNCHANGED <<db, l1, list1, list2, writes, ghosts>>

\* The last command of every write: DEL chats_list.
DropList(o) ==
    /\ At(o, "droplist")
    /\ \/ list2' = [list2 EXCEPT ![Me(o)] = Miss] /\ NoFault
       \/ UNCHANGED list2 /\ Fault("redis")
    /\ Done(o)
    /\ UNCHANGED <<db, l1, l2, list1, writes, ghosts>>

-------------------------------------------------------------------------------
\* A query: the ownership check of stream_chat_query, and at the end of the answer
\* append_messages_to_chat with the new turn.

Query(o, p, u, c) ==
    /\ Count
    /\ Start(o, "query", p, u, c,
             IF l1[p][<<u, c>>] \notin {Miss, <<>>} THEN "insert" ELSE "exists", writes + 1)
    /\ known' = known \union {c}
    /\ UNCHANGED <<db, caches, faults, committed>>

Exists(o) ==
    /\ At(o, "exists")
    /\ Go(o, IF owner[op[o].chat] = Me(o) THEN "insert" ELSE "other")
    /\ UNCHANGED <<db, caches, writes, faults, ghosts>>

\* Somebody else's chat is answered 404.
OtherOwner(o) ==
    /\ At(o, "other")
    /\ IF owner[op[o].chat] \in {None, Me(o)} THEN Go(o, "insert") ELSE Done(o)
    /\ UNCHANGED <<db, caches, writes, faults, ghosts>>

\* INSERT INTO conversations ... ON CONFLICT DO NOTHING waits for an uncommitted row.
InsertConversation(o) ==
    /\ At(o, "insert") /\ pend[op[o].chat] = None
    /\ pend' = IF owner[op[o].chat] = None THEN [pend EXCEPT ![op[o].chat] = o] ELSE pend
    /\ Go(o, "owner")
    /\ UNCHANGED <<owner, count, rows, caches, writes, faults, ghosts>>

\* The row is its own or another's; another's makes the append a read.
CheckOwner(o) ==
    /\ At(o, "owner")
    /\ \/ /\ pend[op[o].chat] = o \/ owner[op[o].chat] = Me(o)
          /\ Go(o, "position")
       \/ /\ pend[op[o].chat] # o /\ owner[op[o].chat] # Me(o)
          /\ IF l1[op[o].pod][Key(o)] = Miss
             THEN op' = [op EXCEPT ![o].pc = "getl2", ![o].kind = "history"]
             ELSE Done(o)
    /\ UNCHANGED <<db, caches, writes, faults, ghosts>>

MaxPosition(o) ==
    /\ At(o, "position")
    /\ \E n \in NextPositions(rows[op[o].chat]) :
           op' = [op EXCEPT ![o].pc = "commit", ![o].pos = n]
    /\ UNCHANGED <<db, caches, writes, faults, ghosts>>

\* Slip: message_count is updated outside of the transaction.
CommitTurnNoTransaction(o) ==
    LET c == op[o].chat
        free == \A r \in rows[c] : r.pos # op[o].pos
        parent == pend[c] = o \/ owner[c] # None
    IN  /\ At(o, "commit")
        /\ \/ /\ free /\ parent
              /\ owner' = IF pend[c] = o THEN [owner EXCEPT ![c] = Me(o)] ELSE owner
              /\ rows' = [rows EXCEPT ![c] = @ \union
                            {[pos |-> op[o].pos, user |-> Me(o), turn |-> op[o].turn]}]
              /\ count' = [count EXCEPT ![c] = @ + 1]
              /\ committed' = committed \union {<<<<Me(o), c>>, op[o].turn>>}
              /\ Go(o, "merge")
           \/ /\ ~(free /\ parent)
              /\ Done(o)
              /\ count' = [count EXCEPT ![c] = @ + 1]
              /\ UNCHANGED <<owner, rows, committed>>
        /\ Rollback({o})
        /\ UNCHANGED <<caches, writes, faults, known>>

\* INSERT INTO messages, UPDATE message_count, COMMIT.  The primary key (chat_id,
\* position) and the foreign key to conversations make it fail instead.
CommitTurn(o) ==
    LET c == op[o].chat
        free == \A r \in rows[c] : r.pos # op[o].pos
        parent == pend[c] = o \/ owner[c] # None
    IN  /\ At(o, "commit")
        /\ \/ /\ free /\ parent
              /\ owner' = IF pend[c] = o THEN [owner EXCEPT ![c] = Me(o)] ELSE owner
              /\ rows' = [rows EXCEPT ![c] = @ \union
                            {[pos |-> op[o].pos, user |-> Me(o), turn |-> op[o].turn]}]
              /\ count' = [count EXCEPT ![c] = @ + 1]
              /\ committed' = committed \union {<<<<Me(o), c>>, op[o].turn>>}
              /\ Go(o, "merge")
           \/ /\ ~(free /\ parent)
              /\ Done(o)
              /\ UNCHANGED <<owner, rows, count, committed>>
        /\ Rollback({o})
        /\ UNCHANGED <<caches, writes, faults, known>>

\* Slip: an error after the commit makes the append start again.
MergeAgain(o) ==
    /\ At(o, "merge")
    /\ Go(o, "insert")
    /\ UNCHANGED <<db, caches, writes, faults, ghosts>>

\* After the commit: cached list plus the new turn, or a reload when L1 has nothing.
Merge(o) ==
    LET cached == l1[op[o].pod][Key(o)] IN
    /\ At(o, "merge")
    /\ IF cached = Miss
       THEN Go(o, "select") /\ UNCHANGED <<l1, list1>>
       ELSE /\ l1' = [l1 EXCEPT ![op[o].pod][Key(o)] = Append(cached, op[o].turn)]
            /\ list1' = [list1 EXCEPT ![op[o].pod][Me(o)] = Miss]
            /\ Take(o, "setl2", Append(cached, op[o].turn))
    /\ UNCHANGED <<db, l2, list2, writes, faults, ghosts>>

-------------------------------------------------------------------------------
\* create_empty_chat, under a fresh uuid4

Create(o, p, u, c) ==
    /\ c \notin known /\ known' = known \union {c}
    /\ Count
    /\ owner' = [owner EXCEPT ![c] = u]
    /\ count' = [count EXCEPT ![c] = 0]
    /\ Start(o, "create", p, u, c, "seed", 0)
    /\ UNCHANGED <<rows, pend, caches, faults, committed>>

Seed(o) ==
    /\ At(o, "seed")
    /\ l1' = [l1 EXCEPT ![op[o].pod][Key(o)] = <<>>]
    /\ list1' = [list1 EXCEPT ![op[o].pod][Me(o)] = Miss]
    /\ Take(o, "setl2", <<>>)
    /\ UNCHANGED <<db, l2, list2, writes, faults, ghosts>>

\* delete_conversation: the row with its messages, then the caches, even if there was
\* no row.  A row that is not committed yet is not seen.  (The saved partial answer is not
\* modelled here.)
Delete(o, p, u, c) ==
    /\ Count
    /\ IF owner[c] = u
       THEN /\ owner' = [owner EXCEPT ![c] = None]
            /\ rows' = [rows EXCEPT ![c] = {}]
            /\ count' = [count EXCEPT ![c] = 0]
       ELSE UNCHANGED <<owner, rows, count>>
    /\ Start(o, "delete", p, u, c, "invalidate", 0)
    /\ UNCHANGED <<pend, caches, faults, ghosts>>

\* Slip: only the chat list is invalidated.
InvalidateList(o) ==
    /\ At(o, "invalidate")
    /\ list1' = [list1 EXCEPT ![op[o].pod][Me(o)] = Miss]
    /\ Go(o, "dropl2")
    /\ UNCHANGED <<db, l1, l2, list2, writes, faults, ghosts>>

Invalidate(o) ==
    /\ At(o, "invalidate")
    /\ l1' = [l1 EXCEPT ![op[o].pod][Key(o)] = Miss]
    /\ list1' = [list1 EXCEPT ![op[o].pod][Me(o)] = Miss]
    /\ Go(o, "dropl2")
    /\ UNCHANGED <<db, l2, list2, writes, faults, ghosts>>

DropL2(o) ==
    /\ At(o, "dropl2")
    /\ \/ l2' = [l2 EXCEPT ![Key(o)] = Miss] /\ NoFault
       \/ UNCHANGED l2 /\ Fault("redis")
    /\ Go(o, "droplist")
    /\ UNCHANGED <<db, l1, list1, list2, writes, ghosts>>

-------------------------------------------------------------------------------
\* list_conversations

ListChats(o, p, u) ==
    /\ list1[p][u] = Miss
    /\ Start(o, "list", p, u, None, "getlist", 0)
    /\ UNCHANGED <<db, caches, writes, faults, ghosts>>

GetList(o) ==
    /\ At(o, "getlist")
    /\ \/ list2[Me(o)] # Miss /\ Take(o, "warmlist", list2[Me(o)]) /\ NoFault
       \/ list2[Me(o)] = Miss /\ Go(o, "selectlist") /\ NoFault
       \/ Go(o, "selectlist") /\ Fault("redis")
    /\ UNCHANGED <<db, caches, writes, ghosts>>

SelectList(o) ==
    /\ At(o, "selectlist")
    /\ Take(o, "filllist", Owned(Me(o)))
    /\ UNCHANGED <<db, caches, writes, faults, ghosts>>

\* The list arrives, from Redis or from the table, which is then written to Redis too.
FillList(o) ==
    /\ At(o, "warmlist") \/ At(o, "filllist")
    /\ list1' = [list1 EXCEPT ![op[o].pod][Me(o)] = op[o].snap]
    /\ IF At(o, "warmlist") THEN Done(o) ELSE Go(o, "setlist")
    /\ UNCHANGED <<db, l1, l2, list2, writes, faults, ghosts>>

SetList(o) ==
    /\ At(o, "setlist")
    /\ \/ list2' = [list2 EXCEPT ![Me(o)] = op[o].snap] /\ NoFault
       \/ UNCHANGED list2 /\ Fault("redis")
    /\ Done(o)
    /\ UNCHANGED <<db, l1, l2, list1, writes, ghosts>>

-------------------------------------------------------------------------------
\* The environment

\* The TTL of an entry runs out, or in L1 the bound on its size evicts it.
ExpireL1(p, k) ==
    /\ l1[p][k] # Miss
    /\ l1' = [l1 EXCEPT ![p][k] = Miss]
    /\ UNCHANGED <<db, l2, list1, list2, op, writes, faults, ghosts>>

\* Slip: SET without ex.
ExpireL2Never(k) == FALSE /\ k \in Keys /\ UNCHANGED vars

ExpireL2(k) ==
    /\ l2[k] # Miss
    /\ l2' = [l2 EXCEPT ![k] = Miss]
    /\ UNCHANGED <<db, l1, list1, list2, op, writes, faults, ghosts>>

\* Slip: the list entry has no ttl.
ExpireList1Never(p, u) == FALSE /\ p \in Pods /\ u \in Users /\ UNCHANGED vars

ExpireList1(p, u) ==
    /\ list1[p][u] # Miss
    /\ list1' = [list1 EXCEPT ![p][u] = Miss]
    /\ UNCHANGED <<db, l1, l2, list2, op, writes, faults, ghosts>>

ExpireList2(u) ==
    /\ list2[u] # Miss
    /\ list2' = [list2 EXCEPT ![u] = Miss]
    /\ UNCHANGED <<db, l1, l2, list1, op, writes, faults, ghosts>>

\* A SQL statement fails: the operation ends with an error, its transaction with it.
SqlError(o) ==
    /\ op[o].pc \in {"select", "exists", "other", "insert", "owner", "position",
                     "commit", "selectlist"}
    /\ Fault("sql")
    /\ Rollback({o}) /\ Done(o)
    /\ UNCHANGED <<owner, count, rows, caches, writes, ghosts>>

\* A pod dies with what it was doing and what it had cached.
Restart(p) ==
    /\ Fault("pod")
    /\ Rollback({o \in Ops : op[o].pod = p})
    /\ op' = [o \in Ops |-> IF op[o].pod = p THEN Idle ELSE op[o]]
    /\ l1' = [l1 EXCEPT ![p] = [k \in Keys |-> Miss]]
    /\ list1' = [list1 EXCEPT ![p] = [u \in Users |-> Miss]]
    /\ UNCHANGED <<owner, count, rows, l2, list2, writes, ghosts>>

-------------------------------------------------------------------------------
Continue(o) ==
    \/ GetL2(o) \/ Warm(o) \/ Select(o) \/ Fill(o) \/ SetL2(o) \/ DropList(o)
    \/ Exists(o) \/ OtherOwner(o) \/ InsertConversation(o) \/ CheckOwner(o)
    \/ MaxPosition(o) \/ CommitTurn(o) \/ Merge(o)
    \/ Seed(o) \/ Invalidate(o) \/ DropL2(o)
    \/ GetList(o) \/ SelectList(o) \/ FillList(o) \/ SetList(o)

Request(o) ==
    \E p \in Pods, u \in Users :
        \/ ListChats(o, p, u)
        \/ \E c \in Chats :
              \/ ReadHistory(o, p, u, c) \/ Query(o, p, u, c)
              \/ Create(o, p, u, c) \/ Delete(o, p, u, c)

Environment ==
    \/ \E k \in Keys : ExpireL2(k) \/ \E p \in Pods : ExpireL1(p, k)
    \/ \E u \in Users : ExpireList2(u) \/ \E p \in Pods : ExpireList1(p, u)
    \/ \E p \in Pods : Restart(p)
    \/ \E o \in Ops : SqlError(o)

Next == Environment \/ \E o \in Ops : Request(o) \/ Continue(o)

Spec == Init /\ [][Next]_vars

\* Every command is answered and every cache entry expires in the end.
FairSpec ==
    /\ Spec
    /\ \A o \in Ops : WF_vars(Continue(o))
    /\ \A k \in Keys : WF_vars(ExpireL2(k)) /\ \A p \in Pods : WF_vars(ExpireL1(p, k))
    /\ \A u \in Users : /\ WF_vars(ExpireList2(u))
                        /\ \A p \in Pods : WF_vars(ExpireList1(p, u))

-------------------------------------------------------------------------------
\* Where an operation on a chat, or on the list of a user's chats, waits.
QueryPcs == {"exists", "other", "insert", "owner", "position", "commit", "merge"}
ChatPcs == QueryPcs \union {"getl2", "warm", "select", "fill", "setl2", "droplist",
                            "seed", "invalidate", "dropl2"}
ListPcs == {"getlist", "warmlist", "selectlist", "filllist", "setlist"}

IsCached(v) == v = Miss \/ v \in Seq(Turns)
IsList(v) == v = Miss \/ v \subseteq Chats

\* An operation carries what its next step uses.
OpOK(v) ==
    /\ DOMAIN v = DOMAIN Idle
    /\ v.pc \in {"idle"} \union ChatPcs \union ListPcs
    /\ v.pc = "idle" => v = Idle
    /\ v.pc # "idle" => v.pod \in Pods /\ v.user \in Users
    /\ v.pc \in ChatPcs => v.chat \in Chats
    /\ v.pc \in QueryPcs => v.turn \in Turns
    /\ v.pc = "commit" => v.pos \in Nat
    /\ v.pc \in {"warm", "fill", "setl2"} => v.snap \in Seq(Turns)
    /\ v.pc \in {"warmlist", "filllist", "setlist"} => v.snap \subseteq Chats

TypeDb ==
    /\ owner \in [Chats -> Users \union {None}]
    /\ count \in [Chats -> Nat]
    /\ rows \in [Chats -> SUBSET Row]
    /\ pend \in [Chats -> Ops \union {None}]
    /\ known \subseteq Chats
TypeCaches ==
    /\ DOMAIN l1 = Pods /\ \A p \in Pods : DOMAIN l1[p] = Keys
    /\ DOMAIN l2 = Keys
    /\ \A k \in Keys : IsCached(l2[k]) /\ \A p \in Pods : IsCached(l1[p][k])
TypeLists ==
    /\ DOMAIN list1 = Pods /\ \A p \in Pods : DOMAIN list1[p] = Users
    /\ DOMAIN list2 = Users
    /\ \A u \in Users : IsList(list2[u]) /\ \A p \in Pods : IsList(list1[p][u])
TypeOps == DOMAIN op = Ops /\ \A o \in Ops : OpOK(op[o])

TypeOK ==
    /\ TypeDb /\ TypeCaches /\ TypeLists /\ TypeOps
    /\ writes \in 0 .. MaxWrites /\ faults \in 0 .. MaxFaults

\* conversations.message_count, which append_messages_to_chat keeps by adding
\* (postgres_storage.py:658-666), is the number of rows of the messages table, and a
\* chat without its conversations row has none.
CountMatchesRows ==
    \A c \in Chats : /\ count[c] = Cardinality(rows[c])
                     /\ owner[c] = None => rows[c] = {}

\* The database part of the store (postgres_storage.py:603-667, 703-711) implements
\* ChatTable: transactions that race, fail or are cut off store each turn at most once and
\* whole, and what is stored stays until its chat is deleted.
Logged(c) == {<<r.user, r.turn>> : r \in rows[c]}
Table == INSTANCE ChatTable WITH
            holder <- owner, log <- [c \in Chats |-> Logged(c)],
            stored <- {x[2] : x \in committed}
ImplementsTable == Table!Spec

\* The caches never show a turn to anybody but the user who sent it, in another chat
\* than its own, or before it was committed, whatever fails (postgres_storage.py:436-500).
Shows(v, k) == v = Miss \/ \A i \in DOMAIN v : <<k, v[i]>> \in committed
NoPhantom ==
    /\ \A k \in Keys : Shows(l2[k], k) /\ \A p \in Pods : Shows(l1[p][k], k)

\* A cache says what the database says.
Agrees(k, v) == v = Miss \/ v \in Selected(k[1], k[2])
L1Agrees == \A p \in Pods, k \in Keys : Agrees(k, l1[p][k])
L2Agrees == \A k \in Keys : Agrees(k, l2[k])
ListsAgree ==
    \A u \in Users : /\ list2[u] = Miss \/ list2[u] = Owned(u)
                     /\ \A p \in Pods : list1[p][u] = Miss \/ list1[p][u] = Owned(u)
AllIdle == \A o \in Ops : op[o] = Idle

\* With one pod and one operation at a time the write-through of
\* postgres_storage.py:669-684 and the invalidation of :713-718 keep all caches exact.
CoherentWhenIdle == AllIdle => L1Agrees /\ L2Agrees /\ ListsAgree

\* Whatever races, restarts and failed commands did, the TTLs bring the caches back to
\* what the database says once clients only read.
EventuallyCoherent == <>[](L1Agrees /\ L2Agrees /\ ListsAgree)

\* architecture.md:405: completed messages are persisted after each turn.  (With clients
\* that delete nothing and statements that do not fail.)
TurnsPersist ==
    [][\A o \in Ops : At(o, "commit") /\ op'[o] # op[o] => committed' # committed]_vars
===============================================================================
