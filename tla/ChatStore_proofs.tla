--------------------------- MODULE ChatStore_proofs ---------------------------
(***************************************************************************)
(* Proofs about ChatStore, for any number of pods, users, chats,           *)
(* operations, writes and faults; CoherentAlone, at the end, for any       *)
(* users, chats and writes with one pod, one operation at a time, no fault.*)
(***************************************************************************)
EXTENDS ChatStore, FiniteSetTheorems, SequenceTheorems, TLAPS

USE ChatStoreAssumption

\* The tables: what message_count counts, and a transaction that inserts a conversation
\* does so for a chat id that is in use but has no row.
Tables ==
    \A c \in Chats :
      /\ IsFiniteSet(rows[c]) /\ count[c] = Cardinality(rows[c])
      /\ owner[c] = None => rows[c] = {}
      /\ pend[c] # None => owner[c] = None /\ c \in known
      /\ owner[c] # None => c \in known
ChatsKnown == \A o \in Ops : op[o].pc \in QueryPcs => op[o].chat \in known

\* What is in the tables, in a cache, or on its way into one was committed.
RowsCommitted ==
    \A c \in Chats : \A r \in rows[c] : <<<<r.user, c>>, r.turn>> \in committed
Backed(v, k, C) == v = Miss \/ \A i \in DOMAIN v : <<k, v[i]>> \in C
OpBacked(w, C) ==
    /\ w.pc \in {"warm", "fill", "setl2"} => Backed(w.snap, <<w.user, w.chat>>, C)
    /\ w.pc = "merge" => <<<<w.user, w.chat>>, w.turn>> \in C
SnapsCommitted == \A o \in Ops : OpBacked(op[o], committed)

TableInv == Tables /\ ChatsKnown
CacheInv == RowsCommitted /\ SnapsCommitted /\ NoPhantom
IInv == TypeOK /\ TableInv /\ CacheInv

-------------------------------------------------------------------------------
\* Which steps leave which state alone.

Reads(o) ==
    \/ GetL2(o) \/ Warm(o) \/ Select(o) \/ Fill(o) \/ SetL2(o) \/ DropList(o)
    \/ Exists(o) \/ OtherOwner(o) \/ CheckOwner(o) \/ MaxPosition(o) \/ Merge(o)
    \/ Seed(o) \/ Invalidate(o) \/ DropL2(o)
    \/ GetList(o) \/ SelectList(o) \/ FillList(o) \/ SetList(o)
Expires ==
    \/ \E k \in Keys : ExpireL2(k) \/ \E p \in Pods : ExpireL1(p, k)
    \/ \E u \in Users : ExpireList2(u) \/ \E p \in Pods : ExpireList1(p, u)

\* Only six actions write to the tables.
LEMMA TablesFrame ==
    ASSUME NEW o \in Ops,
           \/ Reads(o) \/ Expires
           \/ \E p \in Pods, u \in Users :
                 ListChats(o, p, u) \/ \E c \in Chats : ReadHistory(o, p, u, c)
    PROVE  UNCHANGED <<db, known, committed>>
<1>1. CASE Expires
  BY <1>1 DEF Expires, ExpireL1, ExpireL2, ExpireList1, ExpireList2, ghosts
<1>2. CASE \E p \in Pods, u \in Users :
              ListChats(o, p, u) \/ \E c \in Chats : ReadHistory(o, p, u, c)
  BY <1>2 DEF ListChats, ReadHistory, ghosts
<1>3. CASE Reads(o)
  BY <1>3 DEF Reads, GetL2, Warm, Select, Fill, SetL2, DropList, Exists, OtherOwner,
              CheckOwner, MaxPosition, Merge, Seed, Invalidate, DropL2, GetList,
              SelectList, FillList, SetList, ghosts
<1> QED
  BY <1>1, <1>2, <1>3

\* A started operation of the right shape is well formed.
LEMMA StartOK ==
    ASSUME TypeOps, NEW o \in Ops, NEW kind, NEW p \in Pods, NEW u \in Users, NEW c,
           NEW l \in {"getl2", "exists", "insert", "seed", "invalidate", "getlist"},
           l # "getlist" => c \in Chats,
           NEW turn, l \in QueryPcs => turn \in Turns,
           Start(o, kind, p, u, c, l, turn)
    PROVE  TypeOps'
<1> DEFINE v == [Idle EXCEPT !.pc = l, !.kind = kind, !.pod = p, !.user = u, !.chat = c,
                             !.turn = turn]
<1>1. OpOK(v)
  BY DEF OpOK, Idle, ChatPcs, QueryPcs, ListPcs
<1>2. op' = [op EXCEPT ![o] = v]
  BY DEF Start
<1> QED
  BY <1>1, <1>2 DEF TypeOps

\* Replacing one operation by a well-formed one keeps the type of op.
LEMMA ReplaceOK ==
    ASSUME TypeOps, NEW o \in Ops, NEW v, OpOK(v), op' = [op EXCEPT ![o] = v]
    PROVE  TypeOps'
BY DEF TypeOps

\* An idle operation is well formed.
LEMMA IdleOK == OpOK(Idle)
BY DEF OpOK, Idle, ChatPcs, QueryPcs, ListPcs

\* The turns selected from the table are a sequence of turns.
LEMMA SelectedTurns ==
    ASSUME TypeDb, Tables, NEW u \in Users, NEW c \in Chats, NEW s \in Selected(u, c)
    PROVE  /\ s \in Seq(Turns)
           /\ \A i \in DOMAIN s : \E r \in rows[c] : r.user = u /\ r.turn = s[i]
<1> DEFINE R == {r \in rows[c] : r.user = u}
<1>1. IsFiniteSet(R) /\ Cardinality(R) \in Nat
  BY FS_Subset, FS_CardinalityType DEF Tables
<1>2. PICK q \in [1 .. Cardinality(R) -> R] : s = [i \in DOMAIN q |-> q[i].turn]
  BY DEF Selected
<1>3. \A i \in 1 .. Cardinality(R) : q[i] \in rows[c] /\ q[i].user = u /\ q[i].turn \in Turns
  BY <1>2 DEF TypeDb, Row
<1>4. s \in [1 .. Cardinality(R) -> Turns]
  BY <1>2, <1>3
<1>5. s \in Seq(Turns)
  <2>1. s \in UNION {[1 .. n -> Turns] : n \in Nat}
    BY <1>1, <1>4, Zenon
  <2> QED
    BY <2>1, SeqDef, Zenon
<1> QED
  BY <1>2, <1>3, <1>5

\* An operation in progress stays well formed over each of its steps.
LEMMA ContinueOK ==
    ASSUME TypeOK, Tables, NEW o \in Ops, Continue(o)
    PROVE  TypeOps'
<1> USE DEF TypeOK
<1>0. OpOK(op[o]) /\ DOMAIN op = Ops
  BY DEF TypeOps
<1> USE DEF OpOK, Idle, ChatPcs, QueryPcs, ListPcs, At, Go, Take, Done, Key
<1>1. CASE GetL2(o)
  <2>1. /\ op[o].pc = "getl2"
        /\ l2[Key(o)] # Miss => l2[Key(o)] \in Seq(Turns)
        /\ \/ /\ l2[Key(o)] # Miss
              /\ op' = [op EXCEPT ![o] = [op[o] EXCEPT !.pc = "warm", !.snap = l2[Key(o)]]]
           \/ op' = [op EXCEPT ![o] = [op[o] EXCEPT !.pc = "select"]]
    BY <1>0, <1>1 DEF GetL2, TypeCaches, IsCached, Keys
  <2>2. /\ OpOK([op[o] EXCEPT !.pc = "select"])
        /\ l2[Key(o)] # Miss => OpOK([op[o] EXCEPT !.pc = "warm", !.snap = l2[Key(o)]])
    BY <1>0, <2>1
  <2> QED
    BY <2>1, <2>2, ReplaceOK
<1>2. CASE Warm(o) \/ DropList(o) \/ SetList(o)
  BY <1>2, IdleOK, ReplaceOK DEF Warm, DropList, SetList
<1>3. CASE Select(o)
  <2>1. op[o].pc = "select"
    BY <1>3 DEF Select
  <2>2. PICK s \in Selected(op[o].user, op[o].chat) :
           op' = [op EXCEPT ![o] = [op[o] EXCEPT !.pc = "fill", !.snap = s]]
    BY <1>3 DEF Select, Me
  <2>3. s \in Seq(Turns)
    BY <1>0, <2>1, SelectedTurns
  <2>4. OpOK([op[o] EXCEPT !.pc = "fill", !.snap = s])
    BY <1>0, <2>1, <2>3
  <2> QED
    BY <2>2, <2>4, ReplaceOK
<1>4. CASE \/ Fill(o) \/ SetL2(o) \/ Exists(o) \/ OtherOwner(o) \/ InsertConversation(o)
            \/ Invalidate(o) \/ DropL2(o) \/ FillList(o)
  <2>1. \/ op' = [op EXCEPT ![o] = Idle]
        \/ \E l \in {"setl2", "droplist", "insert", "other", "owner", "dropl2", "setlist"} :
             /\ op' = [op EXCEPT ![o] = [op[o] EXCEPT !.pc = l]]
             /\ OpOK([op[o] EXCEPT !.pc = l])
    BY <1>0, <1>4 DEF Fill, SetL2, Exists, OtherOwner, InsertConversation, Invalidate,
                      DropL2, FillList
  <2> QED
    BY <2>1, IdleOK, ReplaceOK
<1>5. CASE CheckOwner(o)
  <2>1. \/ op' = [op EXCEPT ![o] = Idle]
        \/ /\ op' = [op EXCEPT ![o] = [op[o] EXCEPT !.pc = "position"]]
           /\ OpOK([op[o] EXCEPT !.pc = "position"])
        \/ /\ op' = [op EXCEPT ![o] = [op[o] EXCEPT !.pc = "getl2", !.kind = "history"]]
           /\ OpOK([op[o] EXCEPT !.pc = "getl2", !.kind = "history"])
    BY <1>0, <1>5 DEF CheckOwner
  <2> QED
    BY <2>1, IdleOK, ReplaceOK
<1>6. CASE MaxPosition(o)
  <2>1. op[o].pc = "position" /\ op[o].chat \in Chats
    BY <1>0, <1>6 DEF MaxPosition
  <2>2. PICK n \in NextPositions(rows[op[o].chat]) :
           op' = [op EXCEPT ![o] = [op[o] EXCEPT !.pc = "commit", !.pos = n]]
    BY <1>6 DEF MaxPosition
  <2>3. n \in Nat
    BY <2>1, <2>2 DEF NextPositions, TypeDb, Row
  <2>4. OpOK([op[o] EXCEPT !.pc = "commit", !.pos = n])
    BY <1>0, <2>1, <2>3
  <2> QED
    BY <2>2, <2>4, ReplaceOK
<1>7. CASE CommitTurn(o)
  <2>1. \/ op' = [op EXCEPT ![o] = Idle]
        \/ /\ op' = [op EXCEPT ![o] = [op[o] EXCEPT !.pc = "merge"]]
           /\ OpOK([op[o] EXCEPT !.pc = "merge"])
    BY <1>0, <1>7 DEF CommitTurn
  <2> QED
    BY <2>1, IdleOK, ReplaceOK
<1>8. CASE Merge(o)
  <2> DEFINE cached == l1[op[o].pod][Key(o)]
  <2>1. op[o].pc = "merge" /\ op[o].turn \in Turns /\ IsCached(cached)
    BY <1>0, <1>8 DEF Merge, TypeCaches, Keys
  <2>2. CASE cached = Miss
    <3>1. /\ op' = [op EXCEPT ![o] = [op[o] EXCEPT !.pc = "select"]]
          /\ OpOK([op[o] EXCEPT !.pc = "select"])
      BY <1>0, <1>8, <2>1, <2>2 DEF Merge
    <3> QED
      BY <3>1, ReplaceOK
  <2>3. CASE cached # Miss
    <3> DEFINE w == Append(cached, op[o].turn)
    <3>1. w \in Seq(Turns)
      BY <2>1, <2>3 DEF IsCached
    <3>2. op' = [op EXCEPT ![o] = [op[o] EXCEPT !.pc = "setl2", !.snap = w]]
      BY <1>8, <2>3 DEF Merge
    <3> HIDE DEF w
    <3>3. OpOK([op[o] EXCEPT !.pc = "setl2", !.snap = w])
      BY <1>0, <2>1, <3>1
    <3> QED
      BY <3>2, <3>3, ReplaceOK
  <2> QED
    BY <2>2, <2>3
<1>9. CASE Seed(o)
  <2>1. op' = [op EXCEPT ![o] = [op[o] EXCEPT !.pc = "setl2", !.snap = <<>>]]
    BY <1>9 DEF Seed
  <2>2. OpOK([op[o] EXCEPT !.pc = "setl2", !.snap = <<>>])
    BY <1>0, <1>9 DEF Seed
  <2> QED
    BY <2>1, <2>2, ReplaceOK
<1>10. CASE GetList(o)
  <2>1. \/ /\ op' = [op EXCEPT ![o] = [op[o] EXCEPT !.pc = "warmlist", !.snap = list2[Me(o)]]]
           /\ OpOK([op[o] EXCEPT !.pc = "warmlist", !.snap = list2[Me(o)]])
        \/ /\ op' = [op EXCEPT ![o] = [op[o] EXCEPT !.pc = "selectlist"]]
           /\ OpOK([op[o] EXCEPT !.pc = "selectlist"])
    BY <1>0, <1>10 DEF GetList, TypeLists, IsList, Me
  <2> QED
    BY <2>1, ReplaceOK
<1>11. CASE SelectList(o)
  <2>1. /\ op' = [op EXCEPT ![o] = [op[o] EXCEPT !.pc = "filllist", !.snap = Owned(Me(o))]]
        /\ OpOK([op[o] EXCEPT !.pc = "filllist", !.snap = Owned(Me(o))])
    BY <1>0, <1>11 DEF SelectList, Owned
  <2> QED
    BY <2>1, ReplaceOK
<1> QED
  BY <1>1, <1>2, <1>3, <1>4, <1>5, <1>6, <1>7, <1>8, <1>9, <1>10, <1>11 DEF Continue

-------------------------------------------------------------------------------
\* Type correctness over one step, part by part.

LEMMA TypeOpsStep == TypeOK /\ Tables /\ [Next]_vars => TypeOps'
<1> SUFFICES ASSUME TypeOK, Tables, [Next]_vars PROVE TypeOps'
  OBVIOUS
<1>0. TypeOps
  BY DEF TypeOK
<1>1. ASSUME NEW o \in Ops, Request(o) PROVE TypeOps'
  <2>1. ASSUME NEW p \in Pods, NEW u \in Users, ListChats(o, p, u) PROVE TypeOps'
    BY <1>0, <2>1, StartOK DEF ListChats, QueryPcs
  <2>2. ASSUME NEW p \in Pods, NEW u \in Users, NEW c \in Chats,
               ReadHistory(o, p, u, c) \/ Create(o, p, u, c) \/ Delete(o, p, u, c)
        PROVE  TypeOps'
    BY <1>0, <2>2, StartOK DEF ReadHistory, Create, Delete, QueryPcs
  <2>3. ASSUME NEW p \in Pods, NEW u \in Users, NEW c \in Chats, Query(o, p, u, c)
        PROVE  TypeOps'
    <3>1. writes + 1 \in Turns
      BY <2>3 DEF Query, Count, TypeOK, Turns
    <3> QED
      BY <1>0, <2>3, <3>1, StartOK DEF Query
  <2> QED
    BY <1>1, <2>1, <2>2, <2>3 DEF Request
<1>2. ASSUME NEW o \in Ops, Continue(o) PROVE TypeOps'
  BY <1>2, ContinueOK
<1>3. CASE Expires
  BY <1>0, <1>3 DEF Expires, ExpireL1, ExpireL2, ExpireList1, ExpireList2, TypeOps
<1>4. ASSUME NEW o \in Ops, SqlError(o) PROVE TypeOps'
  BY <1>0, <1>4, IdleOK, ReplaceOK DEF SqlError, Done
<1>5. ASSUME NEW p \in Pods, Restart(p) PROVE TypeOps'
  BY <1>0, <1>5, IdleOK DEF Restart, TypeOps
<1>6. CASE UNCHANGED vars
  BY <1>0, <1>6 DEF vars, TypeOps
<1> QED
  BY <1>1, <1>2, <1>3, <1>4, <1>5, <1>6 DEF Next, Environment, Expires

LEMMA TypeDbStep == TypeOK /\ [Next]_vars => TypeDb'
<1> SUFFICES ASSUME TypeOK, [Next]_vars PROVE TypeDb'
  OBVIOUS
<1>0. TypeDb /\ TypeOps
  BY DEF TypeOK
<1>1. ASSUME UNCHANGED <<db, known>> PROVE TypeDb'
  BY <1>0, <1>1 DEF TypeDb, db
<1>2. ASSUME NEW o \in Ops, InsertConversation(o) PROVE TypeDb'
  BY <1>0, <1>2 DEF InsertConversation, TypeDb, ghosts
<1>3. ASSUME NEW o \in Ops, CommitTurn(o) PROVE TypeDb'
  <2>1. /\ op[o].chat \in Chats
        /\ [pos |-> op[o].pos, user |-> Me(o), turn |-> op[o].turn] \in Row
    BY <1>0, <1>3 DEF CommitTurn, At, TypeOps, OpOK, ChatPcs, QueryPcs, Row, Me
  <2>2. rows' \in [Chats -> SUBSET Row]
    BY <1>0, <1>3, <2>1 DEF CommitTurn, TypeDb
  <2>3. owner' \in [Chats -> Users \union {None}]
    BY <1>0, <1>3, <2>1 DEF CommitTurn, TypeDb, Row, Me
  <2>4. count' \in [Chats -> Nat] /\ pend' \in [Chats -> Ops \union {None}]
    BY <1>0, <1>3, <2>1 DEF CommitTurn, TypeDb, Rollback
  <2> QED
    BY <1>0, <1>3, <2>2, <2>3, <2>4 DEF CommitTurn, TypeDb
<1>4. ASSUME NEW o \in Ops, NEW p \in Pods, NEW u \in Users, NEW c \in Chats,
             Query(o, p, u, c) \/ Create(o, p, u, c) \/ Delete(o, p, u, c)
      PROVE  TypeDb'
  BY <1>0, <1>4 DEF Query, Create, Delete, TypeDb, db, ghosts
<1>5. ASSUME NEW o \in Ops, SqlError(o) PROVE TypeDb'
  BY <1>0, <1>5 DEF SqlError, Rollback, TypeDb, ghosts
<1>6. ASSUME NEW p \in Pods, Restart(p) PROVE TypeDb'
  BY <1>0, <1>6 DEF Restart, Rollback, TypeDb, ghosts
<1>7. CASE UNCHANGED vars
  BY <1>1, <1>7 DEF vars, db
<1>8. CASE Expires
  <2>1. UNCHANGED <<db, known>>
    BY <1>8 DEF Expires, ExpireL1, ExpireL2, ExpireList1, ExpireList2, ghosts
  <2> QED
    BY <1>1, <2>1
<1> QED
  BY <1>1, <1>2, <1>3, <1>4, <1>5, <1>6, <1>7, <1>8, TablesFrame
     DEF Next, Environment, Request, Continue, Reads, Expires

LEMMA TypeCachesStep == TypeOK /\ [Next]_vars => TypeCaches' /\ TypeLists'
<1> SUFFICES ASSUME TypeOK, [Next]_vars PROVE TypeCaches' /\ TypeLists'
  OBVIOUS
<1>0. TypeCaches /\ TypeLists /\ TypeOps
  BY DEF TypeOK
<1>1. ASSUME UNCHANGED caches PROVE TypeCaches' /\ TypeLists'
  BY <1>0, <1>1 DEF TypeCaches, TypeLists, caches
<1> USE DEF At, Go, Take, Done
<1>2. ASSUME NEW o \in Ops,
             GetL2(o) \/ Select(o) \/ Exists(o) \/ OtherOwner(o) \/ InsertConversation(o)
             \/ CheckOwner(o) \/ MaxPosition(o) \/ CommitTurn(o) \/ GetList(o)
             \/ SelectList(o) \/ SqlError(o) \/ Request(o)
      PROVE  UNCHANGED caches
  BY <1>2 DEF GetL2, Select, Exists, OtherOwner, InsertConversation, CheckOwner,
       MaxPosition, CommitTurn, GetList, SelectList, SqlError, Request, ListChats,
       ReadHistory, Query, Create, Delete
<1>3. ASSUME NEW o \in Ops, Warm(o) \/ Fill(o) \/ Seed(o) \/ Invalidate(o) \/ Merge(o)
      PROVE  TypeCaches'
  <2> DEFINE Puts(v) == IsCached(v) /\ l1' = [l1 EXCEPT ![op[o].pod][Key(o)] = v]
  <2>1. l2' = l2 /\ (l1' = l1 \/ \E v : Puts(v))
    <3>1. CASE Warm(o) \/ Fill(o)
      <4>1. Puts(op[o].snap) /\ l2' = l2
        BY <1>0, <3>1 DEF Warm, Fill, TypeOps, OpOK, IsCached
      <4> QED
        BY <4>1
    <3>2. CASE Invalidate(o)
      <4>1. Puts(Miss) /\ l2' = l2
        BY <3>2 DEF Invalidate, IsCached
      <4> QED
        BY <4>1
    <3>3. CASE Seed(o)
      <4>1. Puts(<<>>) /\ l2' = l2
        BY <3>3 DEF Seed, IsCached
      <4> QED
        BY <4>1
    <3>4. CASE Merge(o)
      <4> DEFINE cached == l1[op[o].pod][Key(o)]
      <4>1. op[o].pod \in Pods /\ Key(o) \in Keys /\ op[o].turn \in Turns
        BY <1>0, <3>4 DEF Merge, TypeOps, OpOK, ChatPcs, QueryPcs, Key, Keys
      <4>2. IsCached(cached)
        BY <1>0, <4>1 DEF TypeCaches
      <4>3. CASE cached = Miss
        BY <3>4, <4>3 DEF Merge
      <4>4. CASE cached # Miss
        <5>1. IsCached(Append(cached, op[o].turn))
          BY <4>1, <4>2, <4>4 DEF IsCached
        <5>2. l1' = [l1 EXCEPT ![op[o].pod][Key(o)] = Append(cached, op[o].turn)] /\ l2' = l2
          BY <3>4, <4>4 DEF Merge
        <5> QED
          BY <5>1, <5>2
      <4> QED
        BY <4>3, <4>4
    <3> QED
      BY <1>3, <3>1, <3>2, <3>3, <3>4
  <2>2. CASE l1' = l1
    BY <1>0, <2>1, <2>2 DEF TypeCaches
  <2>3. ASSUME NEW v, Puts(v) PROVE TypeCaches'
    <3>1. DOMAIN l1' = Pods /\ \A p \in Pods : DOMAIN l1'[p] = Keys
      BY <1>0, <2>3 DEF TypeCaches
    <3>2. \A p \in Pods, k \in Keys : IsCached(l1'[p][k])
      BY <1>0, <2>3 DEF TypeCaches
    <3> QED
      BY <1>0, <2>1, <3>1, <3>2 DEF TypeCaches
  <2> QED
    BY <2>1, <2>2, <2>3
<1>4. ASSUME NEW o \in Ops,
             Warm(o) \/ Fill(o) \/ Seed(o) \/ Invalidate(o) \/ Merge(o)
             \/ SetL2(o) \/ DropL2(o)
      PROVE  TypeLists'
  <2>1. /\ list2' = list2
        /\ list1' = list1 \/ list1' = [list1 EXCEPT ![op[o].pod][Me(o)] = Miss]
    BY <1>4 DEF Warm, Fill, Seed, Invalidate, Merge, SetL2, DropL2
  <2> QED
    BY <1>0, <2>1 DEF TypeLists, IsList
<1>5. ASSUME NEW o \in Ops, SetL2(o) \/ DropL2(o) PROVE TypeCaches'
  <2>1. /\ l1' = l1
        /\ \/ l2' = l2
           \/ \E v : IsCached(v) /\ l2' = [l2 EXCEPT ![Key(o)] = v]
    BY <1>0, <1>5 DEF SetL2, DropL2, TypeOps, OpOK, IsCached
  <2> QED
    BY <1>0, <2>1 DEF TypeCaches
<1>6. ASSUME NEW o \in Ops, DropList(o) \/ FillList(o) \/ SetList(o)
      PROVE  TypeCaches' /\ TypeLists'
  <2>1. /\ l1' = l1 /\ l2' = l2
        /\ \E v : /\ IsList(v)
                  /\ \/ UNCHANGED <<list1, list2>>
                     \/ list1' = list1 /\ list2' = [list2 EXCEPT ![Me(o)] = v]
                     \/ list2' = list2 /\ list1' = [list1 EXCEPT ![op[o].pod][Me(o)] = v]
    BY <1>0, <1>6 DEF DropList, FillList, SetList, TypeOps, OpOK, IsList
  <2> QED
    BY <1>0, <2>1 DEF TypeCaches, TypeLists
<1>7. CASE Expires
  BY <1>0, <1>7 DEF Expires, ExpireL1, ExpireL2, ExpireList1, ExpireList2, TypeCaches,
                    TypeLists, IsCached, IsList
<1>8. ASSUME NEW p \in Pods, Restart(p) PROVE TypeCaches' /\ TypeLists'
  BY <1>0, <1>8 DEF Restart, TypeCaches, TypeLists, IsCached, IsList
<1>9. CASE UNCHANGED vars
  BY <1>1, <1>9 DEF vars, caches
<1> QED
  BY <1>1, <1>2, <1>3, <1>4, <1>5, <1>6, <1>7, <1>8, <1>9
     DEF Next, Environment, Continue, Expires

LEMMA TypeStep == TypeOK /\ Tables /\ [Next]_vars => TypeOK'
<1> SUFFICES ASSUME TypeOK, Tables, [Next]_vars PROVE TypeOK'
  OBVIOUS
<1>1. writes' \in 0 .. MaxWrites /\ faults' \in 0 .. MaxFaults
  <2> SUFFICES /\ writes' = writes \/ Count
               /\ faults' = faults \/ \E f : Fault(f)
    BY DEF TypeOK, Count, Fault
  <2>1. ASSUME NEW o \in Ops, Request(o) PROVE (writes' = writes \/ Count) /\ faults' = faults
    BY <2>1 DEF Request, ListChats, ReadHistory, Query, Create, Delete
  <2>2. ASSUME NEW o \in Ops, Continue(o) \/ SqlError(o)
        PROVE  writes' = writes /\ (faults' = faults \/ \E f : Fault(f))
    BY <2>2 DEF Continue, SqlError, NoFault, GetL2, Warm, Select, Fill, SetL2, DropList,
         Exists, OtherOwner, InsertConversation, CheckOwner, MaxPosition, CommitTurn,
         Merge, Seed, Invalidate, DropL2, GetList, SelectList, FillList, SetList
  <2>3. ASSUME Expires \/ UNCHANGED vars PROVE writes' = writes /\ faults' = faults
    BY <2>3 DEF Expires, ExpireL1, ExpireL2, ExpireList1, ExpireList2, vars
  <2>4. ASSUME NEW p \in Pods, Restart(p) PROVE writes' = writes /\ Fault("pod")
    BY <2>4 DEF Restart
  <2> QED
    BY <2>1, <2>2, <2>3, <2>4 DEF Next, Environment, Expires
<1> QED
  BY <1>1, TypeOpsStep, TypeDbStep, TypeCachesStep DEF TypeOK

-------------------------------------------------------------------------------
\* The tables agree with each other over one step.

LEMMA ChatsKnownStep == TypeOK /\ ChatsKnown /\ [Next]_vars => ChatsKnown'
<1> SUFFICES ASSUME TypeOK, ChatsKnown, [Next]_vars PROVE ChatsKnown'
  OBVIOUS
<1>0. TypeOps /\ known \subseteq known'
  <2>1. known' = known \/ \E c : known' = known \union {c}
    <3>1. ASSUME NEW o \in Ops, Request(o)
          PROVE  known' = known \/ \E c : known' = known \union {c}
      BY <3>1 DEF Request, ListChats, ReadHistory, Query, Create, Delete, ghosts
    <3>2. ASSUME NEW o \in Ops, Continue(o) \/ Expires PROVE known' = known
      BY <3>2, TablesFrame DEF Continue, Reads, InsertConversation, CommitTurn, ghosts
    <3>3. ASSUME NEW o \in Ops, NEW p \in Pods, SqlError(o) \/ Restart(p)
          PROVE  known' = known
      BY <3>3 DEF SqlError, Restart, ghosts
    <3>4. CASE Expires \/ UNCHANGED vars
      BY <3>4 DEF Expires, ExpireL1, ExpireL2, ExpireList1, ExpireList2, ghosts, vars
    <3>5. ASSUME NEW o \in Ops, SqlError(o) PROVE known' = known
      BY <3>5 DEF SqlError, ghosts
    <3>6. ASSUME NEW p \in Pods, Restart(p) PROVE known' = known
      BY <3>6 DEF Restart, ghosts
    <3> QED
      BY <3>1, <3>2, <3>4, <3>5, <3>6 DEF Next, Environment, Expires
  <2> QED
    BY <2>1 DEF TypeOK
<1> USE DEF QueryPcs, Idle
<1>1. ASSUME NEW o \in Ops, Request(o) PROVE ChatsKnown'
  <2>1. ASSUME NEW p \in Pods, NEW u \in Users, NEW c \in Chats, Query(o, p, u, c)
        PROVE  ChatsKnown'
    <3>1. c \in known' /\ op'[o].chat = c /\ \A x \in Ops \ {o} : op'[x] = op[x]
      BY <1>0, <2>1 DEF Query, Start, TypeOps
    <3> QED
      BY <1>0, <3>1 DEF ChatsKnown
  <2>2. ASSUME NEW p \in Pods, NEW u \in Users, NEW c,
               NEW l \in {"getl2", "seed", "invalidate", "getlist"}, NEW kind,
               Start(o, kind, p, u, c, l, 0)
        PROVE  ChatsKnown'
    BY <1>0, <2>2 DEF Start, TypeOps, ChatsKnown
  <2> QED
    BY <1>1, <2>1, <2>2 DEF Request, ListChats, ReadHistory, Create, Delete
<1>2. ASSUME NEW o \in Ops, Continue(o) \/ SqlError(o) PROVE ChatsKnown'
  <2> USE DEF At, Go, Take, Done, TypeOps, OpOK
  <2>1. \A x \in Ops \ {o} : op'[x] = op[x]
    BY <1>0, <1>2 DEF Continue, SqlError, GetL2, Warm, Select, Fill, SetL2, DropList,
         Exists, OtherOwner, InsertConversation, CheckOwner, MaxPosition, CommitTurn,
         Merge, Seed, Invalidate, DropL2, GetList, SelectList, FillList, SetList
  <2>2. op'[o].pc \in QueryPcs => op[o].pc \in QueryPcs /\ op'[o].chat = op[o].chat
    <3>1. CASE GetL2(o) \/ Warm(o) \/ Select(o) \/ Fill(o) \/ SetL2(o) \/ DropList(o)
      BY <1>0, <3>1 DEF GetL2, Warm, Select, Fill, SetL2, DropList
    <3>2. CASE Exists(o) \/ OtherOwner(o) \/ InsertConversation(o) \/ CheckOwner(o)
      BY <1>0, <3>2 DEF Exists, OtherOwner, InsertConversation, CheckOwner
    <3>3. CASE MaxPosition(o) \/ CommitTurn(o) \/ Merge(o) \/ SqlError(o)
      BY <1>0, <3>3 DEF MaxPosition, CommitTurn, Merge, SqlError
    <3>4. CASE Seed(o) \/ Invalidate(o) \/ DropL2(o) \/ GetList(o) \/ SelectList(o)
               \/ FillList(o) \/ SetList(o)
      BY <1>0, <3>4 DEF Seed, Invalidate, DropL2, GetList, SelectList, FillList, SetList
    <3> QED
      BY <1>2, <3>1, <3>2, <3>3, <3>4 DEF Continue
  <2> QED
    BY <1>0, <2>1, <2>2 DEF ChatsKnown
<1>3. ASSUME NEW p \in Pods, Restart(p) PROVE ChatsKnown'
  BY <1>0, <1>3 DEF Restart, ChatsKnown, TypeOps
<1>4. CASE Expires \/ UNCHANGED vars
  BY <1>0, <1>4 DEF Expires, ExpireL1, ExpireL2, ExpireList1, ExpireList2, vars, ChatsKnown
<1> QED
  BY <1>1, <1>2, <1>3, <1>4 DEF Next, Environment, Expires

LEMMA TablesStep == TypeOK /\ TableInv /\ [Next]_vars => Tables'
<1> SUFFICES ASSUME TypeOK, Tables, ChatsKnown, [Next]_vars PROVE Tables'
  BY DEF TableInv
<1>0. TypeDb /\ TypeOps
  BY DEF TypeOK
<1>1. ASSUME UNCHANGED <<db, known>> PROVE Tables'
  BY <1>1 DEF Tables, db
<1>2. ASSUME NEW O, Rollback(O), UNCHANGED <<owner, count, rows, known>> PROVE Tables'
  BY <1>0, <1>2 DEF Tables, Rollback, TypeDb
<1>3. ASSUME NEW o \in Ops, InsertConversation(o) PROVE Tables'
  <2>1. op[o].chat \in Chats /\ op[o].chat \in known
    BY <1>0, <1>3 DEF InsertConversation, At, TypeOps, OpOK, ChatPcs, QueryPcs, ChatsKnown
  <2> QED
    BY <1>0, <1>3, <2>1 DEF InsertConversation, Tables, TypeDb, ghosts
<1>4. ASSUME NEW o \in Ops, CommitTurn(o) PROVE Tables'
  <2> DEFINE c == op[o].chat
             row == [pos |-> op[o].pos, user |-> Me(o), turn |-> op[o].turn]
  <2>1. c \in Chats /\ c \in known /\ Me(o) \in Users
    BY <1>0, <1>4 DEF CommitTurn, At, TypeOps, OpOK, ChatPcs, QueryPcs, ChatsKnown, Me
  <2>2. CASE UNCHANGED <<owner, rows, count>>
    BY <1>2, <1>4, <2>2 DEF CommitTurn
  <2>3. CASE /\ \A r \in rows[c] : r.pos # op[o].pos
             /\ pend[c] = o \/ owner[c] # None
             /\ owner' = IF pend[c] = o THEN [owner EXCEPT ![c] = Me(o)] ELSE owner
             /\ rows' = [rows EXCEPT ![c] = @ \union {row}]
             /\ count' = [count EXCEPT ![c] = @ + 1]
    <3>1. /\ pend' = [d \in Chats |-> IF pend[d] \in {o} THEN None ELSE pend[d]]
          /\ known' = known
      BY <1>4 DEF CommitTurn, Rollback
    <3>2. row \notin rows[c] /\ IsFiniteSet(rows[c]) /\ count[c] = Cardinality(rows[c])
      BY <2>1, <2>3 DEF Tables
    <3>3. rows'[c] = rows[c] \union {row} /\ count'[c] = count[c] + 1
      BY <1>0, <2>1, <2>3 DEF TypeDb
    <3>4. IsFiniteSet(rows'[c]) /\ count'[c] = Cardinality(rows'[c])
      <4> HIDE DEF row, c
      <4>1. IsFiniteSet(rows[c] \union {row})
            /\ Cardinality(rows[c] \union {row}) = Cardinality(rows[c]) + 1
        BY <3>2, FS_AddElement
      <4> QED
        BY <3>2, <3>3, <4>1
    <3>5. owner'[c] # None /\ pend'[c] = None
      <4>1. CASE pend[c] = o
        BY <1>0, <2>1, <2>3, <3>1, <4>1 DEF TypeDb
      <4>2. CASE pend[c] # o
        <5>1. owner[c] # None /\ owner' = owner
          BY <2>3, <4>2
        <5> QED
          BY <2>1, <3>1, <4>2, <5>1 DEF Tables
      <4> QED
        BY <4>1, <4>2
    <3>6. \A d \in Chats \ {c} : /\ owner'[d] = owner[d] /\ rows'[d] = rows[d]
                                 /\ count'[d] = count[d]
                                 /\ pend'[d] = pend[d] \/ pend'[d] = None
      BY <1>0, <2>1, <2>3, <3>1 DEF TypeDb
    <3> HIDE DEF c
    <3> QED
      BY <2>1, <3>1, <3>4, <3>5, <3>6 DEF Tables
  <2> QED
    BY <1>4, <2>2, <2>3 DEF CommitTurn
<1>5. ASSUME NEW o \in Ops, NEW p \in Pods, NEW u \in Users, NEW c \in Chats,
             Create(o, p, u, c)
      PROVE  Tables'
  <2>1. owner[c] = None /\ rows[c] = {} /\ pend[c] = None
    BY <1>5 DEF Create, Tables
  <2> QED
    BY <1>0, <1>5, <2>1, FS_EmptySet DEF Create, Tables, TypeDb
<1>6. ASSUME NEW o \in Ops, NEW p \in Pods, NEW u \in Users, NEW c \in Chats,
             Delete(o, p, u, c)
      PROVE  Tables'
  <2>1. pend' = pend /\ known' = known
    BY <1>6 DEF Delete, ghosts
  <2>2. CASE owner[c] = u
    <3>1. /\ owner'[c] = None /\ rows'[c] = {} /\ count'[c] = 0 /\ pend[c] = None
          /\ \A d \in Chats \ {c} : /\ owner'[d] = owner[d] /\ rows'[d] = rows[d]
                                   /\ count'[d] = count[d]
      BY <1>0, <1>6, <2>2 DEF Delete, Tables, TypeDb
    <3> QED
      BY <2>1, <3>1, FS_EmptySet DEF Tables
  <2>3. CASE owner[c] # u
    BY <1>1, <1>6, <2>1, <2>3 DEF Delete, db
  <2> QED
    BY <2>2, <2>3
<1>7. ASSUME NEW o \in Ops, NEW p \in Pods, NEW u \in Users, NEW c \in Chats,
             Query(o, p, u, c)
      PROVE  Tables'
  BY <1>7 DEF Query, Tables, db
<1>8. ASSUME NEW o \in Ops, SqlError(o) PROVE Tables'
  BY <1>2, <1>8 DEF SqlError, ghosts
<1>9. ASSUME NEW p \in Pods, Restart(p) PROVE Tables'
  BY <1>2, <1>9 DEF Restart, ghosts
<1>10. CASE UNCHANGED vars
  BY <1>1, <1>10 DEF vars, db
<1>11. CASE Expires
  <2>1. UNCHANGED <<db, known>>
    BY <1>11 DEF Expires, ExpireL1, ExpireL2, ExpireList1, ExpireList2, ghosts
  <2> QED
    BY <1>1, <2>1
<1> QED
  BY <1>1, <1>3, <1>4, <1>5, <1>6, <1>7, <1>8, <1>9, <1>10, <1>11, TablesFrame
     DEF Next, Environment, Request, Continue, Reads, Expires

-------------------------------------------------------------------------------
\* The caches show committed turns only, over one step.

\* What was committed stays so, and only a commit adds a row.
LEMMA CommittedGrows ==
    ASSUME TypeOK, [Next]_vars
    PROVE  /\ committed \subseteq committed'
           /\ \/ \A c \in Chats : rows'[c] \subseteq rows[c]
              \/ \E o \in Ops : CommitTurn(o)
<1>0. TypeDb
  BY DEF TypeOK
<1>1. ASSUME NEW o \in Ops, Request(o)
      PROVE  committed' = committed /\ \A c \in Chats : rows'[c] \subseteq rows[c]
  <2>1. \/ rows' = rows
        \/ \E c \in Chats : rows' = [rows EXCEPT ![c] = {}]
    BY <1>1 DEF Request, ListChats, ReadHistory, Query, Create, Delete, db
  <2>2. committed' = committed
    BY <1>1 DEF Request, ListChats, ReadHistory, Query, Create, Delete, ghosts
  <2> QED
    BY <1>0, <2>1, <2>2 DEF TypeDb
<1>2. ASSUME NEW o \in Ops, CommitTurn(o) PROVE committed \subseteq committed'
  BY <1>2 DEF CommitTurn
<1>3. ASSUME NEW o \in Ops, InsertConversation(o) \/ SqlError(o)
      PROVE  committed' = committed /\ rows' = rows
  BY <1>3 DEF InsertConversation, SqlError, ghosts
<1>4. ASSUME NEW p \in Pods, Restart(p) PROVE committed' = committed /\ rows' = rows
  BY <1>4 DEF Restart, ghosts
<1>5. ASSUME NEW o \in Ops, Reads(o) PROVE committed' = committed /\ rows' = rows
  BY <1>5, TablesFrame DEF db
<1>6. CASE Expires \/ UNCHANGED vars
  <2>1. committed' = committed /\ rows' = rows
    BY <1>6 DEF Expires, ExpireL1, ExpireL2, ExpireList1, ExpireList2, ghosts, db, vars
  <2> QED
    BY <2>1
<1> QED
  BY <1>1, <1>2, <1>3, <1>4, <1>5, <1>6 DEF Next, Environment, Continue, Reads, Expires

LEMMA RowsCommittedStep == TypeOK /\ RowsCommitted /\ [Next]_vars => RowsCommitted'
<1> SUFFICES ASSUME TypeOK, RowsCommitted, [Next]_vars PROVE RowsCommitted'
  OBVIOUS
<1>1. CASE \A c \in Chats : rows'[c] \subseteq rows[c]
  BY <1>1, CommittedGrows DEF RowsCommitted
<1>2. ASSUME NEW o \in Ops, CommitTurn(o) PROVE RowsCommitted'
  <2> DEFINE d == op[o].chat
  <2>1. TypeDb /\ committed \subseteq committed'
    BY CommittedGrows DEF TypeOK
  <2>2. CASE rows' = rows
    BY <2>1, <2>2 DEF RowsCommitted
  <2>3. CASE /\ rows' = [rows EXCEPT ![d] = @ \union
                           {[pos |-> op[o].pos, user |-> Me(o), turn |-> op[o].turn]}]
             /\ committed' = committed \union {<<<<Me(o), d>>, op[o].turn>>}
    <3> SUFFICES ASSUME NEW c \in Chats, NEW r \in rows'[c]
                 PROVE  <<<<r.user, c>>, r.turn>> \in committed'
      BY DEF RowsCommitted
    <3>1. CASE r \in rows[c]
      BY <2>1, <3>1 DEF RowsCommitted
    <3>2. CASE r \notin rows[c]
      <4>1. c = d /\ r = [pos |-> op[o].pos, user |-> Me(o), turn |-> op[o].turn]
        BY <2>1, <2>3, <3>2 DEF TypeDb
      <4> QED
        BY <2>3, <4>1
    <3> QED
      BY <3>1, <3>2
  <2> QED
    BY <1>2, <2>2, <2>3 DEF CommitTurn
<1> QED
  BY <1>1, <1>2, CommittedGrows

\* A cached list with one more committed turn shows committed turns.
LEMMA BackedAppend ==
    ASSUME NEW k, NEW v \in Seq(Turns), NEW turn \in Turns, NEW C,
           Backed(v, k, C), <<k, turn>> \in C, v # Miss
    PROVE  Backed(Append(v, turn), k, C)
BY DEF Backed

\* What is backed by the committed turns stays so when more are committed.
LEMMA BackedGrows ==
    ASSUME NEW C, NEW D, C \subseteq D
    PROVE  /\ \A v, k : Backed(v, k, C) => Backed(v, k, D)
           /\ \A w : OpBacked(w, C) => OpBacked(w, D)
BY DEF Backed, OpBacked

\* Where an operation holds nothing that it will put into a cache of messages.
LEMMA NothingBacked ==
    ASSUME NEW w, NEW C, w.pc \notin {"warm", "fill", "setl2", "merge"}
    PROVE  OpBacked(w, C)
BY DEF OpBacked

LEMMA SnapsStep == TypeOK /\ Tables /\ CacheInv /\ [Next]_vars => SnapsCommitted'
<1> SUFFICES ASSUME TypeOK, Tables, RowsCommitted, SnapsCommitted, NoPhantom, [Next]_vars
             PROVE  SnapsCommitted'
  BY DEF CacheInv
<1> DEFINE D == committed'
<1>0. TypeDb /\ TypeOps /\ TypeCaches /\ committed \subseteq D
  BY CommittedGrows DEF TypeOK
<1>1. \A x \in Ops : OpBacked(op[x], D)
  <2> HIDE DEF D
  <2> QED
    BY <1>0, BackedGrows DEF SnapsCommitted
<1>2. OpBacked(Idle, D)
  BY NothingBacked DEF Idle
<1>3. ASSUME NEW o \in Ops, NEW w, OpBacked(w, D), op' = [op EXCEPT ![o] = w]
      PROVE  SnapsCommitted'
  <2>1. \A x \in Ops : op'[x] = w \/ op'[x] = op[x]
    BY <1>0, <1>3 DEF TypeOps
  <2> QED
    BY <1>1, <1>3, <2>1 DEF SnapsCommitted
<1>4. ASSUME NEW o \in Ops, Continue(o) PROVE SnapsCommitted'
  <2>0. OpOK(op[o]) /\ DOMAIN op = Ops
    BY <1>0 DEF TypeOps
  <2> USE DEF At, Go, Take, Done, Key, Me, OpOK, ChatPcs, QueryPcs, ListPcs, Idle
  <2>1. CASE GetL2(o)
    <3> DEFINE w == [op[o] EXCEPT !.pc = "warm", !.snap = l2[Key(o)]]
               z == [op[o] EXCEPT !.pc = "select"]
    <3>1. /\ (Key(o) \in Keys /\ op' = [op EXCEPT ![o] = w]) \/ op' = [op EXCEPT ![o] = z]
          /\ z.pc = "select"
          /\ w.user = op[o].user /\ w.chat = op[o].chat /\ w.snap = l2[Key(o)]
          /\ w.pc = "warm"
      BY <2>0, <2>1 DEF GetL2, Keys
    <3>2. OpBacked(z, D)
      BY <3>1, NothingBacked
    <3>3. Key(o) \in Keys => Backed(l2[Key(o)], Key(o), D)
      BY <1>0 DEF NoPhantom, Shows, Backed
    <3>4. Key(o) \in Keys => OpBacked(w, D)
      BY <3>1, <3>3 DEF OpBacked
    <3> HIDE DEF w, z, D
    <3> QED
      BY <1>3, <3>1, <3>2, <3>4
  <2>2. CASE Select(o)
    <3>1. PICK s \in Selected(op[o].user, op[o].chat) :
             op' = [op EXCEPT ![o] = [op[o] EXCEPT !.pc = "fill", !.snap = s]]
      BY <2>2 DEF Select
    <3>2. op[o].user \in Users /\ op[o].chat \in Chats
      BY <2>0, <2>2 DEF Select
    <3>3. \A i \in DOMAIN s : <<<<op[o].user, op[o].chat>>, s[i]>> \in committed
      BY <1>0, <3>2, SelectedTurns DEF RowsCommitted
    <3>4. OpBacked([op[o] EXCEPT !.pc = "fill", !.snap = s], D)
      BY <1>0, <2>0, <3>3 DEF OpBacked, Backed
    <3> HIDE DEF D
    <3> QED
      BY <1>3, <3>1, <3>4
  <2>3. CASE CommitTurn(o)
    <3> DEFINE w == [op[o] EXCEPT !.pc = "merge"]
    <3>1. \/ op' = [op EXCEPT ![o] = Idle]
          \/ /\ op' = [op EXCEPT ![o] = w]
             /\ <<<<op[o].user, op[o].chat>>, op[o].turn>> \in D
      BY <2>3 DEF CommitTurn
    <3>2. <<<<op[o].user, op[o].chat>>, op[o].turn>> \in D => OpBacked(w, D)
      BY <2>0 DEF OpBacked
    <3> HIDE DEF w, D
    <3> QED
      BY <1>2, <1>3, <3>1, <3>2
  <2>4. CASE Merge(o)
    <3> DEFINE cached == l1[op[o].pod][Key(o)]
               w == [op[o] EXCEPT !.pc = "setl2", !.snap = Append(cached, op[o].turn)]
               z == [op[o] EXCEPT !.pc = "select"]
    <3>1. /\ op[o].pod \in Pods /\ Key(o) \in Keys /\ op[o].turn \in Turns
          /\ op[o].pc = "merge"
      BY <2>0, <2>4 DEF Merge, Keys
    <3>2. IsCached(cached) /\ Backed(cached, Key(o), D)
      BY <1>0, <3>1 DEF TypeCaches, NoPhantom, Shows, Backed
    <3>3. <<Key(o), op[o].turn>> \in D
      BY <1>1, <3>1 DEF OpBacked
    <3>4. OpBacked(z, D)
      BY <2>0 DEF OpBacked
    <3>5. CASE cached = Miss
      <4>1. op' = [op EXCEPT ![o] = z]
        BY <2>4, <3>5 DEF Merge
      <4> HIDE DEF z, D
      <4> QED
        BY <1>3, <3>4, <4>1
    <3>6. CASE cached # Miss
      <4>1. op' = [op EXCEPT ![o] = w]
        BY <2>4, <3>6 DEF Merge
      <4>2. Backed(Append(cached, op[o].turn), Key(o), D)
        <5>1. cached \in Seq(Turns)
          BY <3>2, <3>6 DEF IsCached
        <5> HIDE DEF cached, D
        <5> QED
          BY <3>1, <3>2, <3>3, <3>6, <5>1, BackedAppend
      <4>3. w.pc = "setl2" /\ w.user = op[o].user /\ w.chat = op[o].chat
            /\ w.snap = Append(cached, op[o].turn)
        BY <2>0
      <4>4. OpBacked(w, D)
        <5> HIDE DEF w, cached, D
        <5> QED
          BY <4>2, <4>3 DEF OpBacked
      <4> HIDE DEF w, D
      <4> QED
        BY <1>3, <4>1, <4>4
    <3> QED
      BY <3>5, <3>6
  <2>5. CASE Fill(o)
    <3> DEFINE w == [op[o] EXCEPT !.pc = "setl2"]
    <3>1. op[o].pc = "fill" /\ op' = [op EXCEPT ![o] = w]
      BY <2>5 DEF Fill
    <3>2. OpBacked(w, D)
      BY <1>1, <2>0, <3>1 DEF OpBacked
    <3> HIDE DEF w, D
    <3> QED
      BY <1>3, <3>1, <3>2
  <2>6. CASE Seed(o)
    <3> DEFINE w == [op[o] EXCEPT !.pc = "setl2", !.snap = <<>>]
    <3>1. op' = [op EXCEPT ![o] = w]
      BY <2>6 DEF Seed
    <3>2. OpBacked(w, D)
      BY <2>0 DEF OpBacked, Backed
    <3> HIDE DEF w, D
    <3> QED
      BY <1>3, <3>1, <3>2
  <2>7. CASE \/ Warm(o) \/ SetL2(o) \/ DropList(o) \/ Exists(o) \/ OtherOwner(o)
             \/ InsertConversation(o) \/ MaxPosition(o) \/ CheckOwner(o)
             \/ Invalidate(o) \/ DropL2(o) \/ GetList(o) \/ SelectList(o) \/ FillList(o)
             \/ SetList(o)
    <3>1. CASE Warm(o) \/ SetL2(o) \/ DropList(o) \/ Exists(o) \/ OtherOwner(o)
      <4>1. \/ op' = [op EXCEPT ![o] = Idle]
            \/ \E l \in {"droplist", "insert", "other"} :
                 /\ op' = [op EXCEPT ![o] = [op[o] EXCEPT !.pc = l]]
                 /\ [op[o] EXCEPT !.pc = l].pc = l
        BY <2>0, <3>1 DEF Warm, SetL2, DropList, Exists, OtherOwner
      <4> HIDE DEF D
      <4> QED
        BY <1>2, <1>3, <4>1, NothingBacked
    <3>2. CASE InsertConversation(o) \/ Invalidate(o) \/ DropL2(o) \/ FillList(o) \/ SetList(o)
      <4>1. \/ op' = [op EXCEPT ![o] = Idle]
            \/ \E l \in {"owner", "dropl2", "droplist", "setlist"} :
                 /\ op' = [op EXCEPT ![o] = [op[o] EXCEPT !.pc = l]]
                 /\ [op[o] EXCEPT !.pc = l].pc = l
        BY <2>0, <3>2 DEF InsertConversation, Invalidate, DropL2, FillList, SetList
      <4> HIDE DEF D
      <4> QED
        BY <1>2, <1>3, <4>1, NothingBacked
    <3>3. CASE MaxPosition(o)
      <4>1. PICK n : op' = [op EXCEPT ![o] = [op[o] EXCEPT !.pc = "commit", !.pos = n]]
        BY <3>3 DEF MaxPosition
      <4>2. [op[o] EXCEPT !.pc = "commit", !.pos = n].pc = "commit"
        BY <2>0
      <4> HIDE DEF D
      <4> QED
        BY <1>3, <4>1, <4>2, NothingBacked
    <3>4. CASE CheckOwner(o)
      <4>1. \/ op' = [op EXCEPT ![o] = Idle]
            \/ /\ op' = [op EXCEPT ![o] = [op[o] EXCEPT !.pc = "position"]]
               /\ [op[o] EXCEPT !.pc = "position"].pc = "position"
            \/ /\ op' = [op EXCEPT ![o] = [op[o] EXCEPT !.pc = "getl2", !.kind = "history"]]
               /\ [op[o] EXCEPT !.pc = "getl2", !.kind = "history"].pc = "getl2"
        BY <2>0, <3>4 DEF CheckOwner
      <4> HIDE DEF D
      <4> QED
        BY <1>2, <1>3, <4>1, NothingBacked
    <3>5. CASE GetList(o) \/ SelectList(o)
      <4>1. \E s : \E l \in {"warmlist", "selectlist", "filllist"} :
               /\ \/ op' = [op EXCEPT ![o] = [op[o] EXCEPT !.pc = l]]
                  \/ op' = [op EXCEPT ![o] = [op[o] EXCEPT !.pc = l, !.snap = s]]
               /\ [op[o] EXCEPT !.pc = l].pc = l /\ [op[o] EXCEPT !.pc = l, !.snap = s].pc = l
        BY <2>0, <3>5 DEF GetList, SelectList
      <4> HIDE DEF D
      <4> QED
        BY <1>3, <4>1, NothingBacked
    <3> QED
      BY <2>7, <3>1, <3>2, <3>3, <3>4, <3>5
  <2> QED
    BY <1>4, <2>1, <2>2, <2>3, <2>4, <2>5, <2>6, <2>7 DEF Continue
<1>5. ASSUME NEW o \in Ops, Request(o) PROVE SnapsCommitted'
  <2>1. ASSUME NEW kind, NEW p, NEW u, NEW c, NEW turn,
               NEW l \in {"getl2", "exists", "insert", "seed", "invalidate", "getlist"},
               Start(o, kind, p, u, c, l, turn)
        PROVE  SnapsCommitted'
    <3> DEFINE w == [Idle EXCEPT !.pc = l, !.kind = kind, !.pod = p, !.user = u,
                                 !.chat = c, !.turn = turn]
    <3>1. op' = [op EXCEPT ![o] = w]
      BY <2>1 DEF Start
    <3>2. w.pc = l
      BY DEF Idle
    <3> HIDE DEF w, D
    <3> QED
      BY <1>3, <3>1, <3>2, NothingBacked
  <2>2. PICK p \in Pods, u \in Users :
           ListChats(o, p, u) \/ \E c \in Chats : ReadHistory(o, p, u, c) \/ Query(o, p, u, c)
                                               \/ Create(o, p, u, c) \/ Delete(o, p, u, c)
    BY <1>5 DEF Request
  <2>3. CASE ListChats(o, p, u)
    BY <2>1, <2>3 DEF ListChats
  <2>4. ASSUME NEW c \in Chats, ReadHistory(o, p, u, c) \/ Query(o, p, u, c)
                                \/ Create(o, p, u, c) \/ Delete(o, p, u, c)
        PROVE  SnapsCommitted'
    BY <2>1, <2>4 DEF ReadHistory, Query, Create, Delete
  <2> QED
    BY <2>2, <2>3, <2>4
<1>6. ASSUME NEW o \in Ops, SqlError(o) PROVE SnapsCommitted'
  <2>1. op' = [op EXCEPT ![o] = Idle]
    BY <1>6 DEF SqlError, Done
  <2> HIDE DEF D
  <2> QED
    BY <1>2, <1>3, <2>1
<1>7. ASSUME NEW p \in Pods, Restart(p) PROVE SnapsCommitted'
  <2>1. \A x \in Ops : op'[x] = Idle \/ op'[x] = op[x]
    BY <1>7 DEF Restart
  <2> QED
    BY <1>1, <1>2, <2>1 DEF SnapsCommitted
<1>8. CASE Expires \/ UNCHANGED vars
  <2>1. op' = op
    BY <1>8 DEF Expires, ExpireL1, ExpireL2, ExpireList1, ExpireList2, vars
  <2> QED
    BY <1>1, <2>1 DEF SnapsCommitted
<1> QED
  BY <1>4, <1>5, <1>6, <1>7, <1>8 DEF Next, Environment, Expires

LEMMA PhantomStep == TypeOK /\ CacheInv /\ [Next]_vars => NoPhantom'
<1> SUFFICES ASSUME TypeOK, SnapsCommitted, NoPhantom, [Next]_vars PROVE NoPhantom'
  BY DEF CacheInv
<1> DEFINE D == committed'
<1>0. TypeOps /\ TypeCaches /\ committed \subseteq D
  BY CommittedGrows DEF TypeOK
<1>1. /\ \A k \in Keys : Backed(l2[k], k, D) /\ \A p \in Pods : Backed(l1[p][k], k, D)
      /\ \A x \in Ops : OpBacked(op[x], D)
  <2>1. /\ \A k \in Keys : /\ Backed(l2[k], k, committed)
                           /\ \A p \in Pods : Backed(l1[p][k], k, committed)
        /\ \A x \in Ops : OpBacked(op[x], committed)
    BY DEF NoPhantom, Shows, Backed, SnapsCommitted
  <2> HIDE DEF D
  <2> QED
    BY <1>0, <2>1, BackedGrows
<1>2. ASSUME \A k \in Keys : Backed(l2'[k], k, D) /\ \A p \in Pods : Backed(l1'[p][k], k, D)
      PROVE  NoPhantom'
  BY <1>2 DEF NoPhantom, Shows, Backed
<1>3. ASSUME UNCHANGED <<l1, l2>> PROVE NoPhantom'
  BY <1>1, <1>2, <1>3
\* An operation puts v into its pod's cache, or into Redis, under its own key.
<1>4. ASSUME NEW o \in Ops, NEW v, Backed(v, Key(o), D),
             \/ l1' = [l1 EXCEPT ![op[o].pod][Key(o)] = v] /\ l2' = l2
             \/ l2' = [l2 EXCEPT ![Key(o)] = v] /\ l1' = l1
      PROVE  NoPhantom'
  <2>1. \A k \in Keys :
          /\ l2'[k] = l2[k] \/ (k = Key(o) /\ l2'[k] = v)
          /\ \A p \in Pods : l1'[p][k] = l1[p][k] \/ (k = Key(o) /\ l1'[p][k] = v)
    BY <1>0, <1>4 DEF TypeCaches
  <2> HIDE DEF D
  <2> QED
    BY <1>1, <1>2, <1>4, <2>1
<1>5. ASSUME NEW k \in Keys, NEW C, NEW v \in {Miss, <<>>} PROVE Backed(v, k, C)
  BY DEF Backed
<1>6. ASSUME NEW o \in Ops, Continue(o) PROVE NoPhantom'
  <2>0. OpOK(op[o]) /\ DOMAIN op = Ops
    BY <1>0 DEF TypeOps
  <2> USE DEF At
  <2>1. CASE Warm(o) \/ Fill(o)
    <3>1. op[o].pc \in {"warm", "fill"} /\ l2' = l2
          /\ l1' = [l1 EXCEPT ![op[o].pod][Key(o)] = op[o].snap]
      BY <2>1 DEF Warm, Fill
    <3>2. Backed(op[o].snap, Key(o), D)
      BY <1>1, <3>1 DEF OpBacked, Key
    <3> QED
      BY <1>4, <3>1, <3>2
  <2>2. CASE SetL2(o)
    <3>1. op[o].pc = "setl2" /\ l1' = l1
          /\ (l2' = [l2 EXCEPT ![Key(o)] = op[o].snap] \/ l2' = l2)
      BY <2>2 DEF SetL2
    <3>2. Backed(op[o].snap, Key(o), D)
      BY <1>1, <3>1 DEF OpBacked, Key
    <3> QED
      BY <1>3, <1>4, <3>1, <3>2
  <2>3. CASE Merge(o)
    <3> DEFINE cached == l1[op[o].pod][Key(o)]
               w == Append(cached, op[o].turn)
    <3>1. /\ op[o].pod \in Pods /\ Key(o) \in Keys /\ op[o].turn \in Turns
          /\ op[o].pc = "merge"
      BY <2>0, <2>3 DEF Merge, OpOK, ChatPcs, QueryPcs, Key, Keys
    <3>2. IsCached(cached) /\ Backed(cached, Key(o), D) /\ <<Key(o), op[o].turn>> \in D
      BY <1>0, <1>1, <3>1 DEF TypeCaches, OpBacked, Key
    <3>3. CASE cached = Miss
      BY <1>3, <2>3, <3>3 DEF Merge
    <3>4. CASE cached # Miss
      <4>1. l1' = [l1 EXCEPT ![op[o].pod][Key(o)] = w] /\ l2' = l2
        BY <2>3, <3>4 DEF Merge
      <4>2. cached \in Seq(Turns)
        BY <3>2, <3>4 DEF IsCached
      <4>3. Backed(w, Key(o), D)
        <5> HIDE DEF cached, D
        <5> QED
          BY <3>1, <3>2, <3>4, <4>2, BackedAppend
      <4> HIDE DEF w, D
      <4> QED
        BY <1>4, <4>1, <4>3
    <3> QED
      BY <3>3, <3>4
  <2>4. CASE Seed(o) \/ Invalidate(o) \/ DropL2(o)
    <3>1. PICK v \in {Miss, <<>>} :
             \/ l1' = [l1 EXCEPT ![op[o].pod][Key(o)] = v] /\ l2' = l2
             \/ l2' = [l2 EXCEPT ![Key(o)] = v] /\ l1' = l1
             \/ UNCHANGED <<l1, l2>>
      BY <2>4 DEF Seed, Invalidate, DropL2
    <3>2. Backed(v, Key(o), D)
      BY DEF Backed
    <3> HIDE DEF D
    <3> QED
      BY <1>3, <1>4, <3>1, <3>2
  <2>5. CASE \/ GetL2(o) \/ Select(o) \/ DropList(o) \/ Exists(o) \/ OtherOwner(o)
             \/ InsertConversation(o) \/ CheckOwner(o) \/ MaxPosition(o) \/ CommitTurn(o)
             \/ GetList(o) \/ SelectList(o) \/ FillList(o) \/ SetList(o)
    <3>1. UNCHANGED <<l1, l2>>
      BY <2>5 DEF GetL2, Select, DropList, Exists, OtherOwner, InsertConversation,
                  CheckOwner, MaxPosition, CommitTurn, GetList, SelectList, FillList,
                  SetList, caches
    <3> QED
      BY <1>3, <3>1
  <2> QED
    BY <1>6, <2>1, <2>2, <2>3, <2>4, <2>5 DEF Continue
<1>7. ASSUME NEW o \in Ops, Request(o) \/ SqlError(o) PROVE NoPhantom'
  <2>1. UNCHANGED <<l1, l2>>
    BY <1>7 DEF Request, SqlError, ListChats, ReadHistory, Query, Create, Delete, caches
  <2> QED
    BY <1>3, <2>1
<1>8. ASSUME NEW p \in Pods, Restart(p) PROVE NoPhantom'
  <2>1. /\ l2' = l2
        /\ \A q \in Pods, k \in Keys : l1'[q][k] = Miss \/ l1'[q][k] = l1[q][k]
    BY <1>0, <1>8 DEF Restart, TypeCaches
  <2>2. \A k \in Keys : Backed(Miss, k, D)
    BY DEF Backed
  <2> HIDE DEF D
  <2> QED
    BY <1>1, <1>2, <2>1, <2>2
<1>9. CASE Expires
  <2>1. \A k \in Keys : /\ l2'[k] = Miss \/ l2'[k] = l2[k]
                        /\ \A q \in Pods : l1'[q][k] = Miss \/ l1'[q][k] = l1[q][k]
    BY <1>0, <1>9 DEF Expires, ExpireL1, ExpireL2, ExpireList1, ExpireList2, TypeCaches
  <2>2. \A k \in Keys : Backed(Miss, k, D)
    BY DEF Backed
  <2> HIDE DEF D
  <2> QED
    BY <1>1, <1>2, <2>1, <2>2
<1>10. CASE UNCHANGED vars
  BY <1>3, <1>10 DEF vars
<1> QED
  BY <1>6, <1>7, <1>8, <1>9, <1>10 DEF Next, Environment, Expires

-------------------------------------------------------------------------------
\* The invariant, and the theorems.

LEMMA InitInv == Init => IInv
<1> SUFFICES ASSUME Init PROVE IInv
  OBVIOUS
<1>1. TypeDb
  BY DEF Init, TypeDb
<1>2. TypeCaches
  BY DEF Init, TypeCaches, IsCached
<1>3. TypeLists
  BY DEF Init, TypeLists, IsList
<1>4. TypeOps
  BY IdleOK DEF Init, TypeOps
<1>5. writes \in 0 .. MaxWrites /\ faults \in 0 .. MaxFaults
  BY DEF Init
<1>6. Tables
  BY FS_EmptySet DEF Init, Tables
<1>7. ChatsKnown
  BY DEF Init, ChatsKnown, Idle, QueryPcs
<1>8. RowsCommitted
  BY DEF Init, RowsCommitted
<1>9. SnapsCommitted
  BY NothingBacked DEF Init, SnapsCommitted, Idle
<1>10. NoPhantom
  BY DEF Init, NoPhantom, Shows
<1> QED
  BY <1>1, <1>2, <1>3, <1>4, <1>5, <1>6, <1>7, <1>8, <1>9, <1>10
     DEF IInv, TypeOK, TableInv, CacheInv

\* Writes are counted.
LEMMA WritesGrow == [Next]_vars => writes' = writes \/ Count
<1> SUFFICES ASSUME [Next]_vars PROVE writes' = writes \/ Count
  OBVIOUS
<1>1. ASSUME NEW o \in Ops, Request(o) PROVE writes' = writes \/ Count
  BY <1>1 DEF Request, ListChats, ReadHistory, Query, Create, Delete
<1>2. ASSUME NEW o \in Ops, Continue(o) PROVE writes' = writes
  BY <1>2 DEF Continue, GetL2, Warm, Select, Fill, SetL2, DropList, Exists, OtherOwner,
       InsertConversation, CheckOwner, MaxPosition, CommitTurn, Merge, Seed, Invalidate,
       DropL2, GetList, SelectList, FillList, SetList
<1>3. CASE Environment \/ UNCHANGED vars
  BY <1>3 DEF Environment, ExpireL1, ExpireL2, ExpireList1, ExpireList2, SqlError,
              Restart, vars
<1> QED
  BY <1>1, <1>2, <1>3 DEF Next

\* The bounds are kept.
LEMMA BoundsStep ==
    TypeOK /\ [Next]_vars => (writes \in 0 .. MaxWrites /\ faults \in 0 .. MaxFaults)'
<1> SUFFICES ASSUME TypeOK, [Next]_vars
             PROVE  writes' \in 0 .. MaxWrites /\ faults' \in 0 .. MaxFaults
  OBVIOUS
<1>0. writes \in 0 .. MaxWrites /\ faults \in 0 .. MaxFaults
  BY DEF TypeOK
<1>1. writes' = writes \/ Count
  BY WritesGrow
<1>2. faults' = faults \/ \E f \in Faults : Fault(f)
  <2>1. ASSUME NEW o \in Ops, Request(o) PROVE faults' = faults
    BY <2>1 DEF Request, ListChats, ReadHistory, Query, Create, Delete
  <2>2. ASSUME NEW o \in Ops, Continue(o)
        PROVE  faults' = faults \/ \E f \in Faults : Fault(f)
    BY <2>2 DEF Continue, GetL2, Warm, Select, Fill, SetL2, DropList, Exists, OtherOwner,
         InsertConversation, CheckOwner, MaxPosition, CommitTurn, Merge, Seed, Invalidate,
         DropL2, GetList, SelectList, FillList, SetList, NoFault, Fault
  <2>3. CASE Environment \/ UNCHANGED vars
    BY <2>3 DEF Environment, ExpireL1, ExpireL2, ExpireList1, ExpireList2, SqlError,
                Restart, vars, Fault
  <2> QED
    BY <2>1, <2>2, <2>3 DEF Next
<1> QED
  BY <1>0, <1>1, <1>2 DEF Count, Fault

LEMMA StepInv == IInv /\ [Next]_vars => IInv'
<1> SUFFICES ASSUME IInv, [Next]_vars PROVE IInv'
  OBVIOUS
<1>1. TypeOK'
  BY TypeDbStep, TypeCachesStep, TypeOpsStep, BoundsStep DEF IInv, TableInv, TypeOK
<1>2. TableInv'
  BY TablesStep, ChatsKnownStep DEF IInv, TableInv
<1>3. CacheInv'
  BY RowsCommittedStep, SnapsStep, PhantomStep DEF IInv, TableInv, CacheInv
<1> QED
  BY <1>1, <1>2, <1>3 DEF IInv

LEMMA Inductive == Spec => []IInv
BY InitInv, StepInv, PTL DEF Spec

\* Every variable keeps its type: in particular an operation of postgres_storage.py
\* always holds the values that the statement it is about to send uses.
THEOREM TypeCorrect == Spec => []TypeOK
BY Inductive, PTL DEF IInv

\* message_count is the number of rows and a chat without a row has no messages, for any
\* number of pods and operations and whatever fails (postgres_storage.py:592-667).
THEOREM CountsRows == Spec => []CountMatchesRows
<1>1. IInv => CountMatchesRows
  BY DEF IInv, TableInv, Tables, CountMatchesRows
<1> QED
  BY <1>1, Inductive, PTL

\* No cache entry, of a pod or in Redis, ever shows a user a turn that is not a committed
\* turn of that user in that chat (postgres_storage.py:436-500, 669-684).
THEOREM NoPhantoms == Spec => []NoPhantom
<1>1. IInv => NoPhantom
  BY DEF IInv, CacheInv
<1> QED
  BY <1>1, Inductive, PTL

-------------------------------------------------------------------------------
\* The tables implement ChatTable.  What makes a turn be stored once is that its number is
\* of one operation only, and of none any more once it was committed.

Unsaved == QueryPcs \ {"merge"}
TurnsFresh ==
    /\ \A x \in committed : x[2] \in Nat /\ x[2] =< writes
    /\ \A o \in Ops : op[o].pc \in Unsaved =>
          /\ op[o].turn =< writes
          /\ \A x \in committed : x[2] # op[o].turn
          /\ \A p \in Ops \ {o} : op[p].pc \in Unsaved => op[p].turn # op[o].turn

\* An operation that goes on keeps its turn; requests but a query have none.
LEMMA UnsavedStays ==
    ASSUME TypeOK, [Next]_vars
    PROVE  \/ \E o \in Ops, p \in Pods, u \in Users, c \in Chats : Query(o, p, u, c)
           \/ \A o \in Ops : op'[o].pc \in Unsaved =>
                                op[o].pc \in Unsaved /\ op'[o].turn = op[o].turn
<1> USE DEF Unsaved, QueryPcs, Idle
<1>0. TypeOps
  BY DEF TypeOK
<1>1. ASSUME NEW o \in Ops, Continue(o) \/ SqlError(o)
      PROVE  \A x \in Ops : op'[x].pc \in Unsaved =>
                               op[x].pc \in Unsaved /\ op'[x].turn = op[x].turn
  <2> USE DEF At, Go, Take, Done, TypeOps, OpOK
  <2>1. \A x \in Ops \ {o} : op'[x] = op[x]
    BY <1>0, <1>1 DEF Continue, SqlError, GetL2, Warm, Select, Fill, SetL2, DropList,
         Exists, OtherOwner, InsertConversation, CheckOwner, MaxPosition, CommitTurn,
         Merge, Seed, Invalidate, DropL2, GetList, SelectList, FillList, SetList
  <2>2. op'[o].pc \in Unsaved => op[o].pc \in Unsaved /\ op'[o].turn = op[o].turn
    <3>1. CASE GetL2(o) \/ Warm(o) \/ Select(o) \/ Fill(o) \/ SetL2(o) \/ DropList(o)
      BY <1>0, <3>1 DEF GetL2, Warm, Select, Fill, SetL2, DropList
    <3>2. CASE Exists(o) \/ OtherOwner(o) \/ InsertConversation(o) \/ CheckOwner(o)
      BY <1>0, <3>2 DEF Exists, OtherOwner, InsertConversation, CheckOwner
    <3>3. CASE MaxPosition(o) \/ CommitTurn(o) \/ Merge(o) \/ SqlError(o)
      BY <1>0, <3>3 DEF MaxPosition, CommitTurn, Merge, SqlError
    <3>4. CASE Seed(o) \/ Invalidate(o) \/ DropL2(o) \/ GetList(o) \/ SelectList(o)
               \/ FillList(o) \/ SetList(o)
      BY <1>0, <3>4 DEF Seed, Invalidate, DropL2, GetList, SelectList, FillList, SetList
    <3> QED
      BY <1>1, <3>1, <3>2, <3>3, <3>4 DEF Continue
  <2> QED
    BY <2>1, <2>2
<1>2. ASSUME NEW o \in Ops, NEW p \in Pods, NEW u \in Users, NEW c,
             NEW l \in {"getl2", "seed", "invalidate", "getlist"}, NEW kind,
             Start(o, kind, p, u, c, l, 0)
      PROVE  \A x \in Ops : op'[x].pc \in Unsaved =>
                               op[x].pc \in Unsaved /\ op'[x].turn = op[x].turn
  BY <1>0, <1>2 DEF Start, TypeOps
<1>3. ASSUME NEW o \in Ops, Request(o),
             ~\E p \in Pods, u \in Users, c \in Chats : Query(o, p, u, c)
      PROVE  \A x \in Ops : op'[x].pc \in Unsaved =>
                               op[x].pc \in Unsaved /\ op'[x].turn = op[x].turn
  BY <1>2, <1>3 DEF Request, ListChats, ReadHistory, Create, Delete
<1>4. ASSUME NEW p \in Pods, Restart(p)
      PROVE  \A x \in Ops : op'[x].pc \in Unsaved =>
                               op[x].pc \in Unsaved /\ op'[x].turn = op[x].turn
  BY <1>0, <1>4 DEF Restart, TypeOps
<1>5. CASE Expires \/ UNCHANGED vars
  BY <1>5 DEF Expires, ExpireL1, ExpireL2, ExpireList1, ExpireList2, vars
<1> QED
  BY <1>1, <1>3, <1>4, <1>5 DEF Next, Environment, Expires

\* Only a commit adds to what is committed, and it is the turn of the operation.
LEMMA CommitAdds ==
    ASSUME [Next]_vars
    PROVE  \/ committed' = committed
           \/ \E o \in Ops : /\ At(o, "commit") /\ Go(o, "merge")
                             /\ committed' = committed \union {<<Key(o), op[o].turn>>}
                             /\ writes' = writes
<1>1. ASSUME NEW o \in Ops, Request(o) PROVE committed' = committed
  BY <1>1 DEF Request, ListChats, ReadHistory, Query, Create, Delete, ghosts
<1>2. ASSUME NEW o \in Ops, Reads(o) \/ Expires PROVE committed' = committed
  BY <1>2, TablesFrame
<1>3. ASSUME NEW o \in Ops, InsertConversation(o) \/ SqlError(o) PROVE committed' = committed
  BY <1>3 DEF InsertConversation, SqlError, ghosts
<1>4. ASSUME NEW p \in Pods, Restart(p) PROVE committed' = committed
  BY <1>4 DEF Restart, ghosts
<1>5. ASSUME NEW o \in Ops, CommitTurn(o)
      PROVE  \/ committed' = committed
             \/ /\ At(o, "commit") /\ Go(o, "merge")
                /\ committed' = committed \union {<<Key(o), op[o].turn>>}
                /\ writes' = writes
  BY <1>5 DEF CommitTurn, Key, Me
<1>6. CASE Expires \/ UNCHANGED vars
  BY <1>6 DEF Expires, ExpireL1, ExpireL2, ExpireList1, ExpireList2, ghosts, vars
<1> QED
  BY <1>1, <1>2, <1>3, <1>4, <1>5, <1>6 DEF Next, Environment, Continue, Reads, Expires

\* The turn of an operation that is to save it is a number.
LEMMA UnsavedTurn ==
    ASSUME TypeOps PROVE \A o \in Ops : op[o].pc \in Unsaved => op[o].turn \in Nat
BY DEF TypeOps, OpOK, Unsaved, QueryPcs, Turns

LEMMA FreshStep == TypeOK /\ TurnsFresh /\ [Next]_vars => TurnsFresh'
<1> SUFFICES ASSUME TypeOK, TurnsFresh, [Next]_vars PROVE TurnsFresh'
  OBVIOUS
<1>0. TypeOps /\ writes \in Nat
  BY DEF TypeOK
<1>1. writes' \in Nat /\ writes =< writes'
  <2>1. writes' = writes \/ Count
    BY WritesGrow
  <2> QED
    BY <1>0, <2>1 DEF Count
<1>2. ASSUME NEW o \in Ops, NEW p \in Pods, NEW u \in Users, NEW c \in Chats,
             Query(o, p, u, c)
      PROVE  TurnsFresh'
  <2>1. writes' = writes + 1 /\ committed' = committed
    BY <1>2 DEF Query, Count
  <2>2. /\ op'[o].turn = writes + 1 /\ op[o].pc = "idle"
        /\ \A x \in Ops \ {o} : op'[x] = op[x]
    BY <1>0, <1>2 DEF Query, Start, TypeOps, Idle
  <2>3. \A x \in committed : x[2] \in Nat /\ x[2] =< writes
    BY DEF TurnsFresh
  <2>4. \A x \in Ops : op[x].pc \in Unsaved => op[x].turn \in Nat /\ op[x].turn =< writes
    BY <1>0, UnsavedTurn DEF TurnsFresh
  <2>5. \A x \in committed' : x[2] \in Nat /\ x[2] =< writes'
    BY <1>0, <2>1, <2>3
  <2>6. ASSUME NEW x \in Ops, op'[x].pc \in Unsaved
        PROVE  /\ op'[x].turn =< writes'
               /\ \A y \in committed' : y[2] # op'[x].turn
               /\ \A y \in Ops \ {x} : op'[y].pc \in Unsaved => op'[y].turn # op'[x].turn
    <3>1. CASE x = o
      BY <1>0, <2>1, <2>2, <2>3, <2>4, <3>1
    <3>2. CASE x # o
      <4>1. op'[x] = op[x] /\ op[x].turn \in Nat /\ op[x].turn =< writes
        BY <2>2, <2>4, <2>6, <3>2
      <4>2. /\ \A y \in committed : y[2] # op[x].turn
            /\ \A y \in Ops \ {x} : op[y].pc \in Unsaved => op[y].turn # op[x].turn
        BY <2>6, <4>1 DEF TurnsFresh
      <4> QED
        BY <1>0, <2>1, <2>2, <4>1, <4>2
    <3> QED
      BY <3>1, <3>2
  <2> QED
    BY <2>5, <2>6 DEF TurnsFresh
<1>3. ASSUME \A o \in Ops : op'[o].pc \in Unsaved =>
                               op[o].pc \in Unsaved /\ op'[o].turn = op[o].turn
      PROVE  TurnsFresh'
  <2>1. \A x \in Ops : op[x].pc \in Unsaved => op[x].turn \in Nat /\ op[x].turn =< writes
    BY <1>0, UnsavedTurn DEF TurnsFresh
  <2>2. ASSUME NEW x \in Ops, op'[x].pc \in Unsaved
        PROVE  /\ op'[x].turn =< writes'
               /\ \A y \in committed : y[2] # op'[x].turn
               /\ \A y \in Ops \ {x} : op'[y].pc \in Unsaved => op'[y].turn # op'[x].turn
    <3>1. op[x].pc \in Unsaved /\ op'[x].turn = op[x].turn
      BY <1>3, <2>2
    <3>2. /\ \A y \in committed : y[2] # op[x].turn
          /\ \A y \in Ops \ {x} : op[y].pc \in Unsaved => op[y].turn # op[x].turn
      BY <3>1 DEF TurnsFresh
    <3> QED
      BY <1>0, <1>1, <1>3, <2>1, <3>1, <3>2
  <2>3. CASE committed' = committed
    <3>1. \A x \in committed' : x[2] \in Nat /\ x[2] =< writes'
      BY <1>0, <1>1, <2>3 DEF TurnsFresh
    <3> QED
      BY <2>2, <2>3, <3>1 DEF TurnsFresh
  <2>4. ASSUME NEW o \in Ops, At(o, "commit"), Go(o, "merge"),
               committed' = committed \union {<<Key(o), op[o].turn>>}, writes' = writes
        PROVE  TurnsFresh'
    <3>1. op[o].pc \in Unsaved /\ op'[o].pc \notin Unsaved
      BY <1>0, <2>4 DEF At, Go, Unsaved, QueryPcs, TypeOps
    <3>2. op[o].turn \in Nat /\ op[o].turn =< writes
      BY <2>1, <3>1
    <3>3. \A x \in committed' : x[2] \in Nat /\ x[2] =< writes'
      BY <2>4, <3>2 DEF TurnsFresh
    <3>4. ASSUME NEW x \in Ops, op'[x].pc \in Unsaved
          PROVE  \A y \in committed' : y[2] # op'[x].turn
      <4>1. x # o /\ op[x].pc \in Unsaved /\ op'[x].turn = op[x].turn
        BY <1>3, <3>1, <3>4
      <4>2. op[o].turn # op'[x].turn
        BY <3>1, <4>1 DEF TurnsFresh
      <4> QED
        BY <2>2, <2>4, <3>4, <4>2
    <3> QED
      BY <2>2, <3>3, <3>4 DEF TurnsFresh
  <2> QED
    BY <2>3, <2>4, CommitAdds
<1> QED
  BY <1>2, <1>3, UnsavedStays

\* Every step is a step of ChatTable or leaves the tables alone.
LEMMA TableSimulation == IInv /\ TurnsFresh /\ [Next]_vars => [Table!Next]_Table!vars
<1> SUFFICES ASSUME IInv, TurnsFresh, [Next]_vars PROVE [Table!Next]_Table!vars
  OBVIOUS
<1>0. TypeDb /\ TypeOps /\ Tables
  BY DEF IInv, TypeOK, TableInv
<1>1. ASSUME UNCHANGED <<owner, rows, committed>> PROVE [Table!Next]_Table!vars
  BY <1>1 DEF Table!vars, Logged
<1>2. ASSUME NEW o \in Ops, NEW p \in Pods, NEW u \in Users, NEW c \in Chats,
             Create(o, p, u, c)
      PROVE  Table!Next
  <2>1. owner[c] = None /\ rows[c] = {}
    BY <1>0, <1>2 DEF Create, Tables
  <2>2. owner' = [owner EXCEPT ![c] = u] /\ rows' = rows /\ committed' = committed
    BY <1>2 DEF Create
  <2>3. Table!Open(u, c)
    BY <2>1, <2>2 DEF Table!Open, Table!Free, Logged
  <2> QED
    BY <2>3 DEF Table!Next
<1>3. ASSUME NEW o \in Ops, NEW p \in Pods, NEW u \in Users, NEW c \in Chats,
             Delete(o, p, u, c)
      PROVE  [Table!Next]_Table!vars
  <2>1. committed' = committed
    BY <1>3 DEF Delete, ghosts
  <2>2. CASE owner[c] = u
    <3>1. /\ owner' = [owner EXCEPT ![c] = None] /\ rows' = [rows EXCEPT ![c] = {}]
          /\ owner[c] # None
      BY <1>3, <2>2 DEF Delete
    <3>2. [d \in Chats |-> Logged(d)]' = [[d \in Chats |-> Logged(d)] EXCEPT ![c] = {}]
      BY <1>0, <3>1 DEF Logged, TypeDb
    <3>3. Table!Remove(c)
      BY <2>1, <3>1, <3>2 DEF Table!Remove
    <3> QED
      BY <3>3 DEF Table!Next
  <2>3. CASE owner[c] # u
    BY <1>1, <1>3, <2>1, <2>3 DEF Delete
  <2> QED
    BY <2>2, <2>3
<1>4. ASSUME NEW o \in Ops, CommitTurn(o) PROVE [Table!Next]_Table!vars
  <2>1. PICK c \in Chats, u \in Users, t \in Turns, n \in Nat :
                 /\ c = op[o].chat /\ u = Me(o) /\ t = op[o].turn /\ n = op[o].pos
                 /\ op[o].pc \in Unsaved
    BY <1>0, <1>4 DEF CommitTurn, At, TypeOps, OpOK, ChatPcs, QueryPcs, Me, Unsaved
  <2> DEFINE row == [pos |-> n, user |-> u, turn |-> t]
  <2>2. CASE UNCHANGED <<owner, rows, committed>>
    BY <1>1, <2>2
  <2>3. CASE /\ pend[c] = o \/ owner[c] # None
             /\ owner' = IF pend[c] = o THEN [owner EXCEPT ![c] = u] ELSE owner
             /\ rows' = [rows EXCEPT ![c] = @ \union {row}]
             /\ committed' = committed \union {<<<<u, c>>, t>>}
    <3>1. t \notin {x[2] : x \in committed}
      BY <2>1 DEF TurnsFresh
    <3>2. {x[2] : x \in committed'} = {x[2] : x \in committed} \union {t}
      <4> DEFINE new == <<<<u, c>>, t>>
      <4>1. new[2] = t
        OBVIOUS
      <4>2. committed' = committed \union {new}
        BY <2>3
      <4> HIDE DEF new
      <4> QED
        BY <4>1, <4>2
    <3>3. [d \in Chats |-> Logged(d)]'
            = [[d \in Chats |-> Logged(d)] EXCEPT ![c] = @ \union {<<u, t>>}]
      <4>1. rows'[c] = rows[c] \union {row} /\ \A d \in Chats \ {c} : rows'[d] = rows[d]
        BY <1>0, <2>1, <2>3 DEF TypeDb
      <4>2. Logged(c)' = Logged(c) \union {<<u, t>>}
        <5>1. row.user = u /\ row.turn = t
          OBVIOUS
        <5> HIDE DEF row
        <5> QED
          BY <4>1, <5>1 DEF Logged
      <4>3. \A d \in Chats \ {c} : Logged(d)' = Logged(d)
        BY <4>1 DEF Logged
      <4> QED
        BY <2>1, <4>2, <4>3
    <3>4. \/ Table!Free(c) /\ owner' = [owner EXCEPT ![c] = u]
          \/ owner[c] # None /\ UNCHANGED owner
      <4>1. CASE pend[c] = o
        <5>1. owner[c] = None /\ rows[c] = {}
          BY <1>0, <2>1, <4>1 DEF Tables
        <5> QED
          BY <2>1, <2>3, <4>1, <5>1 DEF Table!Free, Logged
      <4>2. CASE pend[c] # o
        BY <2>3, <4>2
      <4> QED
        BY <4>1, <4>2
    <3>5. Table!Save(u, c, t)
      BY <3>1, <3>2, <3>3, <3>4 DEF Table!Save
    <3> QED
      BY <2>1, <3>5 DEF Table!Next
  <2> QED
    BY <1>4, <2>1, <2>2, <2>3 DEF CommitTurn
<1>5. ASSUME NEW o \in Ops, NEW p \in Pods, NEW u \in Users, NEW c \in Chats,
             Query(o, p, u, c)
      PROVE  [Table!Next]_Table!vars
  BY <1>1, <1>5 DEF Query, db
<1>6. ASSUME NEW o \in Ops, InsertConversation(o) \/ SqlError(o)
      PROVE  [Table!Next]_Table!vars
  BY <1>1, <1>6 DEF InsertConversation, SqlError, ghosts
<1>7. ASSUME NEW p \in Pods, Restart(p) PROVE [Table!Next]_Table!vars
  BY <1>1, <1>7 DEF Restart, ghosts
<1>8. ASSUME UNCHANGED <<db, known, committed>> PROVE [Table!Next]_Table!vars
  BY <1>1, <1>8 DEF db
<1>9. CASE Expires
  <2>1. UNCHANGED <<db, known, committed>>
    BY <1>9 DEF Expires, ExpireL1, ExpireL2, ExpireList1, ExpireList2, ghosts
  <2> QED
    BY <1>8, <2>1
<1>10. CASE UNCHANGED vars
  BY <1>1, <1>10 DEF vars
<1> QED
  BY <1>2, <1>3, <1>4, <1>5, <1>6, <1>7, <1>8, <1>9, <1>10, TablesFrame
     DEF Next, Environment, Request, Continue, Reads, Expires

\* The tables of postgres_storage.py:592-711 implement ChatTable for any number of pods,
\* users and operations: a turn is stored at most once and whole, under its sender, and
\* goes only with its chat, whatever transactions race, fail or are cut off.
THEOREM Refinement == Spec => ImplementsTable
<1>1. Init => Table!Init
  BY DEF Init, Table!Init, Logged
<1>2. Init => TurnsFresh
  BY DEF Init, TurnsFresh, Unsaved, QueryPcs, Idle
<1>3. Spec => []TurnsFresh
  <2>1. IInv /\ TurnsFresh /\ [Next]_vars => TurnsFresh'
    BY FreshStep DEF IInv
  <2> QED
    BY <1>2, <2>1, Inductive, PTL DEF Spec
<1> QED
  BY <1>1, <1>3, Inductive, TableSimulation, PTL DEF Spec, ImplementsTable, Table!Spec

-------------------------------------------------------------------------------
\* The caches agree with the tables between operations, with one pod, one operation at a time
\* and no faults.  What they hold is in the order of the positions, and a turn is inserted
\* behind all others, so that the list that was cached before, with the turn appended, is what
\* the table says.

InOrder(R) ==
    {[i \in DOMAIN q |-> q[i].turn] :
        q \in {f \in [1 .. Cardinality(R) -> R] : \A i, j \in DOMAIN f : i < j => f[i].pos < f[j].pos}}
OwnRows(u, c) == {r \in rows[c] : r.user = u}

LEMMA SelectedInOrder == \A u \in Users, c \in Chats : Selected(u, c) = InOrder(OwnRows(u, c))
BY DEF Selected, InOrder, OwnRows

\* No rows, no turns.
LEMMA NoneInOrder == <<>> \in InOrder({})
<1>1. Cardinality({}) = 0
  BY FS_EmptySet
<1>2. <<>> \in [1 .. 0 -> {}] /\ DOMAIN <<>> = {}
  OBVIOUS
<1>3. [i \in DOMAIN <<>> |-> <<>>[i].turn] = <<>>
  OBVIOUS
<1> QED
  BY <1>1, <1>2, <1>3 DEF InOrder

\* A row behind all others comes last.
LEMMA LastInOrder ==
    ASSUME NEW R, IsFiniteSet(R), NEW r, \A x \in R : x.pos < r.pos, r.pos \in Nat, \A x \in R : x.pos \in Nat,
           NEW s \in InOrder(R), s \in Seq(Turns), r.turn \in Turns
    PROVE  Append(s, r.turn) \in InOrder(R \union {r})
<1>0. PICK n \in Nat : n = Cardinality(R)
  BY FS_CardinalityType
<1> DEFINE Orders(Q, m) == {f \in [1 .. m -> Q] : \A i, j \in DOMAIN f : i < j => f[i].pos < f[j].pos}
<1>1. r \notin R /\ Cardinality(R \union {r}) = n + 1
  <2>1. r \notin R
    OBVIOUS
  <2> QED
    BY <1>0, <2>1, FS_AddElement
<1>2. PICK q \in Orders(R, n) : s = [i \in DOMAIN q |-> q[i].turn]
  BY <1>0 DEF InOrder
<1>3. q \in [1 .. n -> R] /\ \A i, j \in 1 .. n : i < j => q[i].pos < q[j].pos
  BY <1>2
<1> DEFINE g == [i \in 1 .. n + 1 |-> IF i = n + 1 THEN r ELSE q[i]]
<1>4. g \in [1 .. n + 1 -> R \union {r}]
  BY <1>1, <1>3
<1>5. \A i, j \in 1 .. n + 1 : i < j => g[i].pos < g[j].pos
  <2> SUFFICES ASSUME NEW i \in 1 .. n + 1, NEW j \in 1 .. n + 1, i < j PROVE g[i].pos < g[j].pos
    OBVIOUS
  <2>1. i \in 1 .. n /\ g[i] = q[i] /\ q[i] \in R
    BY <1>1, <1>3
  <2>2. CASE j = n + 1
    BY <1>1, <2>1, <2>2
  <2>3. CASE j # n + 1
    <3>1. j \in 1 .. n /\ g[j] = q[j]
      BY <1>1, <2>3
    <3> HIDE DEF g
    <3> QED
      BY <1>3, <2>1, <3>1
  <2> QED
    BY <2>2, <2>3
<1>6. g \in Orders(R \union {r}, n + 1)
  BY <1>4, <1>5
<1>7. [i \in DOMAIN g |-> g[i].turn] = Append(s, r.turn)
  <2>1. DOMAIN s = 1 .. n /\ Len(s) = n
    BY <1>1, <1>2, <1>3
  <2>2. DOMAIN Append(s, r.turn) = 1 .. n + 1
    BY <1>1, <2>1
  <2>3. \A i \in 1 .. n + 1 : Append(s, r.turn)[i] = g[i].turn
    BY <1>1, <1>2, <1>3, <2>1
  <2>4. \A t \in Seq(Turns) : t = [i \in DOMAIN t |-> t[i]]
    OBVIOUS
  <2>5. DOMAIN g = 1 .. n + 1 /\ Append(s, r.turn) \in Seq(Turns)
    OBVIOUS
  <2> HIDE DEF g
  <2> DEFINE t == Append(s, r.turn)
  <2> HIDE DEF t
  <2>6. t = [i \in 1 .. n + 1 |-> t[i]]
    BY <2>2, <2>4, <2>5 DEF t
  <2> QED
    BY <2>3, <2>5, <2>6 DEF t
<1> QED
  BY <1>1, <1>6, <1>7 DEF InOrder

\* The operation is between its commit, or its delete, and the cache it has still to update.
Fresh(v) == v.pc \in {"seed", "invalidate", "merge"} \/ (v.pc \in {"select", "fill"} /\ v.kind # "history")
Late(v) == Fresh(v) \/ v.pc = "dropl2" \/ (v.pc = "setl2" /\ v.kind # "history")

\* What the operation carries, and what is cached, of one chat of one user.
ChatExact(o, p, u, c) ==
    LET v == op[o]
        mine == v.user = u /\ v.chat = c
        first == l1[p][<<u, c>>]
        second == l2[<<u, c>>]
    IN  /\ mine /\ v.pc \in {"position", "commit"} => pend[c] = o \/ owner[c] = u
        /\ mine /\ v.pc = "commit" => \A r \in rows[c] : r.pos < v.pos
        /\ mine /\ v.pc = "seed" => rows[c] = {}
        /\ mine /\ v.pc \in {"warm", "fill", "setl2"} => v.snap \in Selected(u, c)
        /\ mine /\ v.pc = "merge" => first = Miss \/ Append(first, v.turn) \in Selected(u, c)
        /\ first = Miss \/ first \in Selected(u, c) \/ (mine /\ v.pc \in {"merge", "invalidate"})
        /\ second = Miss \/ second \in Selected(u, c) \/ (mine /\ Late(v))

ListExact(o, p, u) ==
    LET v == op[o]
        mine == v.user = u
    IN  /\ mine /\ v.pc \in {"warmlist", "filllist", "setlist"} => v.snap = Owned(u)
        /\ list1[p][u] = Miss \/ list1[p][u] = Owned(u) \/ (mine /\ Fresh(v))
        /\ list2[u] = Miss \/ list2[u] = Owned(u) \/ (mine /\ (Late(v) \/ v.pc = "droplist"))

RowsOfOwner == \A c \in Chats : \A r \in rows[c] : r.user = owner[c]

Exact(o, p) ==
    /\ RowsOfOwner
    /\ \A u \in Users : ListExact(o, p, u) /\ \A c \in Chats : ChatExact(o, p, u, c)

\* What one step makes of the operation it is about.
LEMMA Moves ==
    ASSUME TypeOps, NEW o \in Ops
    PROVE  /\ \A l : Go(o, l) => /\ op'[o].pc = l /\ op'[o].kind = op[o].kind /\ op'[o].user = op[o].user
                                 /\ op'[o].chat = op[o].chat /\ op'[o].turn = op[o].turn
                                 /\ op'[o].pos = op[o].pos /\ op'[o].snap = op[o].snap
           /\ \A l, x : Take(o, l, x) =>
                                 /\ op'[o].pc = l /\ op'[o].kind = op[o].kind /\ op'[o].user = op[o].user
                                 /\ op'[o].chat = op[o].chat /\ op'[o].turn = op[o].turn /\ op'[o].snap = x
           /\ Done(o) => op'[o].pc = "idle"
           /\ \A kind, p, u, c, l, turn : Start(o, kind, p, u, c, l, turn) =>
                                 /\ op'[o].pc = l /\ op'[o].kind = kind /\ op'[o].user = u
                                 /\ op'[o].chat = c /\ op'[o].turn = turn
<1>1. DOMAIN op = Ops /\ DOMAIN op[o] = DOMAIN Idle
  BY DEF TypeOps, OpOK
<1> USE DEF Idle
<1>2. ASSUME NEW l, Go(o, l)
      PROVE  /\ op'[o].pc = l /\ op'[o].kind = op[o].kind /\ op'[o].user = op[o].user
             /\ op'[o].chat = op[o].chat /\ op'[o].turn = op[o].turn
             /\ op'[o].pos = op[o].pos /\ op'[o].snap = op[o].snap
  BY <1>1, <1>2 DEF Go
<1>3. ASSUME NEW l, NEW x, Take(o, l, x)
      PROVE  /\ op'[o].pc = l /\ op'[o].kind = op[o].kind /\ op'[o].user = op[o].user
             /\ op'[o].chat = op[o].chat /\ op'[o].turn = op[o].turn /\ op'[o].snap = x
  BY <1>1, <1>3 DEF Take
<1>4. Done(o) => op'[o].pc = "idle"
  BY <1>1 DEF Done
<1>5. ASSUME NEW kind, NEW p, NEW u, NEW c, NEW l, NEW turn, Start(o, kind, p, u, c, l, turn)
      PROVE  /\ op'[o].pc = l /\ op'[o].kind = kind /\ op'[o].user = u
             /\ op'[o].chat = c /\ op'[o].turn = turn
  BY <1>1, <1>5 DEF Start
<1> QED
  BY <1>2, <1>3, <1>4, <1>5

\* Where the tables are left alone they select what they did.
LEMMA SameTables ==
    /\ rows' = rows => \A u \in Users, c \in Chats : Selected(u, c)' = Selected(u, c)
    /\ owner' = owner => \A u \in Users : Owned(u)' = Owned(u)
BY DEF Selected, Owned

\* A write to a cache of the only pod, at the key or for the user of the operation.
Put1(o, p, x) ==
    \A k \in Keys : l1'[p][k] = IF k = Key(o) THEN x ELSE l1[p][k]
Put2(o, x) == \A k \in Keys : l2'[k] = IF k = Key(o) THEN x ELSE l2[k]
PutList1(o, p, x) == \A u \in Users : list1'[p][u] = IF op[o].user = u THEN x ELSE list1[p][u]
PutList2(o, x) == \A u \in Users : list2'[u] = IF op[o].user = u THEN x ELSE list2[u]

LEMMA CacheWrites ==
    ASSUME TypeOK, NEW o \in Ops, NEW p \in Pods, Pods = {p}, op[o].pc # "idle"
    PROVE  /\ \A x : l1' = [l1 EXCEPT ![op[o].pod][Key(o)] = x] => Put1(o, p, x)
           /\ \A x : l2' = [l2 EXCEPT ![Key(o)] = x] => Put2(o, x)
           /\ \A x : list1' = [list1 EXCEPT ![op[o].pod][Me(o)] = x] => PutList1(o, p, x)
           /\ \A x : list2' = [list2 EXCEPT ![Me(o)] = x] => PutList2(o, x)
           /\ \A u \in Users, c \in Chats :
                 <<u, c>> \in Keys /\ (<<u, c>> = Key(o) <=> op[o].user = u /\ op[o].chat = c)
<1>1. op[o].pod = p
  BY DEF TypeOK, TypeOps, OpOK
<1>2. /\ DOMAIN l1 = Pods /\ DOMAIN l1[p] = Keys /\ DOMAIN l2 = Keys
      /\ \A u \in Users, c \in Chats : <<u, c>> \in Keys
      /\ DOMAIN list1 = Pods /\ DOMAIN list1[p] = Users /\ DOMAIN list2 = Users
  BY DEF TypeOK, TypeCaches, TypeLists, Keys
<1>3. ASSUME NEW x, l1' = [l1 EXCEPT ![op[o].pod][Key(o)] = x] PROVE Put1(o, p, x)
  <2>1. l1'[p] = [l1[p] EXCEPT ![Key(o)] = x]
    BY <1>1, <1>2, <1>3
  <2> QED
    BY <1>2, <2>1 DEF Put1
<1>4. ASSUME NEW x, l2' = [l2 EXCEPT ![Key(o)] = x] PROVE Put2(o, x)
  BY <1>2, <1>4 DEF Put2
<1>5. ASSUME NEW x, list1' = [list1 EXCEPT ![op[o].pod][Me(o)] = x] PROVE PutList1(o, p, x)
  BY <1>1, <1>2, <1>5 DEF Me, PutList1
<1>6. ASSUME NEW x, list2' = [list2 EXCEPT ![Me(o)] = x] PROVE PutList2(o, x)
  BY <1>1, <1>2, <1>6 DEF Me, PutList2
<1> QED
  BY <1>2, <1>3, <1>4, <1>5, <1>6 DEF Key

\* An operation that writes is no read.
WritesKind(o) == op[o].pc \in QueryPcs \union {"seed"} => op[o].kind # "history"

OneByOne(o, p) == Ops = {o} /\ Pods = {p} /\ Faults = {}

\* Steps that read: tables, caches and what was carried stay, or what is carried is read.
LEMMA ExactReads ==
    ASSUME NEW o, NEW p, OneByOne(o, p), IInv, Exact(o, p),
           \/ GetL2(o) \/ Select(o) \/ Exists(o) \/ OtherOwner(o) \/ CheckOwner(o) \/ MaxPosition(o)
           \/ GetList(o) \/ SelectList(o) \/ InsertConversation(o)
    PROVE  Exact(o, p)'
<1> USE DEF OneByOne, At
<1>0. TypeOK /\ TypeOps /\ TypeDb /\ OpOK(op[o]) /\ o \in Ops /\ p \in Pods
  BY DEF IInv, TypeOK, TypeOps
<1>1. UNCHANGED <<owner, rows, l1, l2, list1, list2>>
  BY DEF GetL2, Select, Exists, OtherOwner, CheckOwner, MaxPosition, GetList, SelectList, InsertConversation, db,
     caches
<1>2. RowsOfOwner'
  BY <1>1 DEF Exact, RowsOfOwner
<1>3. /\ \A u \in Users, c \in Chats : Selected(u, c)' = Selected(u, c)
      /\ \A u \in Users : Owned(u)' = Owned(u)
  BY <1>1, SameTables
<1> SUFFICES ASSUME NEW u \in Users PROVE ListExact(o, p, u)' /\ \A c \in Chats : ChatExact(o, p, u, c)'
  BY <1>2 DEF Exact
<1>4. ListExact(o, p, u)
  BY DEF Exact
<1>5. CASE GetL2(o)
  <2>1. /\ op[o].pc = "getl2" /\ op'[o].user = op[o].user /\ op'[o].chat = op[o].chat /\ op'[o].kind = op[o].kind
        /\ \/ op'[o].pc = "warm" /\ op'[o].snap = l2[<<op[o].user, op[o].chat>>] /\ op'[o].snap # Miss
           \/ op'[o].pc = "select"
    BY <1>0, <1>5, Moves DEF GetL2, Key, Fault
  <2> QED
    BY <1>1, <1>3, <1>4, <2>1 DEF Exact, ListExact, ChatExact, Fresh, Late
<1>6. CASE Select(o)
  <2>1. /\ op[o].pc = "select" /\ op'[o].user = op[o].user /\ op'[o].chat = op[o].chat /\ op'[o].kind = op[o].kind
        /\ op'[o].pc = "fill" /\ op'[o].snap \in Selected(op[o].user, op[o].chat)
    BY <1>0, <1>6, Moves DEF Select, Me
  <2> QED
    BY <1>1, <1>3, <1>4, <2>1 DEF Exact, ListExact, ChatExact, Fresh, Late
<1>7. CASE Exists(o) \/ OtherOwner(o) \/ InsertConversation(o)
  <2>1. /\ op[o].pc \in {"exists", "other", "insert"}
        /\ op'[o].pc \in {"idle", "insert", "other", "owner"}
    BY <1>0, <1>7, Moves DEF Exists, OtherOwner, InsertConversation
  <2> QED
    BY <1>1, <1>3, <1>4, <2>1 DEF Exact, ListExact, ChatExact, Fresh, Late
<1>8. CASE CheckOwner(o)
  <2>1. /\ op[o].pc = "owner" /\ pend' = pend
        /\ \/ op'[o].pc \in {"idle", "getl2"}
           \/ /\ op'[o].pc = "position" /\ op'[o].user = op[o].user /\ op'[o].chat = op[o].chat
              /\ pend[op[o].chat] = o \/ owner[op[o].chat] = op[o].user
    <3>1. DOMAIN op = Ops /\ DOMAIN op[o] = DOMAIN Idle
      BY <1>0 DEF TypeOps, OpOK
    <3>2. ASSUME op' = [op EXCEPT ![o].pc = "getl2", ![o].kind = "history"] PROVE op'[o].pc = "getl2"
      BY <1>0, <3>1, <3>2 DEF Idle
    <3> QED
      BY <1>0, <1>8, <3>2, Moves DEF CheckOwner, Me, db
  <2> QED
    BY <1>1, <1>3, <1>4, <2>1 DEF Exact, ListExact, ChatExact, Fresh, Late
<1>9. CASE MaxPosition(o)
  <2>1. PICK n \in NextPositions(rows[op[o].chat]) : op' = [op EXCEPT ![o].pc = "commit", ![o].pos = n]
    BY <1>9 DEF MaxPosition
  <2>2. /\ op[o].pc = "position" /\ pend' = pend
        /\ op'[o].pc = "commit" /\ op'[o].user = op[o].user /\ op'[o].chat = op[o].chat /\ op'[o].pos = n
    <3> DEFINE w == [op[o] EXCEPT !.pc = "commit", !.pos = n]
    <3>1. DOMAIN op = Ops /\ DOMAIN op[o] = DOMAIN Idle
      BY <1>0 DEF TypeOps, OpOK
    <3>2. op'[o] = w
      BY <1>0, <2>1, <3>1
    <3>3. w.pc = "commit" /\ w.pos = n /\ w.user = op[o].user /\ w.chat = op[o].chat
      BY <3>1 DEF Idle
    <3> QED
      BY <1>9, <3>2, <3>3 DEF MaxPosition, db
  <2>3. op[o].chat \in Chats
    BY <1>0, <2>2 DEF OpOK, ChatPcs, QueryPcs
  <2>4. \A r \in rows[op[o].chat] : r.pos < n
    <3>1. \A r \in rows[op[o].chat] : r.pos \in Nat
      BY <1>0, <2>3 DEF TypeDb, Row
    <3> QED
      BY <2>1, <3>1 DEF NextPositions
  <2> QED
    BY <1>1, <1>3, <1>4, <2>2, <2>4 DEF Exact, ListExact, ChatExact, Fresh, Late
<1>10. CASE GetList(o)
  <2>1. /\ op[o].pc = "getlist" /\ op'[o].user = op[o].user
        /\ \/ op'[o].pc = "warmlist" /\ op'[o].snap = list2[op[o].user] /\ op'[o].snap # Miss
           \/ op'[o].pc = "selectlist"
    BY <1>0, <1>10, Moves DEF GetList, Me, Fault
  <2> QED
    BY <1>1, <1>3, <1>4, <2>1 DEF Exact, ListExact, ChatExact, Fresh, Late
<1>11. CASE SelectList(o)
  <2>1. /\ op[o].pc = "selectlist" /\ op'[o].user = op[o].user
        /\ op'[o].pc = "filllist" /\ op'[o].snap = Owned(op[o].user)
    BY <1>0, <1>11, Moves DEF SelectList, Me
  <2> QED
    BY <1>1, <1>3, <1>4, <2>1 DEF Exact, ListExact, ChatExact, Fresh, Late
<1> QED
  BY <1>5, <1>6, <1>7, <1>8, <1>9, <1>10, <1>11

\* Steps that write to a cache.
LEMMA ExactCaches ==
    ASSUME NEW o, NEW p, OneByOne(o, p), IInv, WritesKind(o), Exact(o, p),
           \/ Warm(o) \/ Fill(o) \/ SetL2(o) \/ DropList(o) \/ Merge(o) \/ Seed(o) \/ Invalidate(o) \/ DropL2(o)
           \/ FillList(o) \/ SetList(o)
    PROVE  Exact(o, p)'
<1> USE DEF OneByOne, At
<1>0. TypeOK /\ TypeOps /\ TypeDb /\ OpOK(op[o]) /\ o \in Ops /\ p \in Pods /\ op[o].pc # "idle"
  BY DEF IInv, TypeOK, TypeOps, Warm, Fill, SetL2, DropList, Merge, Seed, Invalidate, DropL2, FillList, SetList
<1>1. UNCHANGED <<owner, rows, pend>>
  BY DEF Warm, Fill, SetL2, DropList, Merge, Seed, Invalidate, DropL2, FillList, SetList, db
<1>2. RowsOfOwner'
  BY <1>1 DEF Exact, RowsOfOwner
<1>3. /\ \A u \in Users, c \in Chats : Selected(u, c)' = Selected(u, c)
      /\ \A u \in Users : Owned(u)' = Owned(u)
  BY <1>1, SameTables
<1> SUFFICES ASSUME NEW u \in Users PROVE ListExact(o, p, u)' /\ \A c \in Chats : ChatExact(o, p, u, c)'
  BY <1>2 DEF Exact
<1>15. \A c \in Chats : <<u, c>> \in Keys /\ (<<u, c>> = Key(o) <=> op[o].user = u /\ op[o].chat = c)
  BY <1>0, CacheWrites
<1>4. ListExact(o, p, u) /\ \A c \in Chats : ChatExact(o, p, u, c)
  BY DEF Exact
<1>5. CASE Warm(o)
  <2>1. op[o].pc = "warm" /\ op'[o].pc = "idle" /\ Put1(o, p, op[o].snap) /\ UNCHANGED <<l2, list1, list2>>
    BY <1>0, <1>5, Moves, CacheWrites DEF Warm
  <2> QED
    BY <1>1, <1>3, <1>4, <1>15, <2>1 DEF ListExact, ChatExact, Fresh, Late, Put1, Put2, PutList1, PutList2
<1>6. CASE Fill(o)
  <2>1. /\ op[o].pc = "fill" /\ op'[o].pc = "setl2" /\ Put1(o, p, op[o].snap) /\ UNCHANGED <<l2, list2>>
        /\ op'[o].user = op[o].user /\ op'[o].chat = op[o].chat /\ op'[o].kind = op[o].kind
        /\ op'[o].snap = op[o].snap
        /\ \/ op[o].kind = "history" /\ UNCHANGED list1
           \/ op[o].kind # "history" /\ PutList1(o, p, Miss)
    BY <1>0, <1>6, Moves, CacheWrites DEF Fill
  <2> QED
    BY <1>1, <1>3, <1>4, <1>15, <2>1 DEF ListExact, ChatExact, Fresh, Late, Put1, Put2, PutList1, PutList2
<1>7. CASE SetL2(o)
  <2>1. /\ op[o].pc = "setl2" /\ Put2(o, op[o].snap) /\ UNCHANGED <<l1, list1, list2>>
        /\ \/ op[o].kind = "history" /\ op'[o].pc = "idle"
           \/ op'[o].pc = "droplist" /\ op'[o].user = op[o].user
    BY <1>0, <1>7, Moves, CacheWrites DEF SetL2, Fault
  <2> QED
    BY <1>1, <1>3, <1>4, <1>15, <2>1 DEF ListExact, ChatExact, Fresh, Late, Put1, Put2, PutList1, PutList2
<1>8. CASE DropList(o)
  <2>1. op[o].pc = "droplist" /\ op'[o].pc = "idle" /\ PutList2(o, Miss) /\ UNCHANGED <<l1, l2, list1>>
    BY <1>0, <1>8, Moves, CacheWrites DEF DropList, Fault
  <2> QED
    BY <1>1, <1>3, <1>4, <1>15, <2>1 DEF ListExact, ChatExact, Fresh, Late, Put1, Put2, PutList1, PutList2
<1>9. CASE Merge(o)
  <2> DEFINE cached == l1[op[o].pod][Key(o)]
  <2>0. op[o].pc = "merge" /\ op[o].kind # "history" /\ cached = l1[p][<<op[o].user, op[o].chat>>] /\ UNCHANGED <<l2, list2>>
        /\ op[o].user \in Users /\ op[o].chat \in Chats
    BY <1>0, <1>9 DEF Merge, OpOK, Key, ChatPcs, QueryPcs, WritesKind
  <2>1. CASE cached = Miss
    <3>1. /\ op'[o].pc = "select" /\ UNCHANGED <<l1, list1>>
          /\ op'[o].user = op[o].user /\ op'[o].chat = op[o].chat /\ op'[o].kind = op[o].kind
      BY <1>0, <1>9, <2>1, Moves DEF Merge
    <3> QED
      <4>1. ListExact(o, p, u)'
        BY <1>1, <1>3, <1>4, <2>0, <3>1 DEF ListExact, Fresh, Late
      <4>2. ASSUME NEW c \in Chats PROVE ChatExact(o, p, u, c)'
        <5>1. op[o].user = u /\ op[o].chat = c => l1[p][<<u, c>>] = Miss
          BY <2>0, <2>1
        <5> QED
          BY <1>1, <1>3, <1>4, <2>0, <3>1, <5>1 DEF ChatExact, Fresh, Late
      <4> QED
        BY <4>1, <4>2
  <2>2. CASE cached # Miss
    <3>1. /\ op'[o].pc = "setl2" /\ Put1(o, p, Append(cached, op[o].turn)) /\ PutList1(o, p, Miss)
          /\ op'[o].user = op[o].user /\ op'[o].chat = op[o].chat /\ op'[o].kind = op[o].kind
          /\ op'[o].snap = Append(cached, op[o].turn)
      <4>1. /\ Take(o, "setl2", Append(cached, op[o].turn))
            /\ l1' = [l1 EXCEPT ![op[o].pod][Key(o)] = Append(cached, op[o].turn)]
            /\ list1' = [list1 EXCEPT ![op[o].pod][Me(o)] = Miss]
        BY <1>9, <2>2 DEF Merge
      <4> HIDE DEF cached
      <4>2. Put1(o, p, Append(cached, op[o].turn)) /\ PutList1(o, p, Miss)
        BY <1>0, <4>1, CacheWrites
      <4>3. PICK x : x = Append(cached, op[o].turn)
        OBVIOUS
      <4>4. Take(o, "setl2", x)
        BY <4>1, <4>3
      <4>5. /\ op'[o].pc = "setl2" /\ op'[o].user = op[o].user /\ op'[o].chat = op[o].chat
            /\ op'[o].kind = op[o].kind /\ op'[o].snap = x
        BY <1>0, <4>4, Moves
      <4> QED
        BY <4>2, <4>3, <4>5
    <3> QED
      <4>1. ListExact(o, p, u)'
        BY <1>1, <1>3, <1>4, <2>0, <3>1 DEF ListExact, Fresh, Late, PutList1
      <4>2. ASSUME NEW c \in Chats PROVE ChatExact(o, p, u, c)'
        <5> HIDE DEF cached
        <5>1. PICK x : x = Append(cached, op[o].turn)
          OBVIOUS
        <5>2. op[o].user = u /\ op[o].chat = c => x \in Selected(u, c)
          BY <1>4, <2>0, <2>2, <5>1 DEF ChatExact
        <5>3. op'[o].snap = x /\ Put1(o, p, x)
          BY <3>1, <5>1
        <5>4. l1'[p][<<u, c>>] = IF op[o].user = u /\ op[o].chat = c THEN x ELSE l1[p][<<u, c>>]
          BY <1>15, <5>3 DEF Put1
        <5> QED
          BY <1>1, <1>3, <1>4, <2>0, <3>1, <5>2, <5>3, <5>4 DEF ChatExact, Fresh, Late
      <4> QED
        BY <4>1, <4>2
  <2> QED
    BY <2>1, <2>2
<1>10. CASE Seed(o)
  <2>1. /\ op[o].pc = "seed" /\ op'[o].pc = "setl2" /\ op'[o].snap = <<>> /\ op[o].kind # "history"
        /\ op'[o].user = op[o].user /\ op'[o].chat = op[o].chat /\ op'[o].kind = op[o].kind
        /\ Put1(o, p, <<>>) /\ PutList1(o, p, Miss) /\ UNCHANGED <<l2, list2>>
    <3>1. /\ op[o].pc = "seed" /\ op[o].kind # "history" /\ Take(o, "setl2", <<>>) /\ UNCHANGED <<l2, list2>>
          /\ l1' = [l1 EXCEPT ![op[o].pod][Key(o)] = <<>>]
          /\ list1' = [list1 EXCEPT ![op[o].pod][Me(o)] = Miss]
      BY <1>10 DEF Seed, WritesKind
    <3>2. Put1(o, p, <<>>) /\ PutList1(o, p, Miss)
      BY <1>0, <3>1, CacheWrites
    <3> QED
      BY <1>0, <3>1, <3>2, Moves
  <2>2. \A c \in Chats : op[o].user = u /\ op[o].chat = c => <<>> \in Selected(u, c)
    <3> SUFFICES ASSUME NEW c \in Chats, op[o].user = u, op[o].chat = c PROVE <<>> \in Selected(u, c)
      OBVIOUS
    <3>1. rows[c] = {}
      BY <1>4, <2>1 DEF ChatExact
    <3>2. OwnRows(u, c) = {}
      BY <3>1 DEF OwnRows
    <3> QED
      BY <3>2, SelectedInOrder, NoneInOrder
  <2> QED
    BY <1>1, <1>3, <1>4, <1>15, <2>1, <2>2 DEF ListExact, ChatExact, Fresh, Late, Put1, Put2, PutList1, PutList2
<1>11. CASE Invalidate(o)
  <2>1. /\ op[o].pc = "invalidate" /\ op'[o].pc = "dropl2"
        /\ op'[o].user = op[o].user /\ op'[o].chat = op[o].chat
        /\ Put1(o, p, Miss) /\ PutList1(o, p, Miss) /\ UNCHANGED <<l2, list2>>
    BY <1>0, <1>11, Moves, CacheWrites DEF Invalidate
  <2> QED
    BY <1>1, <1>3, <1>4, <1>15, <2>1 DEF ListExact, ChatExact, Fresh, Late, Put1, Put2, PutList1, PutList2
<1>12. CASE DropL2(o)
  <2>1. /\ op[o].pc = "dropl2" /\ op'[o].pc = "droplist" /\ op'[o].user = op[o].user
        /\ Put2(o, Miss) /\ UNCHANGED <<l1, list1, list2>>
    BY <1>0, <1>12, Moves, CacheWrites DEF DropL2, Fault
  <2> QED
    BY <1>1, <1>3, <1>4, <1>15, <2>1 DEF ListExact, ChatExact, Fresh, Late, Put1, Put2, PutList1, PutList2
<1>13. CASE FillList(o)
  <2>1. /\ op[o].pc \in {"warmlist", "filllist"} /\ PutList1(o, p, op[o].snap) /\ UNCHANGED <<l1, l2, list2>>
        /\ \/ op'[o].pc = "idle"
           \/ op'[o].pc = "setlist" /\ op'[o].user = op[o].user /\ op'[o].snap = op[o].snap
    BY <1>0, <1>13, Moves, CacheWrites DEF FillList
  <2> QED
    BY <1>1, <1>3, <1>4, <1>15, <2>1 DEF ListExact, ChatExact, Fresh, Late, Put1, Put2, PutList1, PutList2
<1>14. CASE SetList(o)
  <2>1. op[o].pc = "setlist" /\ op'[o].pc = "idle" /\ PutList2(o, op[o].snap) /\ UNCHANGED <<l1, l2, list1>>
    BY <1>0, <1>14, Moves, CacheWrites DEF SetList, Fault
  <2> QED
    BY <1>1, <1>3, <1>4, <1>15, <2>1 DEF ListExact, ChatExact, Fresh, Late, Put1, Put2, PutList1, PutList2
<1> QED
  BY <1>5, <1>6, <1>7, <1>8, <1>9, <1>10, <1>11, <1>12, <1>13, <1>14

\* The commit adds the last row; a rolled back one leaves the tables alone.
LEMMA ExactCommit ==
    ASSUME NEW o, NEW p, OneByOne(o, p), IInv, Exact(o, p), CommitTurn(o)
    PROVE  Exact(o, p)'
<1> USE DEF OneByOne, At
<1>0. TypeOK /\ TypeOps /\ TypeDb /\ Tables /\ OpOK(op[o]) /\ o \in Ops /\ p \in Pods /\ op[o].pc = "commit"
  BY DEF IInv, TableInv, TypeOK, TypeOps, CommitTurn
<1>1. PICK w \in Users, d \in Chats, t \in Turns, n \in Nat :
         op[o].user = w /\ op[o].chat = d /\ op[o].turn = t /\ op[o].pos = n
  BY <1>0 DEF OpOK, ChatPcs, QueryPcs
<1> DEFINE r == [pos |-> n, user |-> w, turn |-> t]
<1>2. UNCHANGED <<l1, l2, list1, list2>>
  BY DEF CommitTurn, caches
<1>3. \A u \in Users : ListExact(o, p, u) /\ \A c \in Chats : ChatExact(o, p, u, c)
  BY DEF Exact
<1>4. CASE UNCHANGED <<owner, rows>> /\ op'[o].pc = "idle"
  <2>1. /\ \A u \in Users, c \in Chats : Selected(u, c)' = Selected(u, c)
        /\ \A u \in Users : Owned(u)' = Owned(u)
    BY <1>4, SameTables
  <2>2. RowsOfOwner'
    BY <1>4 DEF Exact, RowsOfOwner
  <2>3. ASSUME NEW u \in Users PROVE ListExact(o, p, u)' /\ \A c \in Chats : ChatExact(o, p, u, c)'
    BY <1>0, <1>2, <1>3, <1>4, <2>1 DEF ListExact, ChatExact, Fresh, Late
  <2> QED
    BY <2>2, <2>3 DEF Exact
<1>5. CASE /\ owner' = (IF pend[d] = o THEN [owner EXCEPT ![d] = w] ELSE owner)
           /\ rows' = [rows EXCEPT ![d] = @ \union {r}]
           /\ op'[o].pc = "merge" /\ op'[o].user = w /\ op'[o].chat = d /\ op'[o].turn = t
  <2>1. (pend[d] = o \/ owner[d] = w) /\ (\A x \in rows[d] : x.pos < n) /\ r \in Row
    BY <1>0, <1>1, <1>3 DEF ChatExact, Row
  <2>2. owner'[d] = w /\ \A c \in Chats : c # d => owner'[c] = owner[c] /\ rows'[c] = rows[c]
    BY <1>0, <1>5, <2>1 DEF TypeDb
  <2>3. rows'[d] = rows[d] \union {r}
    BY <1>0, <1>5 DEF TypeDb
  <2>4. \A x \in rows[d] : x.user = w
    <3>1. CASE owner[d] = w
      BY <3>1 DEF Exact, RowsOfOwner
    <3>2. CASE pend[d] = o
      BY <1>0, <3>2 DEF Tables
    <3> QED
      BY <2>1, <3>1, <3>2
  <2>5. RowsOfOwner'
    BY <2>2, <2>3, <2>4 DEF Exact, RowsOfOwner
  <2>6. \A u \in Users : u # w => Owned(u)' = Owned(u)
    <3>1. owner[d] = None \/ owner[d] = w
      BY <1>0, <2>1 DEF Tables
    <3> QED
      BY <2>2, <3>1 DEF Owned
  <2>7. ASSUME NEW u \in Users, NEW c \in Chats, u # w \/ c # d PROVE Selected(u, c)' = Selected(u, c)
    <3>1. {x \in rows'[c] : x.user = u} = {x \in rows[c] : x.user = u}
      BY <2>2, <2>3, <2>7
    <3> QED
      BY <3>1 DEF Selected
  <2>8. ASSUME NEW s \in Selected(w, d) PROVE Append(s, t) \in Selected(w, d)'
    <3> DEFINE R == OwnRows(w, d)
    <3>1. s \in InOrder(R) /\ s \in Seq(Turns)
      BY <1>0, <2>8, SelectedInOrder, SelectedTurns
    <3>2. IsFiniteSet(R) /\ \A x \in R : x.pos < n /\ x.pos \in Nat
      BY <1>0, <2>1, FS_Subset DEF OwnRows, Tables, TypeDb, Row
    <3>3. Append(s, r.turn) \in InOrder(R \union {r})
      <4> HIDE DEF R
      <4>1. r.pos = n /\ r.turn = t /\ t \in Turns
        OBVIOUS
      <4> HIDE DEF r
      <4> QED
        BY <3>1, <3>2, <4>1, LastInOrder
    <3>4. {x \in rows'[d] : x.user = w} = R \union {r}
      BY <2>3 DEF OwnRows
    <3>5. Selected(w, d)' = InOrder(R \union {r})
      BY <3>4 DEF Selected, InOrder
    <3> QED
      BY <3>3, <3>5
  <2>9. ASSUME NEW u \in Users PROVE ListExact(o, p, u)'
    BY <1>0, <1>1, <1>2, <1>3, <1>5, <2>6 DEF ListExact, Fresh, Late
  <2>10. ASSUME NEW u \in Users, NEW c \in Chats PROVE ChatExact(o, p, u, c)'
    <3>1. CASE u # w \/ c # d
      BY <1>0, <1>1, <1>2, <1>3, <1>5, <2>7, <3>1 DEF ChatExact, Fresh, Late
    <3>2. CASE u = w /\ c = d
      <4>1. l1[p][<<w, d>>] = Miss \/ l1[p][<<w, d>>] \in Selected(w, d)
        BY <1>0, <1>3 DEF ChatExact
      <4>2. l1[p][<<w, d>>] = Miss \/ Append(l1[p][<<w, d>>], t) \in Selected(w, d)'
        BY <2>8, <4>1
      <4> QED
        BY <1>2, <1>5, <3>2, <4>2 DEF ChatExact, Fresh, Late
    <3> QED
      BY <3>1, <3>2
  <2> QED
    BY <2>5, <2>9, <2>10 DEF Exact
<1>6. CASE /\ UNCHANGED <<owner, rows>>
           /\ Done(o)
  BY <1>0, <1>4, <1>6, Moves
<1> QED
  <2>1. ASSUME Go(o, "merge")
        PROVE  op'[o].pc = "merge" /\ op'[o].user = w /\ op'[o].chat = d /\ op'[o].turn = t
    BY <1>0, <1>1, <2>1, Moves
  <2> QED
    BY <1>1, <1>5, <1>6, <2>1 DEF CommitTurn, Me

\* A request starts from exact caches.  A new chat has no rows, and a deleted one only had
\* rows of its owner.
LEMMA ExactRequest ==
    ASSUME NEW o, NEW p, OneByOne(o, p), IInv, Exact(o, p), Request(o)
    PROVE  Exact(o, p)'
<1> USE DEF OneByOne
<1>0. TypeOK /\ TypeOps /\ TypeDb /\ Tables /\ o \in Ops /\ p \in Pods
  BY DEF IInv, TableInv, TypeOK, TypeOps
<1>1. op[o] = Idle /\ op[o].user = None /\ op[o].pc = "idle" /\ UNCHANGED <<l1, l2, list1, list2>>
  <2>1. Idle.user = None /\ Idle.pc = "idle"
    BY DEF Idle
  <2>2. PICK q \in Pods, w \in Users :
           \/ ListChats(o, q, w)
           \/ \E d \in Chats : ReadHistory(o, q, w, d) \/ Query(o, q, w, d) \/ Create(o, q, w, d) \/ Delete(o, q, w, d)
    BY DEF Request
  <2>3. op[o] = Idle
    <3>1. \A kind, q1, u, c, l, turn : Start(o, kind, q1, u, c, l, turn) => op[o] = Idle
      BY DEF Start
    <3> QED
      BY <2>2, <3>1 DEF ListChats, ReadHistory, Query, Create, Delete
  <2>4. UNCHANGED caches
    BY <2>2 DEF ListChats, ReadHistory, Query, Create, Delete
  <2> QED
    BY <2>1, <2>3, <2>4 DEF caches
<1>2. /\ \A u \in Users : /\ list1[p][u] = Miss \/ list1[p][u] = Owned(u)
                          /\ list2[u] = Miss \/ list2[u] = Owned(u)
      /\ \A u \in Users : \A c \in Chats : /\ l1[p][<<u, c>>] = Miss \/ l1[p][<<u, c>>] \in Selected(u, c)
                                           /\ l2[<<u, c>>] = Miss \/ l2[<<u, c>>] \in Selected(u, c)
  BY <1>1 DEF Exact, ListExact, ChatExact, Fresh, Late
<1>3. PICK q \in Pods, w \in Users :
           \/ ListChats(o, q, w)
           \/ \E d \in Chats : ReadHistory(o, q, w, d) \/ Query(o, q, w, d) \/ Create(o, q, w, d) \/ Delete(o, q, w, d)
  BY DEF Request
<1>4. ASSUME UNCHANGED <<owner, rows>>, op'[o].pc \in {"getlist", "getl2", "exists", "insert", "invalidate"}
      PROVE  Exact(o, p)'
  <2>1. /\ \A u \in Users, c \in Chats : Selected(u, c)' = Selected(u, c)
        /\ \A u \in Users : Owned(u)' = Owned(u)
    BY <1>4, SameTables
  <2>2. RowsOfOwner'
    BY <1>4 DEF Exact, RowsOfOwner
  <2>3. ASSUME NEW u \in Users PROVE ListExact(o, p, u)' /\ \A c \in Chats : ChatExact(o, p, u, c)'
    BY <1>1, <1>2, <1>4, <2>1 DEF ListExact, ChatExact, Fresh, Late
  <2> QED
    BY <2>2, <2>3 DEF Exact
<1>5. CASE ListChats(o, q, w)
  BY <1>0, <1>4, <1>5, Moves DEF ListChats, db
<1>6. ASSUME NEW d \in Chats, ReadHistory(o, q, w, d) \/ Query(o, q, w, d) PROVE Exact(o, p)'
  BY <1>0, <1>4, <1>6, Moves DEF ReadHistory, Query, db
<1>7. ASSUME NEW d \in Chats, Create(o, q, w, d) PROVE Exact(o, p)'
  <2>1. /\ op'[o].pc = "seed" /\ op'[o].user = w /\ op'[o].chat = d /\ rows' = rows
        /\ owner' = [owner EXCEPT ![d] = w] /\ d \notin known
    BY <1>0, <1>7, Moves DEF Create
  <2>2. owner[d] = None /\ rows[d] = {}
    BY <1>0, <2>1 DEF Tables
  <2>3. \A u \in Users, c \in Chats : Selected(u, c)' = Selected(u, c)
    BY <2>1, SameTables
  <2>4. \A u \in Users : u # w => Owned(u)' = Owned(u)
    BY <1>0, <2>1, <2>2 DEF TypeDb, Owned
  <2>5. RowsOfOwner'
    BY <1>0, <2>1, <2>2 DEF Exact, RowsOfOwner, TypeDb
  <2>6. ASSUME NEW u \in Users PROVE ListExact(o, p, u)' /\ \A c \in Chats : ChatExact(o, p, u, c)'
    BY <1>1, <1>2, <2>1, <2>2, <2>3, <2>4 DEF ListExact, ChatExact, Fresh, Late
  <2> QED
    BY <2>5, <2>6 DEF Exact
<1>8. ASSUME NEW d \in Chats, Delete(o, q, w, d) PROVE Exact(o, p)'
  <2>1. op'[o].pc = "invalidate" /\ op'[o].user = w /\ op'[o].chat = d
    BY <1>0, <1>8, Moves DEF Delete
  <2>2. CASE owner[d] # w
    BY <1>4, <1>8, <2>1, <2>2 DEF Delete
  <2>3. CASE owner[d] = w
    <3>1. owner' = [owner EXCEPT ![d] = None] /\ rows' = [rows EXCEPT ![d] = {}]
      BY <1>8, <2>3 DEF Delete
    <3>2. ASSUME NEW u \in Users, NEW c \in Chats, u # w \/ c # d PROVE Selected(u, c)' = Selected(u, c)
      <4>1. \A x \in rows[d] : x.user = w
        BY <2>3 DEF Exact, RowsOfOwner
      <4>2. {x \in rows'[c] : x.user = u} = {x \in rows[c] : x.user = u}
        BY <1>0, <3>1, <3>2, <4>1 DEF TypeDb
      <4> QED
        BY <4>2 DEF Selected
    <3>3. \A u \in Users : u # w => Owned(u)' = Owned(u)
      BY <1>0, <2>3, <3>1 DEF TypeDb, Owned
    <3>4. RowsOfOwner'
      BY <1>0, <3>1 DEF Exact, RowsOfOwner, TypeDb
    <3>5. ASSUME NEW u \in Users PROVE ListExact(o, p, u)'
      BY <1>1, <1>2, <2>1, <3>3 DEF ListExact, Fresh, Late
    <3>6. ASSUME NEW u \in Users, NEW c \in Chats PROVE ChatExact(o, p, u, c)'
      BY <1>1, <1>2, <2>1, <3>2 DEF ChatExact, Fresh, Late
    <3> QED
      BY <3>4, <3>5, <3>6 DEF Exact
  <2> QED
    BY <2>2, <2>3
<1> QED
  BY <1>3, <1>5, <1>6, <1>7, <1>8

\* An entry may go at any time; nothing fails.
LEMMA ExactEnvironment ==
    ASSUME NEW o, NEW p, OneByOne(o, p), IInv, Exact(o, p), Environment \/ UNCHANGED vars
    PROVE  Exact(o, p)'
<1> USE DEF OneByOne
<1>0. TypeOK
  BY DEF IInv
<1>1. Expires \/ UNCHANGED vars
  BY DEF Environment, Expires, Restart, SqlError, Fault
<1>2. UNCHANGED <<owner, rows, pend, op>>
  BY <1>1 DEF Expires, ExpireL1, ExpireL2, ExpireList1, ExpireList2, db, vars
<1>3. /\ \A k \in Keys : /\ l1'[p][k] = Miss \/ l1'[p][k] = l1[p][k]
                         /\ l2'[k] = Miss \/ l2'[k] = l2[k]
      /\ \A u \in Users : /\ list1'[p][u] = Miss \/ list1'[p][u] = list1[p][u]
                          /\ list2'[u] = Miss \/ list2'[u] = list2[u]
  BY <1>0, <1>1 DEF Expires, ExpireL1, ExpireL2, ExpireList1, ExpireList2, vars, TypeOK, TypeCaches, TypeLists
<1>4. /\ \A u \in Users, c \in Chats : Selected(u, c)' = Selected(u, c)
      /\ \A u \in Users : Owned(u)' = Owned(u)
  BY <1>2, SameTables
<1>5. RowsOfOwner'
  BY <1>2 DEF Exact, RowsOfOwner
<1>6. ASSUME NEW u \in Users PROVE ListExact(o, p, u)'
  <2>1. ListExact(o, p, u)
    BY DEF Exact
  <2> QED
    BY <1>2, <1>3, <1>4, <2>1 DEF ListExact
<1>7. ASSUME NEW u \in Users, NEW c \in Chats PROVE ChatExact(o, p, u, c)'
  <2>1. ChatExact(o, p, u, c) /\ <<u, c>> \in Keys
    BY DEF Exact, Keys
  <2> QED
    BY <1>2, <1>3, <1>4, <2>1 DEF ChatExact
<1> QED
  BY <1>5, <1>6, <1>7 DEF Exact

LEMMA KindStep ==
    ASSUME NEW o, NEW p, OneByOne(o, p), IInv, WritesKind(o), [Next]_vars
    PROVE  WritesKind(o)'
<1> USE DEF OneByOne, At, QueryPcs, WritesKind
<1>0. TypeOK /\ TypeOps /\ o \in Ops
  BY DEF IInv, TypeOK
<1>1. CASE Request(o)
  <2>1. PICK q \in Pods, w \in Users :
           \/ ListChats(o, q, w)
           \/ \E d \in Chats : ReadHistory(o, q, w, d) \/ Query(o, q, w, d) \/ Create(o, q, w, d) \/ Delete(o, q, w, d)
    BY <1>1 DEF Request
  <2>2. CASE ListChats(o, q, w)
    BY <1>0, <2>2, Moves DEF ListChats
  <2>3. CASE \E d \in Chats : ReadHistory(o, q, w, d)
    BY <1>0, <2>3, Moves DEF ReadHistory
  <2>4. CASE \E d \in Chats : Query(o, q, w, d)
    BY <1>0, <2>4, Moves DEF Query
  <2>5. CASE \E d \in Chats : Create(o, q, w, d)
    BY <1>0, <2>5, Moves DEF Create
  <2>6. CASE \E d \in Chats : Delete(o, q, w, d)
    BY <1>0, <2>6, Moves DEF Delete
  <2> QED
    BY <2>1, <2>2, <2>3, <2>4, <2>5, <2>6
<1>2. CASE \/ GetL2(o) \/ Warm(o) \/ Select(o) \/ Fill(o) \/ SetL2(o) \/ DropList(o) \/ Seed(o) \/ Invalidate(o)
           \/ DropL2(o) \/ GetList(o) \/ SelectList(o) \/ FillList(o) \/ SetList(o)
  BY <1>0, <1>2, Moves DEF GetL2, Warm, Select, Fill, SetL2, DropList, Seed, Invalidate, DropL2, GetList, SelectList,
     FillList, SetList
<1>3. CASE Exists(o) \/ OtherOwner(o) \/ InsertConversation(o) \/ CommitTurn(o) \/ Merge(o)
  BY <1>0, <1>3, Moves DEF Exists, OtherOwner, InsertConversation, CommitTurn, Merge
<1>4. CASE CheckOwner(o) \/ MaxPosition(o)
  <2>1. DOMAIN op = Ops /\ DOMAIN op[o] = DOMAIN Idle
    BY <1>0 DEF TypeOps, OpOK
  <2>2. ASSUME op' = [op EXCEPT ![o].pc = "getl2", ![o].kind = "history"] PROVE op'[o].pc = "getl2"
    BY <1>0, <2>1, <2>2 DEF Idle
  <2>3. ASSUME NEW n, op' = [op EXCEPT ![o].pc = "commit", ![o].pos = n] PROVE op'[o].kind = op[o].kind
    BY <1>0, <2>1, <2>3 DEF Idle
  <2> QED
    BY <1>0, <1>4, <2>2, <2>3, Moves DEF CheckOwner, MaxPosition
<1>5. CASE Environment \/ UNCHANGED vars
  <2>1. op' = op
    BY <1>5 DEF Environment, ExpireL1, ExpireL2, ExpireList1, ExpireList2, Restart, SqlError, Fault, vars
  <2> QED
    BY <2>1
<1> QED
  BY <1>1, <1>2, <1>3, <1>4, <1>5 DEF Next, Continue

\* With one pod, one operation at a time and no faults, the caches of that pod and Redis say
\* between operations what the tables say, for any users, chats and turns.
THEOREM CoherentAlone ==
    (\E o : Ops = {o}) /\ (\E p : Pods = {p}) /\ Faults = {} => (Spec => []CoherentWhenIdle)
<1> SUFFICES ASSUME NEW o, NEW p, Ops = {o}, Pods = {p}, Faults = {} PROVE Spec => []CoherentWhenIdle
  OBVIOUS
<1> DEFINE I == WritesKind(o) /\ Exact(o, p)
<1>0. OneByOne(o, p)
  BY DEF OneByOne
<1>1. Init => I
  <2> SUFFICES ASSUME Init PROVE I
    OBVIOUS
  <2>1. op[o].pc = "idle" /\ o \in Ops /\ p \in Pods
    BY DEF Init, Idle
  <2>2. RowsOfOwner
    BY DEF Init, RowsOfOwner
  <2>3. ASSUME NEW u \in Users PROVE ListExact(o, p, u)
    BY <2>1 DEF Init, ListExact
  <2>4. ASSUME NEW u \in Users, NEW c \in Chats PROVE ChatExact(o, p, u, c)
    <3>1. l1[p][<<u, c>>] = Miss /\ l2[<<u, c>>] = Miss
      BY DEF Init, Keys
    <3> QED
      BY <2>1, <3>1 DEF ChatExact
  <2> QED
    BY <2>1, <2>2, <2>3, <2>4 DEF Exact, WritesKind, QueryPcs
<1>2. IInv /\ I /\ [Next]_vars => I'
  <2> SUFFICES ASSUME IInv, I, [Next]_vars PROVE I'
    OBVIOUS
  <2>1. Exact(o, p)'
    BY <1>0, ExactReads, ExactCaches, ExactCommit, ExactRequest, ExactEnvironment DEF OneByOne, Next, Continue
  <2> QED
    BY <1>0, <2>1, KindStep
<1>3. I => CoherentWhenIdle
  <2> SUFFICES ASSUME Exact(o, p), op[o] = Idle PROVE L1Agrees /\ L2Agrees /\ ListsAgree
    BY DEF CoherentWhenIdle, AllIdle
  <2>1. op[o].pc = "idle"
    BY DEF Idle
  <2>2. L1Agrees /\ L2Agrees
    BY <2>1 DEF Exact, ChatExact, Late, Fresh, L1Agrees, L2Agrees, Agrees, Keys
  <2>3. ListsAgree
    BY <2>1 DEF Exact, ListExact, Late, Fresh, ListsAgree
  <2> QED
    BY <2>2, <2>3
<1> QED
  BY <1>1, <1>2, <1>3, Inductive, PTL DEF Spec
===============================================================================
