------------------------ MODULE VectorMigration_proofs ------------------------
(***************************************************************************)
(* Proofs about VectorMigration, for any number of pods, operations,       *)
(* chunks and faults.                                                      *)
(***************************************************************************)
EXTENDS VectorMigration, TLAPS

\* The collection does not become "legacy" again: whoever has seen that it is not, or has
\* dropped it, is past that.
Past ==
    /\ ReadyNotLegacy
    /\ \A o \in Ops : op[o].pc \in {"create", "insert", "bind"} => coll.schema # "legacy"

\* As long as it is the old collection nothing has been taken out of it.
OldIsWhole ==
    coll.schema = "legacy" =>
      /\ coll.count = OnceEach(legacy)
      /\ \A o \in Ops : op[o].pc = "drop" => op[o].todo = OnceEach(legacy)

\* The one migration under way holds what the collection lacks.
InHandOrThere ==
    /\ \A x, y \in InHand : x = y
    /\ \A o \in Ops : op[o].pc = "create" =>
         /\ op[o].todo = OnceEach(legacy)
         /\ coll.schema \in {"none", "fresh"}
         /\ \A c \in legacy : coll.count[c] = 0
    /\ \A o \in Ops : op[o].pc = "insert" =>
         /\ coll.schema = "migrated"
         /\ \A c \in legacy : coll.count[c] + op[o].todo[c] = 1
         /\ \A c \in Chunks \ legacy : op[o].todo[c] = 0
    /\ InHand = {} => \A c \in legacy : coll.count[c] = 1

\* An upload is there once when it was told of, and not before.
UploadsThere ==
    \A o \in Ops : /\ o \in acked => coll.count[o] = 1 /\ op[o].pc = "ok"
                   /\ o \notin acked => coll.count[o] = 0

Books == OldIsWhole /\ InHandOrThere /\ UploadsThere
IInv == TypeOK /\ Past /\ (mishaps = {} => Books)

-------------------------------------------------------------------------------
\* The types of what the actions compute.
LEMMA Types ==
    /\ None \in [Chunks -> Nat]
    /\ \A S : OnceEach(S) \in [Chunks -> Nat]
    /\ Gone \in [schema : {"none", "legacy", "migrated", "fresh"}, count : [Chunks -> Nat]]
<1>1. None \in [Chunks -> Nat]
  BY DEF None
<1>2. \A S : OnceEach(S) \in [Chunks -> Nat]
  BY DEF OnceEach
<1> QED
  BY <1>1, <1>2 DEF Gone

\* An operation, and the collection.
Request == [pc : Steps, pod : Pods, kind : Kinds, todo : [Chunks -> Nat]]
Collection == [schema : {"none", "legacy", "migrated", "fresh"}, count : [Chunks -> Nat]]
LEMMA TypeNames == TypeOK => op \in [Ops -> Request] /\ coll \in Collection /\ faults \in Nat
BY DEF TypeOK, Request, Collection

\* The places an operation goes to.
LEMMA Places == {"check", "use", "read", "bind", "drop", "create", "insert", "ok", "failed"} \subseteq Steps
BY DEF Steps, Ensuring, Migrating

\* Type correctness, over one step.
LEMMA TypeStep == TypeOK /\ [Next]_vars => TypeOK'
<1> SUFFICES ASSUME TypeOK, [Next]_vars PROVE TypeOK'
  OBVIOUS
<1>0. op \in [Ops -> Request] /\ coll \in Collection /\ faults \in Nat
  BY TypeNames
<1>T. (op' \in [Ops -> Request] /\ coll' \in Collection
         /\ legacy' \subseteq Legacy
         /\ done' \in [Pods -> BOOLEAN] /\ store' \in [Pods -> BOOLEAN]
         /\ acked' \subseteq Ops
         /\ mishaps' \subseteq {"second drop", "overtaken", "interrupted"}
         /\ faults' \in Nat) => TypeOK'
  BY DEF TypeOK, Request, Collection
<1>1. ASSUME NEW o \in Ops, NEW p \in Pods, NEW kind \in Kinds, Begin(o, p, kind) PROVE TypeOK'
  <2>1. op' \in [Ops -> Request]
    BY <1>0, <1>1, Places DEF Begin, Request
  <2> QED
    BY <1>0, <1>1, <1>T, <2>1 DEF Begin, TypeOK
<1>2. ASSUME NEW o \in Ops, CheckSchema(o) PROVE TypeOK'
  <2>1. op' \in [Ops -> Request]
    BY <1>0, <1>2, Places, Types DEF CheckSchema, Goto, Request
  <2> QED
    BY <1>0, <1>2, <1>T, <2>1 DEF CheckSchema, TypeOK
<1>3. ASSUME NEW o \in Ops, ReadChunks(o) PROVE TypeOK'
  <2>1. op' \in [Ops -> Request]
    <3>1. CASE coll.schema = "none"
      BY <1>0, <1>3, <3>1, Places DEF ReadChunks, GiveUp, Goto, Request
    <3>2. CASE coll.schema # "none"
      BY <1>0, <1>3, <3>2, Places DEF ReadChunks, Collection, Request
    <3> QED
      BY <3>1, <3>2
  <2> QED
    BY <1>0, <1>3, <1>T, <2>1 DEF ReadChunks, GiveUp, TypeOK
<1>4. ASSUME NEW o \in Ops, Drop(o) PROVE TypeOK'
  <2>1. op' \in [Ops -> Request]
    BY <1>0, <1>4, Places, Types DEF Drop, Goto, Request
  <2>2. coll' \in Collection
    BY <1>4, Types DEF Drop, Collection
  <2> QED
    BY <1>4, <1>T, <2>1, <2>2 DEF Drop, Mishap, TypeOK
<1>5. ASSUME NEW o \in Ops, Create(o) PROVE TypeOK'
  <2>1. op' \in [Ops -> Request]
    <3>1. PICK pc \in Steps : op' = [op EXCEPT ![o].pc = pc]
      BY <1>5, Places DEF Create, GiveUp, Goto
    <3> QED
      BY <1>0, <3>1 DEF Request
  <2>2. coll' \in Collection
    BY <1>0, <1>5 DEF Create, GiveUp, Collection
  <2> QED
    BY <1>5, <1>T, <2>1, <2>2 DEF Create, GiveUp, Mishap, TypeOK
<1>6. ASSUME NEW o \in Ops, InsertBatch(o) PROVE TypeOK'
  <2>1. CASE coll.schema = "none"
    <3>1. op' \in [Ops -> Request]
      BY <1>0, <1>6, <2>1, Places, Types DEF InsertBatch, GiveUp, Goto, Request
    <3> QED
      BY <1>0, <1>6, <2>1, <1>T, <3>1 DEF InsertBatch, GiveUp, TypeOK
  <2>2. CASE coll.schema # "none"
    <3>1. PICK c \in Chunks :
            /\ coll' = [coll EXCEPT !.count[c] = @ + op[o].todo[c]]
            /\ op' = [op EXCEPT ![o].todo = [op[o].todo EXCEPT ![c] = 0],
                                ![o].pc = IF [op[o].todo EXCEPT ![c] = 0] = None THEN "bind" ELSE @]
      BY <1>6, <2>2 DEF InsertBatch
    <3>2. [op[o].todo EXCEPT ![c] = 0] \in [Chunks -> Nat] /\ op[o].pc \in Steps
      BY <1>0 DEF Request
    <3>3. op' \in [Ops -> Request]
      BY <1>0, <3>1, <3>2, Places DEF Request
    <3>4. coll' \in Collection
      <4>1. coll.count[c] + op[o].todo[c] \in Nat
        BY <1>0 DEF Collection, Request
      <4>2. [coll.count EXCEPT ![c] = coll.count[c] + op[o].todo[c]] \in [Chunks -> Nat]
        BY <1>0, <4>1 DEF Collection
      <4> QED
        BY <1>0, <3>1, <4>2 DEF Collection
    <3> QED
      BY <1>6, <2>2, <1>T, <3>3, <3>4 DEF InsertBatch, TypeOK
  <2> QED
    BY <2>1, <2>2
<1>7. ASSUME NEW o \in Ops, Bind(o) PROVE TypeOK'
  <2>1. op' \in [Ops -> Request]
    BY <1>0, <1>7, Places, Types DEF Bind, Goto, Request
  <2> QED
    BY <1>0, <1>7, <1>T, <2>1 DEF Bind, TypeOK
<1>8. ASSUME NEW o \in Ops, Use(o) PROVE TypeOK'
  <2>1. op' \in [Ops -> Request]
    <3>1. PICK pc \in Steps : op' = [op EXCEPT ![o].pc = pc]
      BY <1>8, Places DEF Use, Goto
    <3> QED
      BY <1>0, <3>1 DEF Request
  <2>2. coll' \in Collection
    BY <1>0, <1>8 DEF Use, Collection, Chunks
  <2> QED
    BY <1>8, <1>T, <2>1, <2>2 DEF Use, TypeOK
<1>9. ASSUME NEW o \in Ops, Fail(o) PROVE TypeOK'
  <2>1. op' \in [Ops -> Request]
    BY <1>0, <1>9, Places, Types DEF Fail, GiveUp, Goto, Request
  <2>2. mishaps' \subseteq {"second drop", "overtaken", "interrupted"}
    BY <1>9 DEF Fail, Mishap, TypeOK
  <2>3. faults' \in Nat
    BY <1>0, <1>9 DEF Fail
  <2> QED
    BY <1>0, <1>9, <1>T, <2>1, <2>2, <2>3 DEF Fail, GiveUp, TypeOK
<1>10. ASSUME NEW p \in Pods, Restart(p) PROVE TypeOK'
  <2>1. op' \in [Ops -> Request]
    BY <1>0, <1>10, Places DEF Restart, Request
  <2>2. mishaps' \subseteq {"second drop", "overtaken", "interrupted"}
    BY <1>10 DEF Restart, Mishap, TypeOK
  <2>3. faults' \in Nat
    BY <1>0, <1>10 DEF Restart
  <2> QED
    BY <1>0, <1>10, <1>T, <2>1, <2>2, <2>3 DEF Restart, TypeOK
<1>11. CASE UNCHANGED vars
  BY <1>11 DEF vars, TypeOK
<1> QED
  BY <1>1, <1>2, <1>3, <1>4, <1>5, <1>6, <1>7, <1>8, <1>9, <1>10, <1>11 DEF Next, Step

\* Nothing brings the old collection back.
LEMMA PastStep == TypeOK /\ Past /\ [Next]_vars => Past'
<1> SUFFICES ASSUME TypeOK, Past, [Next]_vars PROVE Past'
  OBVIOUS
<1>0. /\ op \in [Ops -> Request] /\ coll \in Collection
      /\ done \in [Pods -> BOOLEAN] /\ store \in [Pods -> BOOLEAN]
  BY TypeNames DEF TypeOK
<1>1. ASSUME NEW o \in Ops, NEW p \in Pods, NEW kind \in Kinds, Begin(o, p, kind) PROVE Past'
  BY <1>0, <1>1 DEF Begin, Past, ReadyNotLegacy, Request
<1>2. ASSUME NEW o \in Ops, CheckSchema(o) PROVE Past'
  BY <1>0, <1>2 DEF CheckSchema, Goto, Past, ReadyNotLegacy, Request
<1>3. ASSUME NEW o \in Ops, ReadChunks(o) PROVE Past'
  <2>1. CASE coll.schema = "none"
    BY <1>0, <1>3, <2>1 DEF ReadChunks, GiveUp, Goto, Past, ReadyNotLegacy
  <2>2. CASE coll.schema # "none"
    BY <1>0, <1>3, <2>2 DEF ReadChunks, Past, ReadyNotLegacy, Request
  <2> QED
    BY <2>1, <2>2
<1>4. ASSUME NEW o \in Ops, Drop(o) PROVE Past'
  BY <1>4 DEF Drop, Gone, Past, ReadyNotLegacy
<1>5. ASSUME NEW o \in Ops, Create(o) PROVE Past'
  BY <1>0, <1>5 DEF Create, GiveUp, Goto, Past, ReadyNotLegacy, Request, Collection
<1>6. ASSUME NEW o \in Ops, InsertBatch(o) PROVE Past'
  BY <1>0, <1>6 DEF InsertBatch, GiveUp, Goto, At, Past, ReadyNotLegacy, Request, Collection
<1>7. ASSUME NEW o \in Ops, Bind(o) PROVE Past'
  BY <1>0, <1>7 DEF Bind, Goto, At, Past, ReadyNotLegacy
<1>8. ASSUME NEW o \in Ops, Use(o) PROVE Past'
  <2>1. coll'.schema = "legacy" => coll.schema = "legacy" /\ ~store[op[o].pod]
    BY <1>0, <1>8 DEF Use, Collection, Past, ReadyNotLegacy, Request
  <2>2. PICK pc \in {"ok", "failed"} : op' = [op EXCEPT ![o].pc = pc]
    BY <1>8 DEF Use, Goto
  <2> QED
    BY <1>0, <1>8, <2>1, <2>2 DEF Use, Past, ReadyNotLegacy, Request
<1>9. ASSUME NEW o \in Ops, Fail(o) PROVE Past'
  BY <1>0, <1>9 DEF Fail, GiveUp, Goto, Past, ReadyNotLegacy, Request
<1>10. ASSUME NEW p \in Pods, Restart(p) PROVE Past'
  <2>1. \A o \in Ops : op'[o].pc \in {op[o].pc, "failed"}
    BY <1>0, <1>10 DEF Restart, Request
  <2> QED
    BY <1>0, <1>10, <2>1 DEF Restart, Past, ReadyNotLegacy
<1>11. CASE UNCHANGED vars
  BY <1>11 DEF vars, Past, ReadyNotLegacy
<1> QED
  BY <1>1, <1>2, <1>3, <1>4, <1>5, <1>6, <1>7, <1>8, <1>9, <1>10, <1>11 DEF Next, Step

\* Before anything has happened there are only the old collection and new operations.
LEMMA Begins == Init => TypeOK /\ Past
<1> SUFFICES ASSUME Init PROVE TypeOK /\ Past
  OBVIOUS
<1>1. TypeOK
  BY Types DEF Init, TypeOK, Kinds, Steps
<1>2. Past
  BY DEF Init, Past, ReadyNotLegacy
<1> QED
  BY <1>1, <1>2

-------------------------------------------------------------------------------
\* Every variable keeps its type (vector_store.py:172-324), for any constants.
THEOREM TypeCorrect == Spec => []TypeOK
<1>1. Init => TypeOK
  BY Begins
<1> QED
  BY <1>1, TypeStep, PTL DEF Spec

\* No pod that calls itself migrated, and no wrapper, faces the old collection, whatever
\* other pods and threads do (vector_store.py:179-199).
THEOREM ReadyIsPast == Spec => []ReadyNotLegacy
<1> DEFINE I == TypeOK /\ Past
<1>1. Init => I
  BY Begins
<1>2. I /\ [Next]_vars => I'
  BY TypeStep, PastStep
<1>3. I => ReadyNotLegacy
  BY DEF Past
<1> QED
  BY <1>1, <1>2, <1>3, PTL DEF Spec

-------------------------------------------------------------------------------
\* Steps that leave the collection alone and take nothing out of it.
LEMMA Harmless ==
    ASSUME Books, UNCHANGED <<coll, legacy, acked>>,
           \A o \in Ops : \/ op'[o] = op[o]
                          \/ /\ op[o].pc \notin {"create", "insert", "ok"}
                             /\ op'[o].pc \notin {"create", "insert"}
                             /\ op'[o].pc = "drop" /\ coll.schema = "legacy"
                                  => op'[o].todo = OnceEach(legacy)
    PROVE  Books'
<1>1. InHand' = InHand
  BY DEF InHand
<1>2. OldIsWhole'
  BY DEF Books, OldIsWhole, OnceEach
<1>3. InHandOrThere'
  <2>1. \A o \in Ops : op'[o].pc \in {"create", "insert"} => op'[o] = op[o]
    OBVIOUS
  <2>2. OnceEach(legacy') = OnceEach(legacy)
    OBVIOUS
  <2> QED
    BY <1>1, <2>1, <2>2 DEF Books, InHandOrThere
<1>4. UploadsThere'
  BY DEF Books, UploadsThere
<1> QED
  BY <1>2, <1>3, <1>4 DEF Books

\* A step keeps the books, unless it is one of the mishaps.  The chunks of the old
\* collection are not uploads.
LEMMA BooksStep ==
    ASSUME Legacy \intersect Ops = {}, IInv, [Next]_vars, mishaps' = {}
    PROVE  Books'
<1>0. /\ op \in [Ops -> Request] /\ coll \in Collection /\ legacy \subseteq Legacy
      /\ acked \subseteq Ops /\ Past
  BY TypeNames DEF IInv, TypeOK
<1>1. mishaps = {}
  BY DEF Next, Step, Begin, CheckSchema, ReadChunks, Drop, Create, InsertBatch, Bind, Use,
         Fail, Restart, Mishap, GiveUp, vars
<1>2. Books
  BY <1>1 DEF IInv
<1>3. \A c \in legacy : c \in Chunks /\ c \notin Ops
  BY <1>0 DEF Chunks
<1>4. ASSUME NEW o \in Ops, NEW p \in Pods, NEW kind \in Kinds, Begin(o, p, kind) PROVE Books'
  <2>1. \A x \in Ops : op'[x] = op[x] \/ (op[x].pc = "new" /\ op'[x].pc \in {"use", "check"})
    <3>1. op[o].pc = "new"
      BY <1>4 DEF Begin, At
    <3> QED
      BY <1>0, <1>4, <3>1 DEF Begin, Request
  <2> QED
    BY <1>2, <1>4, <2>1, Harmless DEF Begin
<1>5. ASSUME NEW o \in Ops, CheckSchema(o) PROVE Books'
  <2>1. \A x \in Ops : op'[x] = op[x] \/ (op[x].pc = "check" /\ op'[x].pc \in {"read", "bind"})
    <3>1. op[o].pc = "check"
      BY <1>5 DEF CheckSchema, At
    <3> QED
      BY <1>0, <1>5, <3>1 DEF CheckSchema, Goto, Request
  <2> QED
    BY <1>2, <1>5, <2>1, Harmless DEF CheckSchema
<1>6. ASSUME NEW o \in Ops, ReadChunks(o) PROVE Books'
  <2>1. CASE coll.schema = "none"
    <3>1. \A x \in Ops : op'[x] = op[x] \/ (op[x].pc = "read" /\ op'[x].pc = "failed")
      <4>1. op[o].pc = "read"
        BY <1>6 DEF ReadChunks, At
      <4> QED
        BY <1>0, <1>6, <2>1, <4>1 DEF ReadChunks, GiveUp, Goto, Request
    <3> QED
      BY <1>2, <1>6, <2>1, <3>1, Harmless DEF ReadChunks, GiveUp
  <2>2. CASE coll.schema # "none"
    <3>1. \A x \in Ops : op'[x] = op[x] \/ /\ op[x].pc = "read" /\ op'[x].pc = "drop"
                                           /\ op'[x].todo = coll.count
      BY <1>0, <1>6, <2>2 DEF ReadChunks, At, Request
    <3>2. coll.schema = "legacy" => coll.count = OnceEach(legacy)
      BY <1>2 DEF Books, OldIsWhole
    <3> QED
      BY <1>2, <1>6, <2>2, <3>1, <3>2, Harmless DEF ReadChunks
  <2> QED
    BY <2>1, <2>2
<1>7. ASSUME NEW o \in Ops, Drop(o) PROVE Books'
  <2>1. op[o].pc = "drop" /\ coll' = Gone /\ UNCHANGED <<legacy, acked>>
    BY <1>7 DEF Drop, At
  <2>2. coll.schema = "legacy"
    BY <1>7 DEF Drop, Mishap
  <2>3. coll.count = OnceEach(legacy) /\ op[o].todo = OnceEach(legacy)
    BY <1>2, <2>1, <2>2 DEF Books, OldIsWhole
  <2>4. \A x \in Ops : op[x].pc \notin {"create", "insert", "bind"}
    BY <1>0, <2>2 DEF Past
  <2>5. \A x \in Ops : x # o => op'[x] = op[x]
    BY <1>0, <1>7 DEF Drop, Goto
  <2>6. /\ op'[o].todo = OnceEach(legacy)
        /\ op'[o].pc = IF OnceEach(legacy) = None THEN "bind" ELSE "create"
    BY <1>0, <1>7, <2>3 DEF Drop, Goto, Request
  <2>7. OldIsWhole'
    BY <2>1 DEF OldIsWhole, Gone
  <2>8. InHandOrThere'
    <3>1. \A x \in InHand' : x = o
      BY <2>4, <2>5 DEF InHand
    <3>2. \A x \in Ops : op'[x].pc = "create" => x = o
      BY <2>4, <2>5
    <3>3. \A x \in Ops : op'[x].pc # "insert"
      BY <2>4, <2>5, <2>6
    <3>4. \A c \in legacy : Gone.count[c] = 0
      BY <1>3 DEF Gone, None
    <3>5. CASE OnceEach(legacy) = None
      <4>1. legacy = {}
        BY <1>3, <3>5 DEF OnceEach, None
      <4> QED
        BY <2>1, <2>6, <3>1, <3>2, <3>3, <3>5, <4>1 DEF InHandOrThere
    <3>6. CASE OnceEach(legacy) # None
      <4>1. o \in InHand'
        BY <2>6, <3>6 DEF InHand
      <4> QED
        BY <2>1, <2>6, <3>1, <3>2, <3>3, <3>4, <4>1 DEF InHandOrThere, Gone
    <3> QED
      BY <3>5, <3>6
  <2>9. UploadsThere'
    <3>1. acked = {}
      BY <1>0, <1>2, <1>3, <2>3 DEF Books, UploadsThere, OnceEach, Chunks
    <3>2. \A x \in Ops : Gone.count[x] = 0
      BY DEF Gone, None, Chunks
    <3> QED
      BY <2>1, <3>1, <3>2 DEF UploadsThere
  <2> QED
    BY <2>7, <2>8, <2>9 DEF Books
<1>8. ASSUME NEW o \in Ops, Create(o) PROVE Books'
  <2>1. op[o].pc = "create" /\ o \in InHand
    BY <1>8 DEF Create, At, InHand
  <2>2. /\ coll.schema \in {"none", "fresh"} /\ op[o].todo = OnceEach(legacy)
        /\ \A c \in legacy : coll.count[c] = 0
    BY <1>2, <2>1 DEF Books, InHandOrThere
  <2>3. coll.schema # "fresh"
    BY <1>8 DEF Create, Mishap
  <2>4. coll' = [coll EXCEPT !.schema = "migrated"] /\ Goto(o, "insert") /\ UNCHANGED <<legacy, acked>>
    BY <1>8, <2>3 DEF Create
  <2>5. coll'.schema = "migrated" /\ coll'.count = coll.count
    BY <1>0, <2>4 DEF Collection
  <2>6. /\ \A x \in Ops : x # o => op'[x] = op[x]
        /\ op'[o].pc = "insert" /\ op'[o].todo = op[o].todo
    BY <1>0, <2>4 DEF Goto, Request
  <2>7. \A x \in InHand : x = o
    BY <1>2, <2>1 DEF Books, InHandOrThere
  <2>8. \A x \in Ops : op'[x].pc \in {"create", "insert"} => x = o
    BY <2>6, <2>7 DEF InHand
  <2>9. \A c \in Chunks : op[o].todo[c] = IF c \in legacy THEN 1 ELSE 0
    BY <2>2 DEF OnceEach
  <2>10. OldIsWhole'
    BY <2>5 DEF OldIsWhole
  <2>11. InHandOrThere'
    <3>1. (\A x, y \in InHand : x = y)' /\ o \in InHand'
      BY <2>6, <2>8 DEF InHand
    <3>2. \A x \in Ops : op'[x].pc # "create"
      BY <2>6, <2>8
    <3>3. \A c \in legacy : coll.count[c] + op[o].todo[c] = 1
      BY <1>3, <2>2, <2>9
    <3> QED
      BY <2>4, <2>5, <2>6, <2>8, <2>9, <3>1, <3>2, <3>3 DEF InHandOrThere
  <2>12. UploadsThere'
    BY <1>2, <2>1, <2>4, <2>5, <2>6 DEF Books, UploadsThere
  <2> QED
    BY <2>10, <2>11, <2>12 DEF Books
<1>9. ASSUME NEW o \in Ops, InsertBatch(o) PROVE Books'
  <2>1. op[o].pc = "insert" /\ o \in InHand
    BY <1>9 DEF InsertBatch, At, InHand
  <2>2. /\ coll.schema = "migrated"
        /\ \A c \in legacy : coll.count[c] + op[o].todo[c] = 1
        /\ \A c \in Chunks \ legacy : op[o].todo[c] = 0
        /\ \A x \in InHand : x = o
    BY <1>2, <2>1 DEF Books, InHandOrThere
  <2>3. /\ coll.count \in [Chunks -> Nat] /\ op[o].todo \in [Chunks -> Nat]
    BY <1>0 DEF Collection, Request
  <2> DEFINE rest(c) == [op[o].todo EXCEPT ![c] = 0]
  <2>4. PICK c \in Chunks :
          /\ op[o].todo[c] > 0
          /\ coll' = [coll EXCEPT !.count[c] = @ + op[o].todo[c]]
          /\ op' = [op EXCEPT ![o].todo = rest(c), ![o].pc = IF rest(c) = None THEN "bind" ELSE @]
    BY <1>9, <2>2 DEF InsertBatch
  <2>5. UNCHANGED <<legacy, acked>>
    BY <1>9, <2>2 DEF InsertBatch
  <2>6. c \in legacy /\ op[o].todo[c] = 1 /\ coll.count[c] = 0
    BY <2>2, <2>3, <2>4
  <2>7. coll'.schema = "migrated" /\ coll'.count = [coll.count EXCEPT ![c] = 1]
    BY <1>0, <2>2, <2>3, <2>4, <2>6 DEF Collection
  <2>8. \A x \in Ops : x # o => op'[x] = op[x]
    BY <1>0, <2>4
  <2>9. op'[o].todo = rest(c) /\ op'[o].pc = IF rest(c) = None THEN "bind" ELSE "insert"
    BY <1>0, <2>1, <2>4 DEF Request
  <2>10. \A x \in Ops : op'[x].pc \in {"create", "insert"} => x = o
    BY <2>2, <2>8 DEF InHand
  <2>11. OldIsWhole'
    BY <2>7 DEF OldIsWhole
  <2>12. InHandOrThere'
    <3>1. (\A x, y \in InHand : x = y)'
      BY <2>10 DEF InHand
    <3>2. \A x \in Ops : op'[x].pc # "create"
      BY <2>9, <2>10
    <3>3. \A d \in legacy : coll'.count[d] + rest(c)[d] = 1
      BY <1>3, <2>2, <2>3, <2>6, <2>7
    <3>4. \A d \in Chunks \ legacy : rest(c)[d] = 0
      BY <2>2, <2>3
    <3>5. InHand' = {} => \A d \in legacy : coll'.count[d] = 1
      <4>1. InHand' = {} => rest(c) = None
        BY <2>9 DEF InHand
      <4>2. rest(c) = None => \A d \in legacy : rest(c)[d] = 0
        BY <1>3 DEF None
      <4>3. coll'.count \in [Chunks -> Nat]
        BY <2>3, <2>7
      <4> QED
        BY <1>3, <3>3, <4>1, <4>2, <4>3
    <3> HIDE DEF rest
    <3> QED
      BY <2>5, <2>7, <2>9, <2>10, <3>1, <3>2, <3>3, <3>4, <3>5 DEF InHandOrThere
  <2>13. UploadsThere'
    <3>1. \A x \in Ops : coll'.count[x] = coll.count[x]
      BY <1>3, <2>3, <2>6, <2>7 DEF Chunks
    <3> QED
      BY <1>2, <2>1, <2>5, <2>8, <3>1 DEF Books, UploadsThere
  <2> QED
    BY <2>11, <2>12, <2>13 DEF Books
<1>10. ASSUME NEW o \in Ops, Bind(o) PROVE Books'
  <2>1. \A x \in Ops : op'[x] = op[x] \/ (op[x].pc = "bind" /\ op'[x].pc = "use")
    <3>1. op[o].pc = "bind"
      BY <1>10 DEF Bind, At
    <3> QED
      BY <1>0, <1>10, <3>1 DEF Bind, Goto, Request
  <2> QED
    BY <1>2, <1>10, <2>1, Harmless DEF Bind
<1>11. ASSUME NEW o \in Ops, Use(o) PROVE Books'
  <2>1. op[o].pc = "use" /\ UNCHANGED legacy
    BY <1>11 DEF Use, At
  <2>2. PICK pc \in {"ok", "failed"} : Goto(o, pc)
    BY <1>11 DEF Use
  <2>3. /\ \A x \in Ops : x # o => op'[x] = op[x]
        /\ op'[o].pc = pc
    BY <1>0, <2>2 DEF Goto, Request
  <2>4. CASE UNCHANGED <<coll, acked>>
    BY <1>2, <2>1, <2>3, <2>4, Harmless
  <2>5. CASE ~UNCHANGED <<coll, acked>>
    <3>1. /\ store[op[o].pod] /\ acked' = acked \union {o} /\ Goto(o, "ok")
          /\ coll' = [schema |-> IF coll.schema = "none" THEN "fresh" ELSE coll.schema,
                      count |-> [coll.count EXCEPT ![o] = @ + 1]]
      BY <1>11, <2>5 DEF Use
    <3>2. coll.schema # "legacy"
      BY <1>0, <3>1 DEF Past, ReadyNotLegacy, Request
    <3>3. o \notin acked /\ coll.count[o] = 0
      BY <1>2, <2>1 DEF Books, UploadsThere
    <3>4. coll.count \in [Chunks -> Nat] /\ o \in Chunks
      BY <1>0 DEF Collection, Chunks
    <3>5. /\ coll'.count[o] = 1
          /\ \A c \in Chunks : c # o => coll'.count[c] = coll.count[c]
      BY <3>1, <3>3, <3>4
    <3>6. op'[o].pc = "ok"
      BY <1>0, <3>1 DEF Goto, Request
    <3>7. OldIsWhole'
      BY <3>1, <3>2 DEF OldIsWhole
    <3>8. InHandOrThere'
      <4>1. InHand' = InHand
        BY <2>1, <2>3, <3>6 DEF InHand
      <4>2. \A c \in legacy : coll'.count[c] = coll.count[c]
        BY <1>3, <3>5
      <4>3. \A x \in Ops : op'[x].pc \in {"create", "insert"} => op'[x] = op[x]
        BY <2>3, <3>6
      <4>4. /\ coll.schema = "migrated" => coll'.schema = "migrated"
            /\ coll.schema \in {"none", "fresh"} => coll'.schema \in {"none", "fresh"}
        BY <3>1
      <4> QED
        BY <1>2, <2>1, <4>1, <4>2, <4>3, <4>4 DEF Books, InHandOrThere
    <3>9. UploadsThere'
      BY <1>2, <2>3, <3>1, <3>5, <3>6 DEF Books, UploadsThere, Chunks
    <3> QED
      BY <3>7, <3>8, <3>9 DEF Books
  <2> QED
    BY <2>4, <2>5
<1>12. ASSUME NEW o \in Ops, Fail(o) PROVE Books'
  <2>1. op[o].pc \in {"check", "bind", "read", "drop"}
    BY <1>12 DEF Fail, Mishap, Ensuring, Migrating
  <2>2. \A x \in Ops : op'[x] = op[x] \/ /\ op[x].pc \in {"check", "bind", "read", "drop"}
                                         /\ op'[x].pc = "failed"
    BY <1>0, <1>12, <2>1 DEF Fail, GiveUp, Goto, Request
  <2> QED
    BY <1>2, <1>12, <2>2, Harmless DEF Fail, GiveUp
<1>13. ASSUME NEW p \in Pods, Restart(p) PROVE Books'
  <2>1. \A x \in Ops : op'[x] = op[x] \/ /\ op[x].pc \in {"check", "bind", "read", "drop", "use"}
                                         /\ op'[x].pc = "failed"
    BY <1>0, <1>13 DEF Restart, Mishap, Ensuring, Migrating, Request
  <2> QED
    BY <1>2, <1>13, <2>1, Harmless DEF Restart
<1>14. CASE UNCHANGED vars
  <2>1. \A x \in Ops : op'[x] = op[x]
    BY <1>14 DEF vars
  <2> QED
    BY <1>2, <1>14, <2>1, Harmless DEF vars
<1> QED
  BY <1>4, <1>5, <1>6, <1>7, <1>8, <1>9, <1>10, <1>11, <1>12, <1>13, <1>14 DEF Next, Step

\* The books at the beginning.
LEMMA BooksBegin == ASSUME Legacy \intersect Ops = {}, Init PROVE Books
<1>1. OldIsWhole
  BY DEF Init, OldIsWhole
<1>2. InHandOrThere
  BY DEF Init, InHandOrThere, InHand, OnceEach, Chunks
<1>3. UploadsThere
  BY DEF Init, UploadsThere, OnceEach, Chunks
<1> QED
  BY <1>1, <1>2, <1>3 DEF Books

\* The books say that nothing is lost.
LEMMA BooksSuffice == ASSUME IInv PROVE NothingLost
<1> SUFFICES ASSUME mishaps = {}
             PROVE  /\ \A c \in legacy :
                         \/ coll.count[c] = 1 /\ \A o \in InHand : op[o].todo[c] = 0
                         \/ coll.count[c] = 0 /\ \E o \in InHand :
                              op[o].todo[c] = 1 /\ \A x \in InHand \ {o} : op[x].todo[c] = 0
                    /\ \A o \in acked : coll.count[o] = 1
  BY DEF NothingLost
<1>1. Books /\ op \in [Ops -> Request] /\ coll \in Collection /\ legacy \subseteq Legacy /\ acked \subseteq Ops
  BY TypeNames DEF IInv, TypeOK
<1>2. ASSUME NEW c \in legacy
      PROVE \/ coll.count[c] = 1 /\ \A o \in InHand : op[o].todo[c] = 0
            \/ coll.count[c] = 0 /\ \E o \in InHand :
                 op[o].todo[c] = 1 /\ \A x \in InHand \ {o} : op[x].todo[c] = 0
  <2>1. CASE InHand = {}
    BY <1>1, <2>1 DEF Books, InHandOrThere
  <2>2. CASE InHand # {}
    <3>1. PICK o \in InHand : \A x \in InHand : x = o
      BY <1>1, <2>2 DEF Books, InHandOrThere
    <3>2. coll.count[c] \in Nat /\ op[o].todo[c] \in Nat
      BY <1>1 DEF Collection, Request, InHand, Chunks
    <3>3. coll.count[c] + op[o].todo[c] = 1
      <4>1. CASE op[o].pc = "create"
        <5>1. op[o].todo = OnceEach(legacy) /\ coll.count[c] = 0
          BY <1>1, <4>1 DEF Books, InHandOrThere, InHand
        <5>2. OnceEach(legacy)[c] = 1
          BY <1>1 DEF OnceEach, Chunks
        <5> QED
          BY <5>1, <5>2
      <4>2. CASE op[o].pc = "insert"
        BY <1>1, <4>2 DEF Books, InHandOrThere, InHand
      <4> QED
        BY <4>1, <4>2 DEF InHand
    <3>4. \/ coll.count[c] = 1 /\ op[o].todo[c] = 0
          \/ coll.count[c] = 0 /\ op[o].todo[c] = 1
      BY <3>2, <3>3
    <3> QED
      BY <3>1, <3>4
  <2> QED
    BY <2>1, <2>2
<1>3. \A o \in acked : coll.count[o] = 1
  BY <1>1 DEF Books, UploadsThere
<1> QED
  BY <1>2, <1>3

\* Every chunk of the old collection and every upload the user was told of is there, or in
\* the hands of the migration under way, unless one of the mishaps has happened
\* (vector_store.py:201-324): for any number of pods, operations, chunks and failing calls.
THEOREM LosesNothing ==
    ASSUME Legacy \intersect Ops = {}
    PROVE  Spec => []NothingLost
<1>1. Init => IInv
  BY Begins, BooksBegin DEF IInv
<1>2. IInv /\ [Next]_vars => IInv'
  BY TypeStep, PastStep, BooksStep DEF IInv
<1>3. IInv => NothingLost
  BY BooksSuffice
<1> QED
  BY <1>1, <1>2, <1>3, PTL DEF Spec
===============================================================================
