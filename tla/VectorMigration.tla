--------------------------- MODULE VectorMigration ---------------------------
(***************************************************************************)
(* The migration of the Milvus collection "context" from the old fixed     *)
(* schema to one with dynamic fields (vector_store.py:172-324).  Every     *)
(* operation of the vector store begins with _ensure_migrated, in whatever *)
(* thread and pod it runs, and no lock is held: check the schema, read all *)
(* chunks, drop the collection, create it again under the same name and    *)
(* insert the chunks, each a call to Milvus that may fail.                 *)
(*                                                                         *)
(* Milvus knows collections by name only, so a call acts on whatever bears *)
(* the name when it arrives.  One batch of 256 chunks is one chunk here.   *)
(***************************************************************************)
EXTENDS Naturals, FiniteSets

CONSTANTS Pods,       \* backend pods, each with its own VectorStore
          Ops,        \* operations users start
          Legacy,     \* chunks an old collection may hold
          MaxFaults   \* bound: failing calls and restarts

VARIABLES coll,       \* the collection: its schema and how often it holds each chunk
          legacy,     \* the chunks of the old collection (never changes)
          done,       \* _migration_done of each pod
          store,      \* _store is not None, of each pod
          op,         \* per operation: pc, pod, kind and the chunks it still has to insert
          acked,      \* uploads the user was told are indexed
          mishaps,    \* for the properties: what befell a migration (see NothingLost)
          faults
vars == <<coll, legacy, done, store, op, acked, mishaps, faults>>

Chunks == Legacy \union Ops         \* an upload is one chunk, named by its operation
None == [c \in Chunks |-> 0]
OnceEach(S) == [c \in Chunks |-> IF c \in S THEN 1 ELSE 0]
Gone == [schema |-> "none", count |-> None]

\* Indexing and retrieval use _store; deleting and listing only the pymilvus API.
Kinds == {"index", "retrieve", "manage"}
Migrating == {"read", "drop", "create", "insert"}
Ensuring == {"check", "bind"} \union Migrating
Steps == {"new", "use", "ok", "failed"} \union Ensuring

TypeOK ==
    /\ coll \in [schema : {"none", "legacy", "migrated", "fresh"}, count : [Chunks -> Nat]]
    /\ legacy \subseteq Legacy
    /\ done \in [Pods -> BOOLEAN] /\ store \in [Pods -> BOOLEAN]
    /\ op \in [Ops -> [pc : Steps, pod : Pods, kind : Kinds, todo : [Chunks -> Nat]]]
    /\ acked \subseteq Ops
    /\ mishaps \subseteq {"second drop", "overtaken", "interrupted"}
    /\ faults \in Nat

Init ==
    /\ legacy \in {{}, Legacy}
    /\ coll = [schema |-> "legacy", count |-> OnceEach(legacy)]
    /\ done = [p \in Pods |-> FALSE] /\ store = [p \in Pods |-> FALSE]
    /\ \E p \in Pods : op = [o \in Ops |-> [pc |-> "new", pod |-> p, kind |-> "manage", todo |-> None]]
    /\ acked = {} /\ mishaps = {} /\ faults = 0

-----------------------------------------------------------------------------
At(o, pc) == op[o].pc = pc
Goto(o, pc) == op' = [op EXCEPT ![o].pc = pc]
Mishap(S) == mishaps' = mishaps \union S

\* The except of _ensure_migrated, then the caller's early return or raise.  It
\* forgets the wrapper, but not a _migration_done another thread has set meanwhile.
GiveUp(o) ==
    /\ Goto(o, "failed")
    /\ store' = [store EXCEPT ![op[o].pod] = FALSE]
    /\ UNCHANGED <<coll, legacy, done, acked>>

\* Retrieval runs _ensure_migrated on the event loop, one at a time; the other
\* kinds run in threads.
Begin(o, p, kind) ==
    /\ At(o, "new")
    /\ kind = "retrieve" =>
         ~\E x \in Ops : op[x].pod = p /\ op[x].kind = "retrieve" /\ op[x].pc \in Ensuring
    /\ op' = [op EXCEPT ![o] = [@ EXCEPT !.pc = IF done[p] THEN "use" ELSE "check",
                                         !.pod = p, !.kind = kind]]
    /\ UNCHANGED <<coll, legacy, done, store, acked, mishaps, faults>>

\* Slip: an operation that finds somebody at work takes the migration as done.
CheckSchemaBusy(o) ==
    /\ At(o, "check")
    /\ Goto(o, IF coll.schema = "legacy" /\ ~\E x \in Ops : op[x].pc \in Migrating
               THEN "read" ELSE "bind")
    /\ UNCHANGED <<coll, legacy, done, store, acked, mishaps, faults>>

CheckSchema(o) ==
    /\ At(o, "check")
    /\ Goto(o, IF coll.schema = "legacy" THEN "read" ELSE "bind")
    /\ UNCHANGED <<coll, legacy, done, store, acked, mishaps, faults>>

ReadChunks(o) ==
    /\ At(o, "read")
    /\ UNCHANGED <<mishaps, faults>>
    /\ IF coll.schema = "none" THEN GiveUp(o)
       ELSE /\ op' = [op EXCEPT ![o].pc = "drop", ![o].todo = coll.count]
            /\ UNCHANGED <<coll, legacy, done, store, acked>>

\* By name: what another operation created under it meanwhile goes too.
Drop(o) ==
    /\ At(o, "drop")
    /\ coll' = Gone
    /\ Mishap(IF coll.schema = "legacy" THEN {} ELSE {"second drop"})
    /\ Goto(o, IF op[o].todo = None THEN "bind" ELSE "create")
    /\ UNCHANGED <<legacy, done, store, acked, faults>>

\* An equal schema gives the existing collection, another one an exception.
Create(o) ==
    /\ At(o, "create")
    /\ UNCHANGED faults
    /\ IF coll.schema = "fresh" THEN GiveUp(o) /\ Mishap({"overtaken"})
       ELSE /\ coll' = [coll EXCEPT !.schema = "migrated"]
            /\ Goto(o, "insert")
            /\ UNCHANGED <<legacy, done, store, acked, mishaps>>

\* Slip: the last batch is left out.
InsertBatchButLast(o) ==
    /\ At(o, "insert")
    /\ \E c \in Chunks :
         /\ op[o].todo[c] > 0
         /\ LET rest == [op[o].todo EXCEPT ![c] = 0] IN
              /\ coll' = IF rest = None THEN coll ELSE [coll EXCEPT !.count[c] = @ + op[o].todo[c]]
              /\ op' = [op EXCEPT ![o].todo = rest, ![o].pc = IF rest = None THEN "bind" ELSE @]
    /\ UNCHANGED <<legacy, done, store, acked, mishaps, faults>>

InsertBatch(o) ==
    /\ At(o, "insert")
    /\ UNCHANGED <<mishaps, faults>>
    /\ IF coll.schema = "none" THEN GiveUp(o)
       ELSE /\ \E c \in Chunks :
                 /\ op[o].todo[c] > 0
                 /\ coll' = [coll EXCEPT !.count[c] = @ + op[o].todo[c]]
                 /\ LET rest == [op[o].todo EXCEPT ![c] = 0]
                    IN  op' = [op EXCEPT ![o].todo = rest,
                                         ![o].pc = IF rest = None THEN "bind" ELSE @]
            /\ UNCHANGED <<legacy, done, store, acked>>

\* _get_store builds the wrapper only now, so that it binds to the new schema.
Bind(o) ==
    /\ At(o, "bind")
    /\ store' = [store EXCEPT ![op[o].pod] = TRUE]
    /\ done' = [done EXCEPT ![op[o].pod] = TRUE]
    /\ Goto(o, "use")
    /\ UNCHANGED <<coll, legacy, acked, mishaps, faults>>

\* The operation itself.  The wrapper creates a missing collection on the first
\* add, with its own schema; a wrapper bound to a dropped one gets an error.
Use(o) ==
    /\ At(o, "use")
    /\ UNCHANGED <<legacy, done, store, mishaps, faults>>
    /\ \/ /\ op[o].kind = "index" /\ store[op[o].pod]
          /\ coll' = [schema |-> IF coll.schema = "none" THEN "fresh" ELSE coll.schema,
                      count |-> [coll.count EXCEPT ![o] = @ + 1]]
          /\ acked' = acked \union {o}
          /\ Goto(o, "ok")
       \/ /\ op[o].kind = "index" /\ (coll.schema = "none" \/ ~store[op[o].pod])
          /\ Goto(o, "failed")
          /\ UNCHANGED <<coll, acked>>
       \/ /\ op[o].kind # "index"
          /\ Goto(o, "ok")        \* a failing retrieval is an empty one
          /\ UNCHANGED <<coll, acked>>

\* A call to Milvus fails inside _ensure_migrated.
Fail(o) ==
    /\ op[o].pc \in Ensuring
    /\ faults < MaxFaults /\ faults' = faults + 1
    /\ GiveUp(o)
    /\ Mishap(IF op[o].pc \in {"create", "insert"} THEN {"interrupted"} ELSE {})

Restart(p) ==
    /\ faults < MaxFaults /\ faults' = faults + 1
    /\ LET mine == {o \in Ops : op[o].pod = p /\ op[o].pc \in Ensuring \union {"use"}} IN
         /\ mine # {} \/ done[p]
         /\ op' = [o \in Ops |-> IF o \in mine THEN [op[o] EXCEPT !.pc = "failed"] ELSE op[o]]
         /\ Mishap(IF \E o \in mine : op[o].pc \in {"create", "insert"} THEN {"interrupted"} ELSE {})
    /\ done' = [done EXCEPT ![p] = FALSE] /\ store' = [store EXCEPT ![p] = FALSE]
    /\ UNCHANGED <<coll, legacy, acked>>

Step(o) == \/ CheckSchema(o) \/ ReadChunks(o) \/ Drop(o) \/ Create(o) \/ InsertBatch(o)
           \/ Bind(o) \/ Use(o) \/ Fail(o)

Next == \/ \E o \in Ops, p \in Pods, kind \in Kinds : Begin(o, p, kind)
        \/ \E o \in Ops : Step(o)
        \/ \E p \in Pods : Restart(p)

Spec == Init /\ [][Next]_vars

-----------------------------------------------------------------------------
(* A pod that calls itself migrated never faces the fixed schema again, whatever     *)
(* other pods and threads do: the filters on user_id and visibility work, and the    *)
(* wrapper was not bound to the old collection (the comment at vector_store.py:179). *)
ReadyNotLegacy == \A p \in Pods : done[p] \/ store[p] => coll.schema # "legacy"

(* The chunks a migration has taken out of the old collection and not yet inserted. *)
InHand == {o \in Ops : op[o].pc \in {"create", "insert"}}

(* Every chunk of the old collection is in the collection exactly once, or in the    *)
(* hands of the one migration under way, and every upload the user was told of is    *)
(* there: at every point of every interleaving of operations and pods, and though    *)
(* calls fail, with three exceptions.  "interrupted": a call fails or the pod dies   *)
(* between the drop and the last batch, and the retry finds nothing to migrate.      *)
(* "second drop": two operations read the old collection, and the later drop takes   *)
(* the earlier one's new collection.  "overtaken": an upload creates the missing     *)
(* collection with another schema, so that the migration cannot.                     *)
NothingLost ==
    mishaps = {} =>
      /\ \A c \in legacy :
           \/ coll.count[c] = 1 /\ \A o \in InHand : op[o].todo[c] = 0
           \/ coll.count[c] = 0 /\ \E o \in InHand :
                op[o].todo[c] = 1 /\ \A x \in InHand \ {o} : op[x].todo[c] = 0
      /\ \A o \in acked : coll.count[o] = 1

=============================================================================
