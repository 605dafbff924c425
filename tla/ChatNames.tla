------------------------------ MODULE ChatNames ------------------------------
(***************************************************************************)
(* The name of a chat of one user: the row of chat_metadata, and a cache   *)
(* of each pod that no other pod and no Redis knows of                     *)
(* (postgres_storage.py:758-813).  Reads, renames (main.py:758-777) and    *)
(* the delete of the chat interleave at every await.                       *)
(***************************************************************************)
EXTENDS Naturals, FiniteSets

CONSTANTS Pods,
          Ops,        \* requests under way at the same time
          Names,      \* names the user gives
          MaxRenames  \* bound: renames

VARIABLES alive,      \* the conversation has its row
          row,        \* the name in chat_metadata, or "none" without a row
          cache,      \* _metadata_cache of each pod: a name, or "miss"
          op,         \* per request: pc, pod and the name it read or writes
          renames
vars == <<alive, row, cache, op, renames>>

\* Without a row the first eight characters of the id serve as the name.
Default == "default"
Shown == IF row = "none" THEN Default ELSE row

TypeOK ==
    /\ alive \in BOOLEAN
    /\ row \in Names \union {"none"}
    /\ cache \in [Pods -> Names \union {Default, "miss"}]
    /\ op \in [Ops -> [pc : {"idle", "fill", "owned", "write", "put", "drop"},
                       pod : Pods, name : Names \union {Default}]]
    /\ renames \in Nat

Init ==
    /\ alive = TRUE /\ row = "none"
    /\ cache = [p \in Pods |-> "miss"]
    /\ op \in [Ops -> [pc : {"idle"}, pod : {CHOOSE p \in Pods : TRUE}, name : {Default}]]
    /\ renames = 0

-----------------------------------------------------------------------------
Become(o, pc, p, n) == op' = [op EXCEPT ![o] = [pc |-> pc, pod |-> p, name |-> n]]
Goto(o, pc) == op' = [op EXCEPT ![o].pc = pc]

\* get_chat_metadata: the SELECT after a miss, whose result is put into the cache later.
Read(o, p) ==
    /\ op[o].pc = "idle"
    /\ cache[p] = "miss"
    /\ Become(o, "fill", p, Shown)
    /\ UNCHANGED <<alive, row, cache, renames>>

\* rename_chat: exists() looks at the messages the pod has cached first, and may say
\* yes to a chat that another pod has deleted.
Rename(o, p, n) ==
    /\ op[o].pc = "idle"
    /\ renames < MaxRenames /\ renames' = renames + 1
    /\ \/ Become(o, "owned", p, n)
       \/ ~alive /\ UNCHANGED op
    /\ UNCHANGED <<alive, row, cache>>

CheckOwned(o) ==
    /\ op[o].pc = "owned"
    /\ Goto(o, IF alive THEN "write" ELSE "idle")
    /\ UNCHANGED <<alive, row, cache, renames>>

\* The upsert; its foreign key fails if the chat has just been deleted.
Write(o) ==
    /\ op[o].pc = "write"
    /\ row' = IF alive THEN op[o].name ELSE row
    /\ Goto(o, IF alive THEN "put" ELSE "idle")
    /\ UNCHANGED <<alive, cache, renames>>

\* The cache, after the connection went back to the pool, or after the SELECT.
Put(o) ==
    /\ op[o].pc \in {"put", "fill"}
    /\ cache' = [cache EXCEPT ![op[o].pod] = op[o].name]
    /\ Goto(o, "idle")
    /\ UNCHANGED <<alive, row, renames>>

\* delete_conversation: the metadata row goes with the conversation, then the entry of
\* the pod that served the delete.
Delete(o, p) ==
    /\ op[o].pc = "idle" /\ alive
    /\ alive' = FALSE /\ row' = "none"
    /\ Become(o, "drop", p, Default)
    /\ UNCHANGED <<cache, renames>>

Invalidate(o) ==
    /\ op[o].pc = "drop"
    /\ cache' = [cache EXCEPT ![op[o].pod] = "miss"]
    /\ Goto(o, "idle")
    /\ UNCHANGED <<alive, row, renames>>

\* A query fails, or its answer is lost: the request ends with what is done by then.
Fail(o) ==
    /\ op[o].pc # "idle"
    /\ Goto(o, "idle")
    /\ UNCHANGED <<alive, row, cache, renames>>

\* Slip: an entry that is read often never expires.
ExpireUnread(p) ==
    /\ cache[p] # "miss" /\ \E o \in Ops : op[o].pc # "idle"
    /\ cache' = [cache EXCEPT ![p] = "miss"]
    /\ UNCHANGED <<alive, row, op, renames>>

\* The TTL, by the next read or by _cache_eviction_worker.
Expire(p) ==
    /\ cache[p] # "miss"
    /\ cache' = [cache EXCEPT ![p] = "miss"]
    /\ UNCHANGED <<alive, row, op, renames>>

Continue(o) == CheckOwned(o) \/ Write(o) \/ Put(o) \/ Invalidate(o)

Next == \/ \E o \in Ops, p \in Pods : Read(o, p) \/ Delete(o, p)
        \/ \E o \in Ops, p \in Pods, n \in Names : Rename(o, p, n)
        \/ \E o \in Ops : Continue(o) \/ Fail(o)
        \/ \E p \in Pods : Expire(p)

Fairness == /\ \A o \in Ops : WF_vars(Continue(o))
            /\ \A p \in Pods : WF_vars(Expire(p))

Spec == Init /\ [][Next]_vars
FairSpec == Spec /\ Fairness

-----------------------------------------------------------------------------
(* Once renaming ends, every pod comes to show the name in the database for good, or   *)
(* nothing yet: whatever order the caches were filled in, and though a deleted chat    *)
(* and a name given by another pod are not announced.                                  *)
NamesHeal == <>[](\A p \in Pods : cache[p] \in {"miss", Shown})
=============================================================================
