------------------------------ MODULE ChatTable ------------------------------
(***************************************************************************)
(* What the tables behind the chat history promise, whatever transactions  *)
(* and statements race, fail or are cut off: a chat has at most one owner, *)
(* a turn is stored whole, under its sender, and never a second time, and  *)
(* what is stored goes away only with its whole chat.                      *)
(*                                                                         *)
(* The sender need not be the owner any more when the turn is stored: the  *)
(* ownership check (postgres_storage.py:619) takes no lock, so a chat that *)
(* was deleted since may belong to somebody else.  Reads are by user_id.   *)
(***************************************************************************)
CONSTANTS Users, Chats, Turns,
          None     \* no owner

VARIABLES
    holder,  \* the owner of each chat, or None
    log,     \* the turns of each chat, with their senders
    stored   \* turns that were stored so far
vars == <<holder, log, stored>>

Init ==
    /\ holder = [c \in Chats |-> None]
    /\ log = [c \in Chats |-> {}]
    /\ stored = {}

Free(c) == holder[c] = None /\ log[c] = {}

\* A new chat of user u.
Open(u, c) ==
    /\ Free(c)
    /\ holder' = [holder EXCEPT ![c] = u]
    /\ UNCHANGED <<log, stored>>

\* Turn t of user u is stored in a chat that exists, or opens it.
Save(u, c, t) ==
    /\ t \notin stored /\ stored' = stored \union {t}
    /\ log' = [log EXCEPT ![c] = @ \union {<<u, t>>}]
    /\ \/ Free(c) /\ holder' = [holder EXCEPT ![c] = u]
       \/ holder[c] # None /\ UNCHANGED holder

\* A chat goes with all that is in it.
Remove(c) ==
    /\ holder[c] # None
    /\ holder' = [holder EXCEPT ![c] = None]
    /\ log' = [log EXCEPT ![c] = {}]
    /\ UNCHANGED stored

Next ==
    \E c \in Chats :
        \/ Remove(c)
        \/ \E u \in Users : Open(u, c) \/ \E t \in Turns : Save(u, c, t)

Spec == Init /\ [][Next]_vars
==============================================================================
