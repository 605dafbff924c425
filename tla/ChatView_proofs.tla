--------------------------- MODULE ChatView_proofs ---------------------------
(***************************************************************************)
(* Proofs about ChatView, for any chats, queries, operations, loads,       *)
(* clicks and faults.                                                      *)
(***************************************************************************)
EXTENDS ChatView, TLAPS

\* Chats that are asked, shown, or gone to were used before.
Used ==
    /\ shown \in born
    /\ \A q \in Queries : IF stream[q] = "none" THEN chatOf[q] = None ELSE chatOf[q] \in born
    /\ \A a \in Acts : act[a].pc \in {"post", "switch", "delete"} => act[a].chat \in born

-------------------------------------------------------------------------------
\* Type correctness.

LEMMA ActRecord ==
    ASSUME NEW r \in Act, NEW c \in Chats \union {None}, NEW listed \in SUBSET Chats,
           NEW pc \in {"idle", "create", "post", "switch", "delete", "list", "clear", "rest", "over"}
    PROVE  /\ [r EXCEPT !.pc = pc] \in Act
           /\ [r EXCEPT !.pc = pc, !.chat = c] \in Act
           /\ [r EXCEPT !.pc = pc, !.listed = listed] \in Act
BY DEF Act

LEMMA FreshIsNew == born \subseteq Chats /\ born # Chats => Fresh \in Chats /\ Fresh \notin born
<1> SUFFICES ASSUME born \subseteq Chats, born # Chats PROVE Fresh \in Chats /\ Fresh \notin born
  OBVIOUS
<1>1. \E c \in Chats : c \notin born
  OBVIOUS
<1> QED
  BY <1>1 DEF Fresh

\* The actions of the page.
LEMMA PageTypes ==
    ASSUME TypeOK, Used,
           \/ \E l \in Loads : Effects(l) \/ Headers(l) \/ Apply(l) \/ LoadFails(l)
           \/ \E q \in Queries : Ask(q) \/ Token(q) \/ Told(q) \/ Finally(q) \/ Store(q)
           \/ Flush \/ Cancel
    PROVE  TypeOK'
<1> USE ChatViewAssumption DEF TypeOK, server, screen, ghosts, Live
<1>1. ASSUME NEW l \in Loads, Effects(l) PROVE TypeOK'
  <2>1. load' \in [Loads -> Load]
    <3>1. [NoLoad("sent") EXCEPT !.chat = shown] \in Load
      BY DEF NoLoad, Load
    <3>2. \A x \in Loads : [load[x] EXCEPT !.cancelled = TRUE, !.torn = (load[x].pc = "body")] \in Load
      <4>1. ASSUME NEW r \in Load, NEW b \in BOOLEAN PROVE [r EXCEPT !.cancelled = TRUE, !.torn = b] \in Load
        BY DEF Load
      <4> QED
        BY <4>1
    <3> QED
      BY <1>1, <3>1, <3>2 DEF Effects
  <2> QED
    BY <1>1, <2>1 DEF Effects
<1>2. ASSUME NEW l \in Loads, Headers(l) PROVE TypeOK'
  <2>1. load' \in [Loads -> Load]
    <3>1. NoLoad("dropped") \in Load
      BY DEF NoLoad, Load
    <3>2. [load[l] EXCEPT !.pc = "body", !.items = History(load[l].chat)] \in Load
      BY DEF Load, History, Of
    <3> QED
      BY <1>2, <3>1, <3>2 DEF Headers
  <2> QED
    BY <1>2, <2>1 DEF Headers
<1>3. ASSUME NEW l \in Loads, Apply(l) PROVE TypeOK'
  <2>1. NoLoad("applied") \in Load /\ load[l].items \subseteq Queries /\ load[l].torn \in BOOLEAN
    BY DEF NoLoad, Load
  <2> QED
    BY <1>3, <2>1 DEF Apply
<1>4. ASSUME NEW l \in Loads, LoadFails(l) PROVE TypeOK'
  <2>1. NoLoad("failed") \in Load
    BY DEF NoLoad, Load
  <2> QED
    BY <1>4, <2>1 DEF LoadFails, Fault
<1>5. ASSUME NEW q \in Queries, Ask(q) PROVE TypeOK'
  BY <1>5 DEF Ask
<1>6. ASSUME NEW q \in Queries, Token(q) PROVE TypeOK'
  BY <1>6 DEF Token
<1>7. ASSUME NEW q \in Queries, Told(q) PROVE TypeOK'
  BY <1>7 DEF Told
<1>8. ASSUME NEW q \in Queries, Finally(q) PROVE TypeOK'
  BY <1>8 DEF Finally
<1>9. ASSUME NEW q \in Queries, Store(q) PROVE TypeOK'
  BY <1>9 DEF Store, Asked, Used
<1>10. CASE Flush
  BY <1>10 DEF Flush
<1>11. CASE Cancel
  BY <1>11 DEF Cancel
<1> QED
  BY <1>1, <1>2, <1>3, <1>4, <1>5, <1>6, <1>7, <1>8, <1>9, <1>10, <1>11

\* The operations of the side bar.
LEMMA ActTypes ==
    ASSUME TypeOK, Used, NEW a \in Acts,
           \/ New(a) \/ Clear(a) \/ \E c \in Chats : Select(a, c) \/ Delete(a, c)
           \/ Create(a) \/ CreateBreaks(a) \/ Post(a) \/ Switch(a) \/ DeleteServer(a)
           \/ List(a) \/ ClearList(a) \/ ClearOne(a) \/ ActFails(a)
    PROVE  TypeOK'
<1> USE ChatViewAssumption DEF TypeOK, server, screen, ghosts, Elsewhere, Goes, GoesTo, Ends, Live
<1>0. /\ act[a] \in Act /\ NoAct("over") \in Act
      /\ \A q \in Queries : Dropped(q) \in {"not_yet", "stored", "deleted"}
  BY DEF NoAct, Act, Dropped
<1>1. ASSUME NEW pc \in {"create", "post", "delete", "clear"}, NEW c \in Chats \union {None}, Begin(a, pc, c, shown)
      PROVE  TypeOK'
  <2>1. [chat |-> c, was |-> shown, listed |-> {}, pc |-> pc] \in Act
    BY DEF Act
  <2> QED
    BY <1>1, <2>1 DEF Begin
<1>2. CASE New(a) \/ Clear(a) \/ \E c \in Chats : Select(a, c) \/ Delete(a, c)
  BY <1>1, <1>2 DEF New, Clear, Select, Delete
<1>3. CASE Create(a)
  BY <1>0, <1>3, FreshIsNew, ActRecord DEF Create
<1>4. CASE CreateBreaks(a)
  BY <1>0, <1>4, FreshIsNew DEF CreateBreaks, Fault
<1>5. CASE Post(a)
  <2>1. act[a].chat \in chats => act[a].chat \in Chats
    OBVIOUS
  <2>2. [act[a] EXCEPT !.pc = "switch"] \in Act
    BY <1>0, ActRecord
  <2>3. act' \in [Acts -> Act]
    BY <1>0, <1>5, <2>2 DEF Post
  <2>4. current' \in Chats
    BY <1>5, <2>1 DEF Post
  <2> QED
    BY <1>5, <2>3, <2>4 DEF Post
<1>6. CASE Switch(a)
  BY <1>0, <1>6 DEF Switch, Used
<1>7. CASE DeleteServer(a)
  BY <1>0, <1>7, ActRecord DEF DeleteServer
<1>8. CASE List(a)
  <2>1. CASE Goes(a, "create") /\ UNCHANGED misled
    BY <1>0, <1>8, <2>1, ActRecord DEF List
  <2>2. ASSUME NEW c \in born, GoesTo(a, "post", c), misled' = (misled \/ c \notin chats) PROVE TypeOK'
    <3>1. [act[a] EXCEPT !.pc = "post", !.chat = c] \in Act
      BY <1>0, ActRecord
    <3>2. act' \in [Acts -> Act] /\ misled' \in BOOLEAN
      BY <2>2, <3>1
    <3> QED
      BY <1>8, <3>2 DEF List
  <2> QED
    BY <1>8, <2>1, <2>2 DEF List
<1>9. CASE ClearList(a)
  <2>1. PICK listed \in SUBSET born :
           act' = [act EXCEPT ![a].pc = IF listed = {} THEN "create" ELSE "rest", ![a].listed = listed]
    BY <1>9 DEF ClearList
  <2>2. [act[a] EXCEPT !.pc = IF listed = {} THEN "create" ELSE "rest", !.listed = listed] \in Act
    BY <1>0, ActRecord
  <2>3. act' \in [Acts -> Act]
    BY <2>1, <2>2
  <2> QED
    BY <1>9, <2>3 DEF ClearList
<1>10. CASE ClearOne(a)
  <2>1. PICK c \in act[a].listed :
          /\ chats' = chats \ {c}
          /\ kept' = [q \in Queries |-> IF chatOf[q] = c THEN Dropped(q) ELSE kept[q]]
          /\ act' = [act EXCEPT ![a].pc = IF act[a].listed = {c} THEN "create" ELSE "rest",
                                ![a].listed = @ \ {c}]
    BY <1>10 DEF ClearOne
  <2>2. act[a].listed \ {c} \in SUBSET Chats
    BY <1>0 DEF Act
  <2>3. [act[a] EXCEPT !.pc = IF act[a].listed = {c} THEN "create" ELSE "rest",
                       !.listed = act[a].listed \ {c}] \in Act
    BY <1>0, <2>2, ActRecord
  <2>4. act' \in [Acts -> Act] /\ kept' \in [Queries -> {"not_yet", "stored", "deleted"}]
    BY <1>0, <2>1, <2>3
  <2> QED
    BY <1>10, <2>1, <2>4 DEF ClearOne
<1>11. CASE ActFails(a)
  BY <1>0, <1>11 DEF ActFails, Fault
<1> QED
  BY <1>2, <1>3, <1>4, <1>5, <1>6, <1>7, <1>8, <1>9, <1>10, <1>11

\* Steps of the page that leave chats, operations and the chat that is shown alone.
PageStep ==
    \/ \E l \in Loads : Effects(l) \/ Headers(l) \/ Apply(l) \/ LoadFails(l)
    \/ \E q \in Queries : Ask(q) \/ Token(q) \/ Told(q) \/ Finally(q)
    \/ Flush \/ Cancel \/ UNCHANGED vars

LEMMA PageKeeps ==
    ASSUME PageStep
    PROVE  UNCHANGED <<chats, born, current, shown, act, crossed, misled>> /\ (faults' = faults \/ Fault)
BY DEF PageStep, Effects, Headers, Apply, LoadFails, Ask, Token, Told, Finally, Flush, Cancel,
       vars, server, screen, ghosts, Fault

\* Steps of the side bar and the server that leave the page alone.
QuietStep ==
    \/ \E q \in Queries : Store(q)
    \/ \E a \in Acts : \/ New(a) \/ Clear(a)
                       \/ \E c \in Chats : Select(a, c) \/ Delete(a, c)
    \/ \E a \in Acts : Create(a) \/ CreateBreaks(a) \/ Post(a) \/ DeleteServer(a)
                       \/ List(a) \/ ClearList(a) \/ ClearOne(a) \/ ActFails(a)

LEMMA QuietKeeps == ASSUME QuietStep PROVE UNCHANGED <<screen, chatOf, stream, load, late, hasty>>
<1>1. ASSUME NEW q \in Queries, Store(q) PROVE UNCHANGED <<screen, chatOf, stream, load, late, hasty>>
  BY <1>1 DEF Store, ghosts
<1>2. ASSUME NEW a \in Acts, \/ New(a) \/ Clear(a)
                             \/ \E c \in Chats : Select(a, c) \/ Delete(a, c)
      PROVE  UNCHANGED <<screen, chatOf, stream, load, late, hasty>>
  BY <1>2 DEF New, Clear, Select, Delete, Begin
<1>3. ASSUME NEW a \in Acts, Create(a) \/ CreateBreaks(a) \/ Post(a) \/ DeleteServer(a)
                             \/ List(a) \/ ClearList(a) \/ ClearOne(a) \/ ActFails(a)
      PROVE  UNCHANGED <<screen, chatOf, stream, load, late, hasty>>
  BY <1>3 DEF Create, CreateBreaks, Post, DeleteServer, List, ClearList, ClearOne, ActFails, Elsewhere, ghosts
<1> QED
  BY <1>1, <1>2, <1>3 DEF QuietStep

LEMMA StepKinds == [Next]_vars => PageStep \/ QuietStep \/ \E a \in Acts : Switch(a)
BY DEF Next, PageStep, QuietStep

\* What the operation a becomes, and what it does to the chats.
ActMoves(a) ==
    /\ \A x \in Acts \ {a} : act'[x] = act[x]
    /\ UNCHANGED shown /\ born \subseteq born' /\ act[a].pc # "over" /\ (faults' = faults \/ Fault)
    /\ \/ /\ act[a].pc = "idle" /\ Busy(a)' /\ UNCHANGED <<chats, current, misled>>
          /\ act'[a].was = shown /\ act'[a].pc \in {"create", "post", "delete", "clear"}
          /\ act'[a].pc \in {"post", "delete"} => act'[a].chat \in born
          /\ crossed' = (crossed \/ \E x \in Acts : Busy(x))
       \/ /\ Busy(a) /\ UNCHANGED crossed
          /\ \/ Fault
             \/ /\ act[a].pc = "create" /\ act'[a].pc = "post" /\ UNCHANGED misled
                /\ act'[a].chat \in chats' /\ act'[a].chat \in born' /\ chats \subseteq chats'
             \/ /\ act[a].pc = "post" /\ act'[a].pc = "switch" /\ act'[a].chat = act[a].chat
                /\ act[a].chat \in chats /\ current' = act[a].chat /\ UNCHANGED <<chats, misled>>
             \/ /\ act[a].pc = "post" /\ act'[a].pc = "over"
                /\ act[a].chat \notin chats /\ UNCHANGED <<chats, current, misled>>
             \/ /\ act[a].pc = "delete" /\ UNCHANGED <<current, misled>> /\ chats' = chats \ {act[a].chat}
                /\ act'[a].pc = IF act[a].chat \in chats /\ act[a].was = act[a].chat THEN "list" ELSE "over"
             \/ /\ act[a].pc = "list" /\ act'[a].pc = "post" /\ act'[a].chat \in born
                /\ act'[a].chat \in chats \/ misled' = TRUE
                /\ misled => misled' = TRUE
                /\ UNCHANGED <<chats, current>>
             \/ /\ act[a].pc \in {"list", "clear", "rest"} /\ act'[a].pc \in {"create", "rest"}
                /\ UNCHANGED <<current, misled>> /\ chats' \subseteq chats
          /\ Fault => act'[a].pc = "over" /\ UNCHANGED misled

LEMMA StoreMoves ==
    ASSUME NEW q \in Queries, TypeOK, Used, Store(q)
    PROVE  chats \subseteq chats' /\ UNCHANGED <<born, current, shown, act, crossed, misled, faults>>
BY DEF Store, screen, ghosts

LEMMA ActsMove ==
    ASSUME TypeOK, Used, NEW a \in Acts,
           \/ New(a) \/ Clear(a) \/ \E c \in Chats : Select(a, c) \/ Delete(a, c)
           \/ Create(a) \/ CreateBreaks(a) \/ Post(a) \/ DeleteServer(a)
           \/ List(a) \/ ClearList(a) \/ ClearOne(a) \/ ActFails(a)
    PROVE  ActMoves(a)
<1>0. /\ act \in [Acts -> Act] /\ faults \in 0..MaxFaults /\ MaxFaults \in Nat
      /\ misled \in BOOLEAN /\ born \subseteq Chats
  BY ChatViewAssumption DEF TypeOK
<1>1. ASSUME NEW pc \in {"create", "post", "delete", "clear"}, NEW c, pc \in {"post", "delete"} => c \in born,
             Begin(a, pc, c, shown)
      PROVE  ActMoves(a)
  <2>1. act'[a] = [chat |-> c, was |-> shown, listed |-> {}, pc |-> pc]
    BY <1>0, <1>1 DEF Begin
  <2> QED
    BY <1>0, <1>1, <2>1 DEF Begin, ActMoves, Busy, server, screen
<1>2. CASE New(a) \/ Clear(a) \/ \E c \in Chats : Select(a, c) \/ Delete(a, c)
  BY <1>1, <1>2 DEF New, Clear, Select, Delete, Listed
<1>3. CASE Create(a)
  <2>1. act'[a].pc = "post" /\ act'[a].chat = Fresh
    BY <1>0, <1>3 DEF Create, GoesTo, Act
  <2>2. /\ act[a].pc = "create" /\ UNCHANGED <<shown, crossed, misled, faults>>
        /\ \A x \in Acts \ {a} : act'[x] = act[x]
    BY <1>0, <1>3 DEF Create, GoesTo, Elsewhere, screen, ghosts
  <2>3. chats' = chats \union {Fresh} /\ born' = born \union {Fresh} /\ current' = Fresh
    BY <1>3 DEF Create
  <2> QED
    BY <1>0, <2>1, <2>2, <2>3 DEF ActMoves, Busy, Fault
<1>4. CASE CreateBreaks(a)
  BY <1>0, <1>4 DEF CreateBreaks, Ends, NoAct, ActMoves, Busy, Elsewhere, screen, ghosts
<1>5. CASE Post(a)
  <2>0. /\ act[a].pc = "post" /\ UNCHANGED <<chats, born, shown, crossed, misled, faults>>
        /\ \A x \in Acts \ {a} : act'[x] = act[x]
    BY <1>0, <1>5 DEF Post, Goes, Ends, Elsewhere, screen, ghosts
  <2>1. CASE act[a].chat \in chats
    <3>1. current' = act[a].chat /\ act'[a].pc = "switch" /\ act'[a].chat = act[a].chat
      BY <1>0, <1>5, <2>1 DEF Post, Goes, Act
    <3> QED
      BY <1>0, <2>0, <2>1, <3>1 DEF ActMoves, Busy, Fault
  <2>2. CASE act[a].chat \notin chats
    <3>1. UNCHANGED current /\ act'[a].pc = "over"
      BY <1>0, <1>5, <2>2 DEF Post, Ends, NoAct
    <3> QED
      BY <1>0, <2>0, <2>2, <3>1 DEF ActMoves, Busy, Fault
  <2> QED
    BY <2>1, <2>2
<1>6. CASE DeleteServer(a)
  <2>0. /\ act[a].pc = "delete" /\ UNCHANGED <<born, current, shown, crossed, misled, faults>>
        /\ chats' = chats \ {act[a].chat}
        /\ \A x \in Acts \ {a} : act'[x] = act[x]
    BY <1>0, <1>6 DEF DeleteServer, Goes, Ends, Elsewhere, screen, ghosts
  <2>1. act'[a].pc = IF act[a].chat \in chats /\ act[a].was = act[a].chat THEN "list" ELSE "over"
    BY <1>0, <1>6 DEF DeleteServer, Goes, Ends, NoAct, Act
  <2> QED
    BY <1>0, <2>0, <2>1 DEF ActMoves, Busy, Fault
<1>7. CASE List(a)
  <2>0. /\ act[a].pc = "list" /\ UNCHANGED <<chats, born, current, shown, crossed, faults>>
        /\ \A x \in Acts \ {a} : act'[x] = act[x]
    BY <1>0, <1>7 DEF List, Goes, GoesTo, server, screen
  <2>1. CASE Goes(a, "create") /\ UNCHANGED misled
    <3>1. act'[a].pc = "create"
      BY <1>0, <2>1 DEF Goes, Act
    <3> QED
      BY <1>0, <2>0, <2>1, <3>1 DEF ActMoves, Busy, Fault
  <2>2. ASSUME NEW c \in born, GoesTo(a, "post", c), misled' = (misled \/ c \notin chats) PROVE ActMoves(a)
    <3>1. act'[a].pc = "post" /\ act'[a].chat = c
      BY <1>0, <2>2 DEF GoesTo, Act
    <3>2. c \in chats \/ misled' = TRUE
      BY <2>2
    <3>3. misled => misled' = TRUE
      BY <2>2
    <3> QED
      BY <1>0, <2>0, <3>1, <3>2, <3>3 DEF ActMoves, Busy, Fault
  <2> QED
    BY <1>7, <2>1, <2>2 DEF List
<1>8. CASE ClearList(a) \/ ClearOne(a)
  <2>0. /\ act[a].pc \in {"clear", "rest"} /\ UNCHANGED <<born, current, shown, crossed, misled, faults>>
        /\ chats' \subseteq chats
        /\ \A x \in Acts \ {a} : act'[x] = act[x]
    BY <1>0, <1>8 DEF ClearList, ClearOne, Elsewhere, server, screen, ghosts
  <2>1. act'[a].pc \in {"create", "rest"}
    BY <1>0, <1>8 DEF ClearList, ClearOne, Act
  <2> QED
    BY <1>0, <2>0, <2>1 DEF ActMoves, Busy, Fault
<1>9. CASE ActFails(a)
  BY <1>0, <1>9 DEF ActFails, Ends, NoAct, ActMoves, Busy, Elsewhere, server, screen, ghosts
<1> QED
  BY <1>2, <1>3, <1>4, <1>5, <1>6, <1>7, <1>8, <1>9

\* Showing another chat ends its operation.
LEMMA SwitchMoves ==
    ASSUME TypeOK, NEW a \in Acts, Switch(a)
    PROVE  /\ act[a].pc = "switch" /\ act'[a].pc = "over" /\ shown' = act[a].chat
           /\ \A x \in Acts \ {a} : act'[x] = act[x]
           /\ UNCHANGED <<chats, born, current, crossed, misled, faults, stream, chatOf>>
BY DEF Switch, Ends, NoAct, TypeOK, server, ghosts

LEMMA UsedStep == ASSUME TypeOK, Used, [Next]_vars PROVE Used' /\ born \subseteq born'
<1>1. CASE PageStep
  <2>0. UNCHANGED <<born, shown, act>>
    BY <1>1, PageKeeps
  <2>1. ASSUME NEW q \in Queries, Ask(q) PROVE Used'
    <3>1. stream' = [stream EXCEPT ![q] = "open"] /\ chatOf' = [chatOf EXCEPT ![q] = shown]
      BY <2>1 DEF Ask
    <3> QED
      BY <2>0, <3>1 DEF Used, TypeOK
  <2>2. CASE UNCHANGED chatOf /\ \A q \in Queries : stream'[q] = "none" <=> stream[q] = "none"
    BY <2>0, <2>2 DEF Used
  <2>3. ASSUME NEW l \in Loads, Effects(l) PROVE \A q \in Queries : stream'[q] = "none" <=> stream[q] = "none"
    BY <2>3, ChatViewAssumption DEF Effects, TypeOK, Live
  <2>4. ASSUME Cancel PROVE \A q \in Queries : stream'[q] = "none" <=> stream[q] = "none"
    BY <2>4, ChatViewAssumption DEF Cancel, TypeOK, Live
  <2>5. ASSUME NEW x \in Queries, Told(x) \/ Finally(x)
        PROVE  \A q \in Queries : stream'[q] = "none" <=> stream[q] = "none"
    BY <2>5 DEF Told, Finally, TypeOK, Live
  <2>8. ASSUME NEW l \in Loads, Headers(l) \/ Apply(l) \/ LoadFails(l) PROVE UNCHANGED <<chatOf, stream>>
    BY <2>8 DEF Headers, Apply, LoadFails
  <2>9. Flush \/ UNCHANGED vars => UNCHANGED <<chatOf, stream>>
    BY DEF Flush, vars
  <2>10. ASSUME NEW q \in Queries, Token(q) PROVE UNCHANGED <<chatOf, stream>>
    BY <2>10 DEF Token
  <2>11. ASSUME NEW l \in Loads, Effects(l) PROVE UNCHANGED chatOf
    BY <2>11 DEF Effects
  <2>12. ASSUME NEW q \in Queries, Told(q) \/ Finally(q) PROVE UNCHANGED chatOf
    BY <2>12 DEF Told, Finally
  <2>13. Cancel => UNCHANGED chatOf
    BY DEF Cancel
  <2> QED
    BY <1>1, <2>0, <2>1, <2>2, <2>3, <2>4, <2>5, <2>8, <2>9, <2>10, <2>11, <2>12, <2>13 DEF PageStep
<1>2. CASE QuietStep
  <2>0. UNCHANGED <<shown, chatOf, stream>>
    BY <1>2, QuietKeeps DEF screen
  <2>1. ASSUME NEW q \in Queries, Store(q) PROVE Used' /\ born \subseteq born'
    BY <2>0, <2>1, StoreMoves DEF Used
  <2>2. ASSUME NEW a \in Acts, ActMoves(a) PROVE Used' /\ born \subseteq born'
    <3>1. \A x \in Acts : act'[x].pc \in {"post", "switch", "delete"} => act'[x].chat \in born'
      BY <2>2, ChatViewAssumption DEF ActMoves, Used, Busy, TypeOK
    <3> QED
      BY <2>0, <2>2, <3>1 DEF Used, ActMoves
  <2> QED
    BY <1>2, <2>1, <2>2, ActsMove DEF QuietStep
<1>3. ASSUME NEW a \in Acts, Switch(a) PROVE Used' /\ born \subseteq born'
  BY <1>3, SwitchMoves DEF Used
<1> QED
  BY <1>1, <1>2, <1>3, StepKinds, PageKeeps

-------------------------------------------------------------------------------
\* The tab and the server agree.

\* How far an operation has come, as long as none overlaps with it and nothing fails.
Phases ==
    /\ ~crossed => \A a, b \in Acts : Busy(a) /\ Busy(b) => a = b
    /\ ~crossed /\ misled = FALSE /\ faults = 0 =>
         /\ (\A a \in Acts : ~Busy(a)) => shown \in chats /\ current = shown
         /\ \A a \in Acts :
              /\ act[a].pc = "post" => act[a].chat \in chats \/ (shown \in chats /\ current = shown)
              /\ act[a].pc = "switch" => act[a].chat \in chats /\ current = act[a].chat
              /\ act[a].pc = "delete" => shown \in chats /\ current = shown /\ act[a].was = shown

LEMMA PhasesStep == ASSUME TypeOK, Used, Phases, [Next]_vars PROVE Phases'
<1>0. faults \in Nat /\ crossed \in BOOLEAN /\ misled \in BOOLEAN
  BY ChatViewAssumption DEF TypeOK
<1>1. CASE PageStep
  <2>1. UNCHANGED <<chats, current, shown, act, crossed, misled>> /\ (faults' = 0 => faults = 0)
    BY <1>0, <1>1, PageKeeps DEF Fault
  <2> QED
    BY <1>0, <2>1 DEF Phases, Busy
<1>2. ASSUME NEW q \in Queries, Store(q) PROVE Phases'
  BY <1>2, StoreMoves DEF Phases, Busy
<1>3. ASSUME NEW a \in Acts, Switch(a) PROVE Phases'
  <2>1. /\ Busy(a) /\ ~Busy(a)' /\ \A x \in Acts \ {a} : Busy(x)' <=> Busy(x)
    BY <1>3, SwitchMoves DEF Busy
  <2> QED
    BY <1>3, <2>1, SwitchMoves DEF Phases, Busy
<1>4. ASSUME NEW a \in Acts, ActMoves(a) PROVE Phases'
  <2>0. \A x \in Acts \ {a} : act'[x] = act[x] /\ (Busy(x)' <=> Busy(x))
    BY <1>4 DEF ActMoves, Busy
  <2>1. CASE act[a].pc = "idle"
    <3>1. /\ Busy(a)' /\ UNCHANGED <<chats, current, misled, shown>> /\ ~Busy(a)
          /\ act'[a].was = shown /\ act'[a].pc \in {"create", "post", "delete", "clear"}
          /\ crossed' = (crossed \/ \E x \in Acts : Busy(x))
      BY <1>4, <2>1 DEF ActMoves, Busy
    <3>2. CASE crossed'
      BY <3>2 DEF Phases
    <3>3. CASE ~crossed'
      <4>1. ~crossed /\ \A x \in Acts : ~Busy(x)
        BY <3>1, <3>3
      <4>2. \A x \in Acts : Busy(x)' => x = a
        BY <2>0, <4>1
      <4>3. \A x \in Acts : act'[x].pc \in {"post", "switch", "delete"} => x = a
        BY <4>2 DEF Busy
      <4>4. faults' = 0 => faults = 0
        BY <1>0, <1>4 DEF ActMoves, Fault
      <4> QED
        BY <1>0, <3>1, <4>1, <4>2, <4>3, <4>4 DEF Phases
    <3> QED
      BY <3>2, <3>3
  <2>2. CASE act[a].pc # "idle"
    <3>0. Busy(a) /\ crossed' = crossed /\ UNCHANGED shown
      BY <1>4, <2>2 DEF ActMoves, Busy
    <3>1. ~crossed' => \A x, y \in Acts : Busy(x)' /\ Busy(y)' => x = y
      BY <2>0, <3>0 DEF Phases
    <3>2. ASSUME ~crossed', misled' = FALSE, faults' = 0
          PROVE  /\ (\A x \in Acts : ~Busy(x)') => shown' \in chats' /\ current' = shown'
                 /\ \A x \in Acts :
                      /\ act'[x].pc = "post" => act'[x].chat \in chats' \/ (shown' \in chats' /\ current' = shown')
                      /\ act'[x].pc = "switch" => act'[x].chat \in chats' /\ current' = act'[x].chat
                      /\ act'[x].pc = "delete" => shown' \in chats' /\ current' = shown' /\ act'[x].was = shown'
      <4>1. ~Fault /\ faults = 0
        BY <1>0, <1>4, <3>2 DEF ActMoves, Fault
      <4>2. \A x \in Acts : Busy(x) => x = a
        BY <3>0, <3>2 DEF Phases
      <4>3. \A x \in Acts \ {a} : act'[x].pc \notin {"post", "switch", "delete"} /\ ~Busy(x)'
        BY <2>0, <4>2 DEF Busy
      <4>4. misled = FALSE
        BY <1>0, <1>4, <2>2, <3>2, <4>1 DEF ActMoves
      <4>5. /\ act[a].pc = "post" => act[a].chat \in chats \/ (shown \in chats /\ current = shown)
            /\ act[a].pc = "delete" => shown \in chats /\ current = shown /\ act[a].was = shown
        BY <3>0, <3>2, <4>1, <4>4 DEF Phases
      <4>6. /\ ~Busy(a)' => shown' \in chats' /\ current' = shown'
            /\ act'[a].pc = "post" => act'[a].chat \in chats'
            /\ act'[a].pc = "switch" => act'[a].chat \in chats' /\ current' = act'[a].chat
            /\ act'[a].pc # "delete"
        BY <1>4, <2>2, <3>0, <3>2, <4>1, <4>5 DEF ActMoves, Busy
      <4> QED
        BY <4>3, <4>6
    <3> QED
      BY <3>1, <3>2 DEF Phases
  <2> QED
    BY <2>1, <2>2
<1> QED
  BY <1>1, <1>2, <1>3, <1>4, StepKinds, ActsMove DEF QuietStep

-------------------------------------------------------------------------------
\* What is on the screen.

\* The stream that is read is the one ref names, and so are the tokens that wait.
Reading ==
    ~hasty => /\ \A q \in Queries : stream[q] \in Live => ref = q
              /\ ~due => \A q \in Queries : stream[q] \in Live \/ q \in pending => chatOf[q] = shown

\* Histories are loaded one after the other; all but the last are cancelled.
InOrder ==
    /\ \A l, x \in Loads : load[l].pc = "idle" /\ l < x => load[x].pc = "idle"
    /\ \A l \in Loads :
         /\ load[l].pc \in {"sent", "body"} => load[l].chat \in Chats
         /\ \A q \in load[l].items : chatOf[q] # None /\ chatOf[q] = load[l].chat
         /\ load[l].pc = "sent" /\ ~Last(l) => load[l].cancelled
         /\ load[l].pc = "body" /\ ~Last(l) => load[l].torn
         /\ load[l].pc \in {"sent", "body"} /\ Last(l) /\ ~due => load[l].chat = shown

Shows ==
    ~late /\ ~hasty /\ ~due /\ (\E l \in Loads : Last(l) /\ load[l].pc = "applied")
        => \A q \in view : chatOf[q] = shown

\* No operation of the page but a load, a query or a switch touches these.
LEMMA SameReading ==
    ASSUME Reading, UNCHANGED <<shown, due, chatOf, hasty>>, pending' \subseteq pending,
           \A q \in Queries : stream'[q] \in Live => stream[q] \in Live /\ ref' = ref
    PROVE  Reading'
BY DEF Reading, Live

LEMMA ReadingStep == ASSUME TypeOK, Used, Reading, [Next]_vars PROVE Reading'
<1>0. /\ stream \in [Queries -> {"none", "open", "told", "aborted", "over"}]
      /\ chatOf \in [Queries -> Chats \union {None}] /\ streaming \in BOOLEAN /\ due \in BOOLEAN
      /\ hasty \in BOOLEAN /\ None \notin Queries
  BY ChatViewAssumption DEF TypeOK
<1>1. ASSUME NEW l \in Loads, Effects(l) PROVE Reading'
  <2>1. pending' = {} /\ UNCHANGED hasty /\ stream' = [q \in Queries |-> IF q = ref THEN "aborted" ELSE stream[q]]
    BY <1>1 DEF Effects, ghosts
  <2> QED
    BY <1>0, <2>1 DEF Reading, Live
<1>2. ASSUME NEW l \in Loads, Headers(l) \/ LoadFails(l) PROVE Reading'
  BY <1>2, SameReading DEF Headers, LoadFails, screen, ghosts
<1>3. ASSUME NEW l \in Loads, Apply(l) PROVE Reading'
  BY <1>3, SameReading DEF Apply
<1>4. ASSUME NEW q \in Queries, Ask(q) PROVE Reading'
  <2>1. /\ stream' = [stream EXCEPT ![q] = "open"] /\ ref' = q /\ ~due /\ ~streaming
        /\ chatOf' = [chatOf EXCEPT ![q] = shown] /\ UNCHANGED <<shown, pending, due>>
        /\ hasty' = (hasty \/ (~streaming /\ \E x \in Asked : stream[x] # "over"))
    BY <1>4 DEF Ask
  <2>2. ASSUME ~hasty'
        PROVE  ~hasty /\ \A x \in Queries : stream[x] \in {"none", "over"}
    BY <2>1, <2>2 DEF Asked
  <2> QED
    BY <1>0, <2>1, <2>2 DEF Reading, Live
<1>5. ASSUME NEW q \in Queries, Token(q) PROVE Reading'
  BY <1>0, <1>5 DEF Token, Reading, Live, ghosts
<1>6. CASE Flush
  BY <1>6, SameReading DEF Flush, ghosts
<1>7. ASSUME NEW q \in Queries, Told(q) PROVE Reading'
  BY <1>0, <1>7 DEF Told, Reading, Live, ghosts
<1>8. ASSUME NEW q \in Queries, Finally(q) PROVE Reading'
  BY <1>0, <1>8 DEF Finally, Reading, Live, ghosts
<1>9. CASE Cancel
  BY <1>0, <1>9 DEF Cancel, Reading, Live, ghosts
<1>10. CASE UNCHANGED vars
  BY <1>10, SameReading DEF vars, screen, ghosts
<1>11. CASE QuietStep
  BY <1>11, QuietKeeps, SameReading DEF screen
<1>12. ASSUME NEW a \in Acts, Switch(a) PROVE Reading'
  BY <1>0, <1>12 DEF Switch, Reading, ghosts
<1> QED
  BY <1>1, <1>2, <1>3, <1>4, <1>5, <1>6, <1>7, <1>8, <1>9, <1>10, <1>11, <1>12, StepKinds DEF PageStep

LEMMA SameOrder == ASSUME InOrder, UNCHANGED <<load, chatOf, shown, due>> PROVE InOrder'
BY DEF InOrder, Last

\* A load that goes on to another step, with the chat it was for.
LEMMA LoadGoesOn ==
    ASSUME TypeOK, InOrder, NEW l \in Loads, load[l].pc # "idle", NEW new,
           load' = [load EXCEPT ![l] = new], UNCHANGED <<chatOf, shown, due>>,
           \/ /\ new.pc = "body" /\ load[l].pc = "sent" /\ ~load[l].cancelled /\ new.chat = load[l].chat
              /\ \A q \in new.items : chatOf[q] # None /\ chatOf[q] = new.chat
           \/ new.pc \in {"applied", "dropped", "failed"} /\ new.items = {}
    PROVE  InOrder'
<1>0. load'[l] = new /\ \A x \in Loads \ {l} : load'[x] = load[x]
  BY DEF TypeOK
<1>1. \A x \in Loads : (load'[x].pc = "idle" <=> load[x].pc = "idle") /\ (Last(x)' <=> Last(x))
  BY <1>0 DEF Last
<1> QED
  BY <1>0, <1>1 DEF InOrder

LEMMA InOrderStep == ASSUME TypeOK, Used, InOrder, [Next]_vars PROVE InOrder'
<1>0. /\ load \in [Loads -> Load] /\ MaxLoads \in Nat /\ None \notin Chats /\ due \in BOOLEAN
      /\ shown \in Chats /\ chatOf \in [Queries -> Chats \union {None}]
  BY ChatViewAssumption DEF TypeOK
<1>1. ASSUME NEW l \in Loads, Effects(l) PROVE InOrder'
  <2>1. /\ load[l].pc = "idle" /\ \A x \in Loads : x < l => load[x].pc # "idle"
        /\ UNCHANGED <<shown, chatOf>> /\ due' = FALSE
        /\ load' = [x \in Loads |->
              IF x = l THEN [NoLoad("sent") EXCEPT !.chat = shown]
              ELSE IF load[x].pc \in {"sent", "body"}
                   THEN [load[x] EXCEPT !.cancelled = TRUE, !.torn = (load[x].pc = "body")]
                   ELSE load[x]]
    BY <1>1 DEF Effects
  <2>2. load'[l].pc = "sent" /\ load'[l].chat = shown /\ load'[l].items = {}
    BY <2>1 DEF NoLoad
  <2>3. \A x \in Loads \ {l} :
          /\ load'[x].pc = load[x].pc /\ load'[x].chat = load[x].chat /\ load'[x].items = load[x].items
          /\ load[x].pc = "sent" => load'[x].cancelled
          /\ load[x].pc = "body" => load'[x].torn
    <3> TAKE x \in Loads \ {l}
    <3>1. load[x] \in Load
      BY <1>0
    <3>2. CASE load[x].pc \in {"sent", "body"}
      <4>1. load'[x] = [load[x] EXCEPT !.cancelled = TRUE, !.torn = (load[x].pc = "body")]
        BY <2>1, <3>2
      <4> QED
        BY <3>1, <4>1 DEF Load
    <3>3. CASE load[x].pc \notin {"sent", "body"}
      BY <2>1, <3>3
    <3> QED
      BY <3>2, <3>3
  <2>4. \A x \in Loads : x > l => load'[x].pc = "idle"
    BY <2>1, <2>3 DEF InOrder, Loads
  <2>5. \A x \in Loads : x < l => load'[x].pc # "idle"
    BY <2>1, <2>3 DEF Loads
  <2>6. \A x \in Loads : Last(x)' <=> x = l
    BY <2>2, <2>4, <2>5 DEF Last, Loads
  <2>7. \A k, x \in Loads : load'[k].pc = "idle" /\ k < x => load'[x].pc = "idle"
    BY <2>2, <2>4, <2>5 DEF Loads
  <2>8. ASSUME NEW x \in Loads
        PROVE  /\ load'[x].pc \in {"sent", "body"} => load'[x].chat \in Chats
               /\ \A q \in load'[x].items : chatOf'[q] # None /\ chatOf'[q] = load'[x].chat
               /\ load'[x].pc = "sent" /\ x # l => load'[x].cancelled
               /\ load'[x].pc = "body" /\ x # l => load'[x].torn
               /\ load'[x].pc \in {"sent", "body"} /\ x = l => load'[x].chat = shown'
    <3>1. CASE x = l
      BY <1>0, <2>1, <2>2, <3>1
    <3>2. CASE x # l
      <4>1. /\ load[x].pc \in {"sent", "body"} => load[x].chat \in Chats
            /\ \A q \in load[x].items : chatOf[q] # None /\ chatOf[q] = load[x].chat
        BY DEF InOrder
      <4> QED
        BY <2>1, <2>3, <3>2, <4>1
    <3> QED
      BY <3>1, <3>2
  <2> QED
    BY <2>6, <2>7, <2>8 DEF InOrder
<1>2. ASSUME NEW l \in Loads, Headers(l) PROVE InOrder'
  <2>1. load[l].pc = "sent" /\ UNCHANGED <<shown, due, chatOf>>
    BY <1>2 DEF Headers, screen
  <2>2. CASE load[l].cancelled
    BY <1>2, <2>1, <2>2, LoadGoesOn DEF Headers, NoLoad
  <2>3. CASE ~load[l].cancelled
    <3>1. load' = [load EXCEPT ![l] = [load[l] EXCEPT !.pc = "body", !.items = History(load[l].chat)]]
      BY <1>2, <2>3 DEF Headers
    <3>2. \A q \in History(load[l].chat) : chatOf[q] # None /\ chatOf[q] = load[l].chat
      BY <1>0, <2>1 DEF History, Of, InOrder
    <3>3. /\ [load[l] EXCEPT !.pc = "body", !.items = History(load[l].chat)].pc = "body"
          /\ [load[l] EXCEPT !.pc = "body", !.items = History(load[l].chat)].chat = load[l].chat
          /\ [load[l] EXCEPT !.pc = "body", !.items = History(load[l].chat)].items = History(load[l].chat)
      BY <1>0 DEF Load
    <3> QED
      BY <2>1, <2>3, <3>1, <3>2, <3>3, LoadGoesOn
  <2> QED
    BY <2>2, <2>3
<1>3. ASSUME NEW l \in Loads, Apply(l) PROVE InOrder'
  <2>1. load[l].pc # "idle" /\ load' = [load EXCEPT ![l] = NoLoad("applied")] /\ UNCHANGED <<shown, due, chatOf>>
    BY <1>3 DEF Apply
  <2> QED
    BY <2>1, LoadGoesOn DEF NoLoad
<1>4. ASSUME NEW l \in Loads, LoadFails(l) PROVE InOrder'
  <2>1. load[l].pc # "idle" /\ load' = [load EXCEPT ![l] = NoLoad("failed")] /\ UNCHANGED <<shown, due, chatOf>>
    BY <1>4 DEF LoadFails, screen
  <2> QED
    BY <2>1, LoadGoesOn DEF NoLoad
<1>5. ASSUME NEW q \in Queries, Ask(q) PROVE InOrder'
  <2>1. stream[q] = "none" /\ UNCHANGED <<load, shown, due>> /\ chatOf' = [chatOf EXCEPT ![q] = shown]
    BY <1>5 DEF Ask
  <2>2. chatOf[q] = None
    BY <2>1 DEF Used
  <2>3. \A l \in Loads : \A x \in load[l].items : chatOf'[x] # None /\ chatOf'[x] = load[l].chat
    <3> SUFFICES ASSUME NEW l \in Loads, NEW x \in load[l].items PROVE chatOf'[x] # None /\ chatOf'[x] = load[l].chat
      OBVIOUS
    <3>1. x \in Queries /\ chatOf[x] # None /\ chatOf[x] = load[l].chat
      BY <1>0 DEF InOrder, Load
    <3>2. CASE x # q
      BY <1>0, <2>1, <3>1, <3>2
    <3>3. CASE x = q
      BY <2>2, <3>3 DEF InOrder
    <3> QED
      BY <3>2, <3>3
  <2> QED
    BY <2>1, <2>3 DEF InOrder, Last
<1>6. ASSUME NEW q \in Queries, Token(q) \/ Told(q) \/ Finally(q) PROVE InOrder'
  BY <1>6, SameOrder DEF Token, Told, Finally
<1>7. CASE Flush \/ Cancel \/ UNCHANGED vars
  BY <1>7, SameOrder DEF Flush, Cancel, vars, screen
<1>8. CASE QuietStep
  BY <1>8, QuietKeeps, SameOrder DEF screen
<1>9. ASSUME NEW a \in Acts, Switch(a) PROVE InOrder'
  <2>1. /\ UNCHANGED <<load, chatOf>> /\ ~due /\ shown' = act[a].chat /\ due' = (act[a].chat # shown)
    BY <1>9 DEF Switch
  <2>2. ~due' => shown' = shown
    BY <2>1
  <2> QED
    BY <2>1, <2>2 DEF InOrder, Last
<1> QED
  BY <1>1, <1>2, <1>3, <1>4, <1>5, <1>6, <1>7, <1>8, <1>9, StepKinds DEF PageStep

LEMMA ShowsStep ==
    ASSUME TypeOK, Used, Reading, InOrder, Shows, [Next]_vars
    PROVE  Shows'
<1>0. /\ load \in [Loads -> Load] /\ MaxLoads \in Nat /\ due \in BOOLEAN /\ late \in BOOLEAN
      /\ chatOf \in [Queries -> Chats \union {None}] /\ view \subseteq Queries /\ pending \subseteq Queries
  BY ChatViewAssumption DEF TypeOK
<1>1. ASSUME NEW l \in Loads, Effects(l) PROVE Shows'
  <2>1. \A x \in Loads : Last(x)' => load'[x].pc # "applied"
    <3>1. load[l].pc = "idle" /\ load'[l].pc = "sent"
      BY <1>0, <1>1 DEF Effects, NoLoad
    <3>2. \A x \in Loads : x < l => ~Last(x)'
      BY <3>1 DEF Last, Loads
    <3>3. \A x \in Loads : x > l => load'[x].pc = "idle"
      BY <1>0, <1>1, <3>1 DEF Effects, InOrder, Loads
    <3> QED
      BY <3>1, <3>2, <3>3 DEF Last, Loads
  <2> QED
    BY <2>1 DEF Shows
<1>2. ASSUME NEW l \in Loads, Headers(l) \/ LoadFails(l) PROVE Shows'
  <2>1. /\ UNCHANGED <<late, hasty, due, view, chatOf, shown>> /\ load[l].pc # "idle"
        /\ \A x \in Loads \ {l} : load'[x] = load[x]
    BY <1>0, <1>2 DEF Headers, LoadFails, screen, ghosts
  <2>2. load'[l].pc \notin {"idle", "applied"}
    <3>1. CASE LoadFails(l)
      BY <1>0, <3>1 DEF LoadFails, NoLoad
    <3>2. CASE Headers(l) /\ load[l].cancelled
      BY <1>0, <3>2 DEF Headers, NoLoad
    <3>3. CASE Headers(l) /\ ~load[l].cancelled
      <4>1. load'[l] = [load[l] EXCEPT !.pc = "body", !.items = History(load[l].chat)]
        BY <1>0, <3>3 DEF Headers
      <4> QED
        BY <1>0, <4>1 DEF Load
    <3> QED
      BY <1>2, <3>1, <3>2, <3>3
  <2>3. \A x \in Loads : Last(x)' /\ load'[x].pc = "applied" => Last(x) /\ load[x].pc = "applied"
    BY <2>1, <2>2 DEF Last
  <2> QED
    BY <2>1, <2>3 DEF Shows
<1>3. ASSUME NEW l \in Loads, Apply(l) PROVE Shows'
  <2>1. /\ load[l].pc = "body" /\ view' = load[l].items /\ late' = (late \/ load[l].torn)
        /\ UNCHANGED <<chatOf, shown, due>>
    BY <1>3 DEF Apply
  <2>2. ASSUME ~late', ~due' PROVE \A q \in view' : chatOf'[q] = shown'
    <3>1. Last(l)
      BY <2>1, <2>2 DEF InOrder
    <3>2. load[l].chat = shown
      BY <2>1, <2>2, <3>1 DEF InOrder
    <3> QED
      BY <2>1, <3>2 DEF InOrder
  <2> QED
    BY <2>2 DEF Shows
<1>4. ASSUME NEW q \in Queries, Ask(q) PROVE Shows'
  <2>1. /\ view' = view \union {q} /\ UNCHANGED <<shown, due, load, late>>
        /\ chatOf' = [chatOf EXCEPT ![q] = shown]
        /\ ~hasty' => ~hasty
    BY <1>4 DEF Ask
  <2>2. \A x \in Loads : Last(x)' <=> Last(x)
    BY <2>1 DEF Last
  <2> QED
    BY <1>0, <2>1, <2>2 DEF Shows
<1>5. ASSUME UNCHANGED <<late, hasty, due, view, chatOf, shown, load>> PROVE Shows'
  BY <1>5 DEF Shows, Last
<1>6. ASSUME NEW q \in Queries, Token(q) \/ Told(q) \/ Finally(q) PROVE Shows'
  BY <1>5, <1>6 DEF Token, Told, Finally, ghosts
<1>7. CASE Cancel \/ UNCHANGED vars
  BY <1>5, <1>7 DEF Cancel, vars, screen, ghosts
<1>8. CASE Flush
  <2>1. view' = view \union pending /\ UNCHANGED <<shown, due, chatOf, load, late, hasty>>
    BY <1>8 DEF Flush, ghosts
  <2>2. \A x \in Loads : Last(x)' <=> Last(x)
    BY <2>1 DEF Last
  <2> QED
    BY <1>0, <2>1, <2>2 DEF Shows, Reading
<1>9. CASE QuietStep
  BY <1>5, <1>9, QuietKeeps DEF screen
<1>10. ASSUME NEW a \in Acts, Switch(a) PROVE Shows'
  BY <1>10 DEF Switch, Shows
<1> QED
  BY <1>1, <1>2, <1>3, <1>4, <1>6, <1>7, <1>8, <1>9, <1>10, StepKinds DEF PageStep

-------------------------------------------------------------------------------
IInv == TypeOK /\ Used /\ Phases /\ Reading /\ InOrder /\ Shows

LEMMA InitIInv == Init => IInv
<1> SUFFICES ASSUME Init PROVE IInv
  OBVIOUS
<1> USE ChatViewAssumption DEF Init
<1>1. TypeOK
  <2>1. load \in [Loads -> Load] /\ act \in [Acts -> Act]
    BY DEF NoLoad, Load, NoAct, Act
  <2>2. {late, hasty, crossed, misled} \subseteq BOOLEAN
    OBVIOUS
  <2>3. faults \in 0..MaxFaults
    OBVIOUS
  <2>4. /\ kept \in [Queries -> {"not_yet", "stored", "deleted"}]
        /\ chatOf \in [Queries -> Chats \union {None}]
        /\ stream \in [Queries -> {"none", "open", "told", "aborted", "over"}]
    OBVIOUS
  <2>5. chats \subseteq born /\ born \subseteq Chats /\ current \in Chats /\ shown \in Chats
    OBVIOUS
  <2>6. /\ view \subseteq Queries /\ streaming \in BOOLEAN /\ due \in BOOLEAN
        /\ ref = None /\ pending \subseteq Queries
    OBVIOUS
  <2> HIDE DEF Init
  <2> QED
    BY <2>1, <2>2, <2>3, <2>4, <2>5, <2>6 DEF TypeOK
<1>2. Used /\ Phases
  BY DEF Used, Phases, NoAct, Busy
<1>3. Reading /\ InOrder /\ Shows
  BY DEF Reading, InOrder, Shows, NoLoad, Live, Last
<1> QED
  BY <1>1, <1>2, <1>3 DEF IInv

LEMMA TypeStep == ASSUME TypeOK, Used, [Next]_vars PROVE TypeOK'
<1>1. CASE UNCHANGED vars
  BY <1>1 DEF TypeOK, vars, server, screen, ghosts
<1> QED
  BY <1>1, PageTypes, ActTypes DEF Next

LEMMA InvStep == IInv /\ [Next]_vars => IInv'
BY TypeStep, UsedStep, PhasesStep, ReadingStep, InOrderStep, ShowsStep DEF IInv

LEMMA Inductive == Spec => []IInv
BY InitIInv, InvStep, PTL DEF Spec

\* Every variable of the tab and of the server it sees keeps its type, the stream that
\* can be aborted is being read (streamAbortRef), and chats that are shown or gone to are
\* ones that were created.
THEOREM TypeCorrect == Spec => []TypeOK
<1>1. IInv => TypeOK
  BY DEF IInv
<1> QED
  BY <1>1, Inductive, PTL

\* For any queries, loads and switches, a tab reads one stream, of the chat it shows, and
\* can stop it, unless a query was sent before the stream of the last one had ended
\* (handleQuerySubmit, the clean-up of QuerySection's effect).
THEOREM ReadsOneStream == Spec => []OneStream
<1>1. IInv => OneStream
  BY DEF IInv, Reading, OneStream
<1> QED
  BY <1>1, Inductive, PTL

\* For any queries, loads and switches, once the history of the chat that is shown is on
\* the screen, nothing of another chat is, but for the two cases ShowsItsChat names.
THEOREM ShowsOwnChat == Spec => []ShowsItsChat
<1>1. IInv => ShowsItsChat
  BY DEF IInv, Shows, ShowsItsChat
<1> QED
  BY <1>1, Inductive, PTL

\* For any sequence of chat operations that do not overlap, fail or follow an old list, the
\* tab comes to rest on a chat that exists and that the server takes for current
\* (Sidebar.tsx, App.tsx and the handlers of main.py).
THEOREM TabAndServerAgree == Spec => []TabAgrees
<1>1. IInv => TabAgrees
  <2> SUFFICES ASSUME IInv, ~crossed, ~misled, ~(faults > 0), \A a \in Acts : ~Busy(a)
               PROVE  shown \in chats /\ current = shown
    BY DEF TabAgrees
  <2>1. misled = FALSE /\ faults = 0
    BY ChatViewAssumption DEF IInv, TypeOK
  <2> QED
    BY <2>1 DEF IInv, Phases
<1> QED
  BY <1>1, Inductive, PTL

-------------------------------------------------------------------------------
\* While the composer is locked there is a stream whose finally is still to run, and which
\* unlocks it: what ComposerComesBack needs besides fairness.
ComposerIsHeld == streaming => \E q \in Queries : stream[q] \in Live \union {"aborted"}

LEMMA SameComposer == ASSUME ComposerIsHeld, UNCHANGED <<streaming, stream>> PROVE ComposerIsHeld'
BY DEF ComposerIsHeld

LEMMA ComposerStep == ASSUME TypeOK, ComposerIsHeld, [Next]_vars PROVE ComposerIsHeld'
<1>0. stream \in [Queries -> {"none", "open", "told", "aborted", "over"}]
  BY DEF TypeOK
<1>1. ASSUME NEW l \in Loads, Effects(l) PROVE ComposerIsHeld'
  <2>1. stream' = [q \in Queries |-> IF q = ref THEN "aborted" ELSE stream[q]]
    BY <1>1 DEF Effects
  <2>2. UNCHANGED streaming
    BY <1>1 DEF Effects
  <2> QED
    BY <2>1, <2>2 DEF ComposerIsHeld
<1>2. ASSUME NEW l \in Loads, Headers(l) \/ LoadFails(l) PROVE ComposerIsHeld'
  BY <1>2, SameComposer DEF Headers, LoadFails, screen
<1>3. ASSUME NEW q \in Queries, Ask(q) PROVE ComposerIsHeld'
  <2>1. stream'[q] = "open"
    BY <1>0, <1>3 DEF Ask
  <2> QED
    BY <2>1 DEF ComposerIsHeld, Live
<1>4. ASSUME NEW q \in Queries, Token(q) PROVE ComposerIsHeld'
  BY <1>4, SameComposer DEF Token
<1>5. CASE Flush \/ UNCHANGED vars
  BY <1>5, SameComposer DEF Flush, vars, screen
<1>6. CASE Cancel \/ (\E l \in Loads : Apply(l)) \/ \E q \in Queries : Told(q) \/ Finally(q)
  <2>1. streaming' = FALSE
    BY <1>6 DEF Cancel, Apply, Told, Finally
  <2> QED
    BY <2>1 DEF ComposerIsHeld
<1>7. CASE QuietStep
  BY <1>7, QuietKeeps, SameComposer DEF screen
<1>8. ASSUME NEW a \in Acts, Switch(a) PROVE ComposerIsHeld'
  BY <1>8, SameComposer DEF Switch
<1> QED
  BY <1>1, <1>2, <1>3, <1>4, <1>5, <1>6, <1>7, <1>8, StepKinds DEF PageStep

\* For any stops, switches, failures and late histories, a locked composer (isStreaming) has
\* a stream that will unlock it in the finally of handleQuerySubmit: none is locked for good.
THEOREM ComposerHeld == Spec => []ComposerIsHeld
<1>1. Init => ComposerIsHeld
  BY DEF Init, ComposerIsHeld
<1>2. IInv /\ ComposerIsHeld /\ [Next]_vars => ComposerIsHeld'
  BY ComposerStep DEF IInv
<1> QED
  BY <1>1, <1>2, Inductive, PTL DEF Spec
===============================================================================
