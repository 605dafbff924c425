------------------------------- MODULE ChatView -------------------------------
(***************************************************************************)
(* One tab of the front end: the chat it shows, the history it loads, the  *)
(* stream it reads and the chat operations of the side bar (App.tsx,       *)
(* QuerySection.tsx, Sidebar.tsx), with the chat handlers of main.py.      *)
(*                                                                         *)
(* JavaScript runs one callback at a time; a step is a click, an answer,   *)
(* an animation frame or the passive effects of a render.  React runs      *)
(* those effects some time after the render, but before it handles the     *)
(* next click or renders again: due says that they are still to run.  The  *)
(* server is as far as the tab can tell: how a turn is answered and stored *)
(* is ChatTurn's and ChatStore's.                                          *)
(***************************************************************************)
EXTENDS Naturals, FiniteSets

CONSTANTS
    Chats,      \* chat ids
    First,      \* the chat the page load created
    Old,        \* the user's chats from before
    Queries,    \* numbered in the order in which they are asked
    MaxLoads,   \* bound on the histories that are loaded
    Acts,       \* operations of the side bar, numbered likewise
    MaxClicks,  \* bound on queries and operations together
    MaxFaults,  \* bound on requests that fail
    None

ASSUME ChatViewAssumption ==
    /\ First \in Chats /\ Old \subseteq Chats \ {First} /\ MaxFaults \in Nat /\ MaxClicks \in Nat /\ MaxLoads \in Nat
    /\ Queries \subseteq Nat /\ Acts \subseteq Nat
    /\ None \notin Chats \union Queries

VARIABLES
    chats,      \* the user's chats on the server
    born,       \* history: the ids that were ever used
    current,    \* user_preferences.current_chat_id
    kept,       \* per query, is its turn stored on the server
    shown,      \* currentChatId
    view,       \* response: the queries whose question or answer is on the screen
    streaming,  \* isStreaming
    ref,        \* streamAbortRef: the query whose stream it can abort
    pending,    \* pendingTokens: whose tokens wait for an animation frame
    due,        \* are the effects of a change of shown still to run
    chatOf,     \* per query, its chat
    stream,     \* per query, its stream: open, told (done or error was read), aborted, over
    load,       \* per history load, where it is
    act,        \* per operation, where it is
    faults,
    late,       \* history: was a history applied that was cancelled on its way
    hasty,      \* history: did the button allow a query before the last stream had ended
    crossed,    \* history: did two operations of the side bar overlap
    misled      \* history: did the tab go on to a chat of an old list that is gone

Loads == 1..MaxLoads

server == <<chats, born, current, kept>>
screen == <<shown, view, streaming, ref, pending, due>>
ghosts == <<late, hasty, crossed, misled>>
vars == <<server, screen, chatOf, stream, load, act, faults, ghosts>>

Live == {"open", "told"}
Load == [chat : Chats \union {None}, items : SUBSET Queries,
         cancelled : BOOLEAN, torn : BOOLEAN,
         pc : {"idle", "sent", "body", "applied", "dropped", "failed"}]
Act == [chat : Chats \union {None}, was : Chats \union {None}, listed : SUBSET Chats,
        pc : {"idle", "create", "post", "switch", "delete", "list", "clear", "rest", "over"}]

NoLoad(pc) == [chat |-> None, items |-> {}, cancelled |-> FALSE, torn |-> FALSE, pc |-> pc]
NoAct(pc) == [chat |-> None, was |-> None, listed |-> {}, pc |-> pc]

\* createFreshChat has answered and the page shows its chat.
Init ==
    /\ chats = Old \union {First} /\ born = chats /\ current = First
    /\ kept = [q \in Queries |-> "not_yet"]
    /\ shown = First /\ view = {} /\ streaming = FALSE /\ ref = None /\ pending = {} /\ due = TRUE
    /\ chatOf = [q \in Queries |-> None]
    /\ stream = [q \in Queries |-> "none"]
    /\ load = [l \in Loads |-> NoLoad("idle")]
    /\ act = [a \in Acts |-> NoAct("idle")]
    /\ faults = 0 /\ late = FALSE /\ hasty = FALSE /\ crossed = FALSE /\ misled = FALSE

Asked == {q \in Queries : stream[q] # "none"}
Of(c) == {q \in Queries : chatOf[q] = c}
Busy(a) == act[a].pc \notin {"idle", "over"}
Click == Cardinality(Asked) + Cardinality({a \in Acts : act[a].pc # "idle"}) < MaxClicks
Fault == faults < MaxFaults /\ faults' = faults + 1

-------------------------------------------------------------------------------
(* The history effect of QuerySection *)

\* Slip: the reference to the aborted stream is kept.
EffectsKeepRef(l) ==
    /\ due /\ load[l].pc = "idle" /\ \A x \in Loads : x < l => load[x].pc # "idle"
    /\ due' = FALSE
    /\ pending' = {} /\ UNCHANGED ref
    /\ stream' = [q \in Queries |-> IF q = ref THEN "aborted" ELSE stream[q]]
    /\ load' = [load EXCEPT ![l] = [NoLoad("sent") EXCEPT !.chat = shown]]
    /\ UNCHANGED <<server, shown, view, streaming, chatOf, act, faults, ghosts>>

\* The effects of a new shown: the clean-up of the previous chat, then a new load.  A
\* load whose headers are there is past its test of cancelled.
Effects(l) ==
    /\ due /\ load[l].pc = "idle" /\ \A x \in Loads : x < l => load[x].pc # "idle"
    /\ due' = FALSE
    /\ pending' = {} /\ ref' = None
    /\ stream' = [q \in Queries |-> IF q = ref THEN "aborted" ELSE stream[q]]
    /\ load' = [x \in Loads |->
          IF x = l THEN [NoLoad("sent") EXCEPT !.chat = shown]
          ELSE IF load[x].pc \in {"sent", "body"}
               THEN [load[x] EXCEPT !.cancelled = TRUE, !.torn = (load[x].pc = "body")]
               ELSE load[x]]
    /\ UNCHANGED <<server, shown, view, streaming, chatOf, act, faults, ghosts>>

\* get_chat_history: the turns of the chat.  (The partial answer it adds is left out.)
History(c) == {q \in Of(c) : kept[q] = "stored"}

\* Slip: cancelled is not looked at.
HeadersAnyway(l) ==
    /\ load[l].pc = "sent"
    /\ load' = [load EXCEPT ![l].pc = "body", ![l].items = History(load[l].chat)]
    /\ UNCHANGED <<server, screen, chatOf, stream, act, faults, ghosts>>

\* await apiFetch, and the test of cancelled.
Headers(l) ==
    /\ load[l].pc = "sent"
    /\ load' = [load EXCEPT ![l] = IF load[l].cancelled THEN NoLoad("dropped")
                                   ELSE [@ EXCEPT !.pc = "body", !.items = History(load[l].chat)]]
    /\ UNCHANGED <<server, screen, chatOf, stream, act, faults, ghosts>>

\* await res.json(), after which cancelled is not looked at.
Apply(l) ==
    /\ load[l].pc = "body"
    /\ load' = [load EXCEPT ![l] = NoLoad("applied")]
    /\ view' = load[l].items /\ pending' = {} /\ streaming' = FALSE
    /\ late' = (late \/ load[l].torn)
    /\ UNCHANGED <<server, shown, ref, due, chatOf, stream, act, faults, hasty, crossed, misled>>

\* A status that is not ok, or no answer: a banner, and the screen stays.
LoadFails(l) ==
    /\ load[l].pc \in {"sent", "body"} /\ Fault
    /\ load' = [load EXCEPT ![l] = NoLoad("failed")]
    /\ UNCHANGED <<server, screen, chatOf, stream, act, ghosts>>

-------------------------------------------------------------------------------
(* Asking *)

\* Slip: the button works while streaming.
AskAnyTime(q) ==
    /\ stream[q] = "none" /\ (\A x \in Queries : x < q => x \in Asked) /\ ~due
    /\ Click
    /\ streaming' = TRUE /\ ref' = q
    /\ view' = view \union {q}
    /\ stream' = [stream EXCEPT ![q] = "open"]
    /\ chatOf' = [chatOf EXCEPT ![q] = shown]
    /\ hasty' = (hasty \/ (~streaming /\ \E x \in Asked : stream[x] # "over"))
    /\ UNCHANGED <<server, shown, pending, due, load, act, faults, late, crossed, misled>>

\* handleQuerySubmit up to its fetch.
Ask(q) ==
    /\ stream[q] = "none" /\ (\A x \in Queries : x < q => x \in Asked) /\ ~streaming /\ ~due
    /\ Click
    /\ streaming' = TRUE /\ ref' = q
    /\ view' = view \union {q}
    /\ stream' = [stream EXCEPT ![q] = "open"]
    /\ chatOf' = [chatOf EXCEPT ![q] = shown]
    /\ hasty' = (hasty \/ (~streaming /\ \E x \in Asked : stream[x] # "over"))
    /\ UNCHANGED <<server, shown, pending, due, load, act, faults, late, crossed, misled>>

Token(q) ==
    /\ stream[q] = "open"
    /\ pending' = pending \union {q}
    /\ UNCHANGED <<server, shown, view, streaming, ref, due, chatOf, stream, load, act, faults, ghosts>>

\* The animation frame: the tokens join the last answer on the screen.
Flush ==
    /\ pending # {}
    /\ view' = view \union pending
    /\ pending' = {}
    /\ UNCHANGED <<server, shown, streaming, ref, due, chatOf, stream, load, act, faults, ghosts>>

\* A done or an error event.
Told(q) ==
    /\ stream[q] \in Live
    /\ stream' = [stream EXCEPT ![q] = "told"]
    /\ streaming' = FALSE
    /\ UNCHANGED <<server, shown, view, ref, pending, due, chatOf, load, act, faults, ghosts>>

\* Slip: the button comes back only for the stream that can be stopped.
FinallyIfMine(q) ==
    /\ stream[q] \in Live \union {"aborted"}
    /\ stream' = [stream EXCEPT ![q] = "over"]
    /\ ref' = IF ref = q THEN None ELSE ref
    /\ streaming' = (streaming /\ ref # q)
    /\ UNCHANGED <<server, shown, view, pending, due, chatOf, load, act, faults, ghosts>>

\* The response ends or breaks, or its abort arrives: the finally of handleQuerySubmit.
Finally(q) ==
    /\ stream[q] \in Live \union {"aborted"}
    /\ stream' = [stream EXCEPT ![q] = "over"]
    /\ ref' = IF ref = q THEN None ELSE ref
    /\ streaming' = FALSE
    /\ UNCHANGED <<server, shown, view, pending, due, chatOf, load, act, faults, ghosts>>

\* handleCancelStream, offered while streaming.
Cancel ==
    /\ streaming /\ ~due
    /\ stream' = [q \in Queries |-> IF q = ref THEN "aborted" ELSE stream[q]]
    /\ ref' = None /\ streaming' = FALSE
    /\ UNCHANGED <<server, shown, view, pending, due, chatOf, load, act, faults, ghosts>>

\* The server stores the turn, which brings a deleted chat back.
Store(q) ==
    /\ q \in Asked /\ kept[q] = "not_yet"
    /\ kept' = [kept EXCEPT ![q] = "stored"]
    /\ chats' = chats \union {chatOf[q]}
    /\ UNCHANGED <<born, current, screen, chatOf, stream, load, act, faults, ghosts>>

-------------------------------------------------------------------------------
(* Chats: select, new, delete, clear *)

Begin(a, pc, c, was) ==
    /\ act[a].pc = "idle" /\ (\A x \in Acts : x < a => act[x].pc # "idle") /\ ~due /\ Click
    /\ act' = [act EXCEPT ![a] = [chat |-> c, was |-> was, listed |-> {}, pc |-> pc]]
    /\ crossed' = (crossed \/ \E x \in Acts : Busy(x))
    /\ UNCHANGED <<server, screen, chatOf, stream, load, faults, late, hasty, misled>>

\* The rows of the side bar, fetched some time ago: any chat there ever was.
Listed == born

Select(a, c) == c \in Listed /\ Begin(a, "post", c, shown)
New(a) == Begin(a, "create", None, shown)
Delete(a, c) == c \in Listed /\ Begin(a, "delete", c, shown)
Clear(a) == chats # {} /\ Begin(a, "clear", None, shown)

Goes(a, pc) == act' = [act EXCEPT ![a].pc = pc]
Ends(a) == act' = [act EXCEPT ![a] = NoAct("over")]
GoesTo(a, pc, c) == act' = [act EXCEPT ![a].pc = pc, ![a].chat = c]
Elsewhere == <<screen, chatOf, stream, load, ghosts>>

\* A uuid4.
Fresh == CHOOSE c \in Chats : c \notin born

\* create_new_chat, and the end of clear_all_chats: the chat, its metadata and the
\* preference, one after the other.  The tab then selects it.
Create(a) ==
    /\ act[a].pc = "create" /\ born # Chats
    /\ chats' = chats \union {Fresh} /\ born' = born \union {Fresh} /\ current' = Fresh
    /\ GoesTo(a, "post", Fresh)
    /\ UNCHANGED <<kept, faults, Elsewhere>>

CreateBreaks(a) ==
    /\ act[a].pc = "create" /\ born # Chats /\ Fault
    /\ chats' = chats \union {Fresh} /\ born' = born \union {Fresh}
    /\ Ends(a)
    /\ UNCHANGED <<current, kept, Elsewhere>>

\* update_chat_id: 404 for a chat that is not there.
Post(a) ==
    /\ act[a].pc = "post"
    /\ IF act[a].chat \in chats
       THEN current' = act[a].chat /\ Goes(a, "switch")
       ELSE Ends(a) /\ UNCHANGED current
    /\ UNCHANGED <<chats, born, kept, faults, Elsewhere>>

\* The rest of handleChatChange.  Choosing the chat that is shown only empties the screen.
Switch(a) ==
    /\ act[a].pc = "switch" /\ ~due
    /\ act[a].chat # shown => \E l \in Loads : load[l].pc = "idle"
    /\ shown' = act[a].chat /\ view' = {}
    /\ due' = (act[a].chat # shown)
    /\ Ends(a)
    /\ UNCHANGED <<server, streaming, ref, pending, chatOf, stream, load, faults, ghosts>>

\* What is stored is deleted; a turn that is not stored yet will be.
Dropped(q) == IF kept[q] = "not_yet" THEN "not_yet" ELSE "deleted"

\* Slip: the tab stays where it is.
DeleteServerStays(a) ==
    /\ act[a].pc = "delete"
    /\ chats' = chats \ {act[a].chat}
    /\ kept' = [q \in Queries |-> IF chatOf[q] = act[a].chat THEN Dropped(q) ELSE kept[q]]
    /\ Ends(a)
    /\ UNCHANGED <<born, current, faults, Elsewhere>>

\* delete_chat.  The tab goes on if the chat was the one shown when it was clicked.
DeleteServer(a) ==
    LET c == act[a].chat IN
    /\ act[a].pc = "delete"
    /\ chats' = chats \ {c}
    /\ kept' = [q \in Queries |-> IF chatOf[q] = c THEN Dropped(q) ELSE kept[q]]
    /\ IF c \in chats /\ act[a].was = c THEN Goes(a, "list") ELSE Ends(a)
    /\ UNCHANGED <<born, current, faults, Elsewhere>>

\* GET /chats: to the first that remains, or to a new one.  A pod may answer with a list
\* up to a minute old.
List(a) ==
    /\ act[a].pc = "list"
    /\ \E listed \in SUBSET born :
          \/ \E c \in listed : GoesTo(a, "post", c) /\ misled' = (misled \/ c \notin chats)
          \/ listed = {} /\ Goes(a, "create") /\ UNCHANGED misled
    /\ UNCHANGED <<server, faults, screen, chatOf, stream, load, late, hasty, crossed>>

\* clear_all_chats reads the list, maybe such an old one, deletes what is on it one by
\* one, and creates a chat.
ClearList(a) ==
    /\ act[a].pc = "clear"
    /\ \E listed \in SUBSET born :
          act' = [act EXCEPT ![a].pc = IF listed = {} THEN "create" ELSE "rest",
                             ![a].listed = listed]
    /\ UNCHANGED <<server, faults, Elsewhere>>

ClearOne(a) ==
    /\ act[a].pc = "rest"
    /\ \E c \in act[a].listed :
          /\ chats' = chats \ {c}
          /\ kept' = [q \in Queries |-> IF chatOf[q] = c THEN Dropped(q) ELSE kept[q]]
          /\ act' = [act EXCEPT ![a].pc = IF act[a].listed = {c} THEN "create" ELSE "rest",
                                ![a].listed = @ \ {c}]
    /\ UNCHANGED <<born, current, faults, Elsewhere>>

\* A request fails or its answer is lost: the operation ends where it is.
ActFails(a) ==
    /\ act[a].pc \in {"post", "switch", "delete", "list", "clear", "rest"} /\ Fault
    /\ Ends(a)
    /\ UNCHANGED <<server, Elsewhere>>

-------------------------------------------------------------------------------
Next ==
    \/ \E l \in Loads : Effects(l) \/ Headers(l) \/ Apply(l) \/ LoadFails(l)
    \/ \E q \in Queries : Ask(q) \/ Token(q) \/ Told(q) \/ Finally(q) \/ Store(q)
    \/ Flush \/ Cancel
    \/ \E a \in Acts : \/ New(a) \/ Clear(a)
                       \/ \E c \in Chats : Select(a, c) \/ Delete(a, c)
    \/ \E a \in Acts : Create(a) \/ CreateBreaks(a) \/ Post(a) \/ Switch(a) \/ DeleteServer(a)
                       \/ List(a) \/ ClearList(a) \/ ClearOne(a) \/ ActFails(a)

Spec == Init /\ [][Next]_vars

\* Streams end (ChatTurn's EveryStreamEnds, or the abort), and React runs its effects.
FairSpec ==
    /\ Spec
    /\ \A q \in Queries : WF_vars(Finally(q))
    /\ \A l \in Loads : WF_vars(Effects(l))

-------------------------------------------------------------------------------
(* Properties *)

TypeOK ==
    /\ chats \subseteq born /\ born \subseteq Chats /\ current \in Chats
    /\ kept \in [Queries -> {"not_yet", "stored", "deleted"}]
    /\ shown \in Chats
    /\ view \subseteq Queries /\ streaming \in BOOLEAN /\ due \in BOOLEAN
    /\ ref \in Queries \union {None} /\ ref # None => stream[ref] \in Live
    /\ pending \subseteq Queries
    /\ chatOf \in [Queries -> Chats \union {None}]
    /\ stream \in [Queries -> {"none", "open", "told", "aborted", "over"}]
    /\ load \in [Loads -> Load] /\ act \in [Acts -> Act]
    /\ faults \in 0..MaxFaults /\ {late, hasty, crossed, misled} \subseteq BOOLEAN

Last(l) == load[l].pc # "idle" /\ \A x \in Loads : x > l => load[x].pc = "idle"

\* Once the history of the chat that is shown is on the screen, so is nothing of another
\* chat: neither tokens of a stream that was left nor a history that was overtaken
\* (QuerySection.tsx:233-290).  Let off are a history overtaken between its headers and
\* its body, and a query sent before the last stream had ended, which then cannot be
\* aborted: see OneStream.
ShowsItsChat ==
    ~late /\ ~hasty /\ ~due /\ (\E l \in Loads : Last(l) /\ load[l].pc = "applied")
        => \A q \in view : chatOf[q] = shown

\* A tab reads one stream at a time, of the chat it shows, and can stop it
\* (QuerySection.tsx:486, 532-539), as long as no query was sent before the stream of the
\* last one had ended: done, stop and a late history free the button before that.
OneStream ==
    ~hasty /\ ~due =>
        \A q \in Queries : stream[q] \in Live => ref = q /\ chatOf[q] = shown

\* When the side bar has come to rest the tab shows a chat that exists, and it is the one
\* the server takes for current, unless a request failed, two operations overlapped or
\* an old list of chats led it to one that is gone; clearing by an old list does no harm
\* (Sidebar.tsx:400-519, App.tsx:169-185, main.py:717-860).
TabAgrees ==
    crossed \/ misled \/ faults > 0 \/ (\E a \in Acts : Busy(a)) \/ (shown \in chats /\ current = shown)

\* The composer comes back, whatever is stopped, switched or fails.
ComposerComesBack == streaming ~> ~streaming
===============================================================================
