------------------------------ MODULE MCPlatform ------------------------------
(***************************************************************************)
(* Small instances of six parts of the system that share no state: the     *)
(* stream slots of a patient user, the migration of the vector store, the  *)
(* keys of the auth service, the way of a token to the page, the selected  *)
(* model and the name of a chat.  The initial state says which part runs;  *)
(* the others stay where they begin.  Three are extended, with their       *)
(* names, and the others are instances.                                    *)
(***************************************************************************)
EXTENDS VectorMigration, TokenPipe, ModelSelection, Integers, TLC

CONSTANTS p1, p2, o1, o2

VARIABLES
    part,                                                       \* the part that runs
    count, ttl, pc, got, pod, age, linked, lost, credited, tainted,    \* StreamSlots
    published, keys, fresh, loop, req, steady, rotations, fetchFaults, \* Jwks
    alive, row, names, nameOp, renames                          \* ChatNames

slots == <<count, ttl, pc, got, pod, age, linked, lost, credited, tainted>>
jwks == <<published, keys, fresh, loop, req, steady, rotations, fetchFaults>>
naming == <<alive, row, names, nameOp, renames>>
all == <<part, slots, vars, jwks, pipe, model, naming>>

-------------------------------------------------------------------------------
(* The instances. *)

S == INSTANCE StreamSlots WITH
        Streams <- {"s1", "s2", "s3"}, Pods <- {p1}, MaxStreams <- 1, TTL <- 2,
        Lifetime <- 3, MaxFaults <- 1, Prompt <- TRUE, faults <- lost

\* More requests than there are places, next to a release that floors the counter.
R == INSTANCE StreamSlots WITH
        Streams <- {"s1", "s2", "s3", "s4"}, Pods <- {p1}, MaxStreams <- 1, TTL <- 1,
        Lifetime <- 1, MaxFaults <- 0, Prompt <- TRUE, faults <- lost

\* Two keys that are told by their kid, together for a while, and one without.
a1 == [kid |-> "a", mat |-> 1]
b2 == [kid |-> "b", mat |-> 2]
n2 == [kid |-> "", mat |-> 2]
J == INSTANCE Jwks WITH
        Requests <- {"r1", "r2"}, Keys <- {a1, b2, n2}, KeySets <- {{a1}, {a1, b2}, {n2}},
        MaxRotations <- 1, MaxFaults <- 1, cache <- keys, faults <- fetchFaults

\* Three of: a tag, a letter, half a tag, one white space and two.
Pieces == {<<"<", "t", ">">>, <<"<", "/", "t", ">">>, <<"a">>, <<"<">>, <<"<", "/">>,
           <<"nl">>, <<"nl", "nl">>}
Triples == {a \o b \o c : a, b, c \in Pieces}

N == INSTANCE ChatNames WITH
        Pods <- {p1, p2}, Ops <- {o1, o2}, Names <- {"n1", "n2"}, MaxRenames <- 2,
        cache <- names, op <- nameOp

-------------------------------------------------------------------------------
\* A part that does not run has one initial state.
AllInit ==
    /\ part \in {"slots", "crowd", "migration", "jwks", "pipe", "model", "naming"}
    /\ IF part = "crowd" THEN R!Init ELSE S!Init
    /\ Init /\ (part # "migration" => legacy = {} /\ \A o \in DOMAIN op : op[o].pod = p1)
    /\ J!Init /\ (part # "jwks" => published = {a1})
    /\ PipeInit /\ (part # "pipe" => text = <<"a", "a", "a">>)
    /\ ModelInit
    /\ N!Init

\* A step A of one part.
Slots(A) == part = "slots" /\ A /\ UNCHANGED <<part, vars, jwks, pipe, model, naming>>
Crowd(A) == part = "crowd" /\ A /\ UNCHANGED <<part, vars, jwks, pipe, model, naming>>
Migration(A) == part = "migration" /\ A /\ UNCHANGED <<part, slots, jwks, pipe, model, naming>>
Keys(A) == part = "jwks" /\ A /\ UNCHANGED <<part, slots, vars, pipe, model, naming>>
Pipe(A) == part = "pipe" /\ A /\ UNCHANGED <<part, slots, vars, jwks, model, naming>>
Model(A) == part = "model" /\ A /\ UNCHANGED <<part, slots, vars, jwks, pipe, naming>>
Naming(A) == part = "naming" /\ A /\ UNCHANGED <<part, slots, vars, jwks, pipe, model>>

AllNext ==
    \/ Slots(S!PatientNext) \/ Crowd(R!PatientNext) \/ Migration(Next) \/ Keys(J!Next)
    \/ Pipe(PipeNext) \/ Model(ModelNext) \/ Naming(N!Next)

\* PatientSpec of StreamSlots and the Fairness of Jwks and ChatNames, each for its part.
Fairness ==
    /\ \A s \in {"s1", "s2", "s3"} : WF_all(Slots(S!Progress(s)) \/ Crowd(R!Progress(s)))
    /\ WF_all(Crowd(R!Progress("s4")))
    /\ WF_all(Slots(S!Tick /\ S!Taint) \/ Crowd(R!Tick /\ R!Taint))
    /\ WF_all(Slots(S!Arrive /\ S!Patience /\ S!Taint) \/ Crowd(R!Arrive /\ R!Patience /\ R!Taint))
    /\ WF_all(Keys(J!LoopWake)) /\ WF_all(Keys(J!LoopAnswer)) /\ WF_all(Keys(J!LoopDeliver))
    /\ \A o \in {o1, o2} : WF_all(Naming(N!Continue(o)))
    /\ \A p \in {p1, p2} : WF_all(Naming(N!Expire(p)))

FairSpec == AllInit /\ [][AllNext]_all /\ Fairness

-------------------------------------------------------------------------------
\* The types of the parts.
TypesOK == TypeOK /\ J!TypeOK /\ PipeTypeOK /\ ModelTypeOK /\ N!TypeOK

\* cache.py:186-190, a counter below zero does not stay: see StreamSlots.
NegativeHeals == part \in {"slots", "crowd"} => S!NegativeHeals

\* main.py:85-88: see StreamSlots.
PatientUserServed == part = "slots" => S!PatientUserServed

\* auth.py:21-24, tokens of published keys are accepted: see Jwks.
ValidTokenAccepted == J!ValidTokenAccepted

\* auth.py:144-175, the cache comes to hold the provider's keys: see Jwks.
KeysFollowProvider == part = "jwks" => J!KeysFollowProvider

\* postgres_storage.py:758-813, the pods come to show the name of the chat: see ChatNames.
NamesHeal == N!NamesHeal
===============================================================================
