--------------------------- MODULE PodCopies_proofs ---------------------------
(***************************************************************************)
(* Proofs about what a pod has copied and nobody tells it changes of: the  *)
(* keys of the auth service (Jwks) and the names of the chats (ChatNames,  *)
(* as the instance N), for any keys, published sets, requests, pods, names *)
(* and bounds.                                                             *)
(***************************************************************************)
EXTENDS Jwks, FiniteSetTheorems, TLAPS

CONSTANTS Pods, Ops, Names, MaxRenames
VARIABLES alive, row, names, nameOp, renames
N == INSTANCE ChatNames WITH cache <- names, op <- nameOp

\* What the auth service publishes are keys, and there are some.
Sound == KeySets \subseteq SUBSET Keys /\ Keys # {}

\* A request whose token has been good ever since it arrived carries keys that verify it.
Carries ==
    \A r \in Requests : steady[r] /\ req[r].pc \notin Ended =>
        /\ Verifies(published, req[r].token)
        /\ req[r].pc = "answer" /\ req[r].ans # {} => Verifies(req[r].ans, req[r].token)
IInv == TypeOK /\ Carries

Request == [pc : Pcs, stage : 1..3, token : Tokens, ans : KeySets \union {{}}]
Loop == [pc : {"init", "initanswer", "sleep", "sent", "answer"}, ans : KeySets \union {{}}]

-------------------------------------------------------------------------------
\* The first call of a request on a non-empty cache does not turn it down.
LEMMA FirstIsGentle ==
    ASSUME NEW C, NEW t, C # {}
    PROVE  Verdict(C, t, 1).pc \in {"accepted", "wait"}
BY DEF Verdict

\* Keys that verify a token are picked for it.
LEMMA GoodKeysAccept ==
    ASSUME NEW C, NEW t, NEW stage, Verifies(C, t)
    PROVE  Verdict(C, t, stage).pc = "accepted"
<1>1. PICK k \in C : k.mat = t.mat /\ (k.kid = t.kid \/ C = {k})
  BY DEF Verifies
<1>2. k \in Pick(C, t)
  <2>1. CASE k.kid = t.kid
    BY <1>1, <2>1 DEF Pick, Entry
  <2>2. CASE C = {k}
    <3>1. Cardinality(C) = 1
      BY <2>2, FS_Singleton
    <3> QED
      BY <2>2, <3>1 DEF Pick, Entry
  <2> QED
    BY <1>1, <2>1, <2>2
<1> QED
  BY <1>1, <1>2 DEF Verdict

-------------------------------------------------------------------------------
\* The ends of a request, and a request that is over.
LEMMA Ends ==
    /\ Ended \subseteq Pcs /\ {"new", "wait", "sent", "answer"} \subseteq Pcs
    /\ {"new", "wait", "sent", "answer"} \intersect Ended = {}
BY DEF Ended, Pcs
LEMMA BlankType ==
    ASSUME Sound, NEW pc \in Pcs
    PROVE  Blank(pc) \in Request /\ Blank(pc).pc = pc
<1>1. \E t : t \in Tokens
  BY DEF Sound, Tokens
<1>2. (CHOOSE t \in Tokens : TRUE) \in Tokens
  BY <1>1, Zenon
<1> QED
  BY <1>2 DEF Blank, Request

\* What a verdict may be.
LEMMA VerdictType ==
    ASSUME NEW C, NEW t, NEW stage \in 1..3
    PROVE  /\ Verdict(C, t, stage).pc \in Ended \union {"wait"}
           /\ Verdict(C, t, stage).stage \in 1..3
BY DEF Verdict, Ended

\* What a verdict does to its request, and that it leaves the others alone.
LEMMA Judged ==
    ASSUME Sound, req \in [Requests -> Request], NEW r \in Requests, NEW C,
           NEW t \in Tokens, NEW stage \in 1..3, Judge(r, C, t, stage)
    PROVE  /\ req' \in [Requests -> Request]
           /\ \A x \in Requests : x # r => req'[x] = req[x]
           /\ req'[r].pc = Verdict(C, t, stage).pc
           /\ req'[r].pc \notin Ended => req'[r].pc = "wait" /\ req'[r].token = t
<1> DEFINE v == Verdict(C, t, stage)
           new == IF v.pc \in Ended THEN Blank(v.pc)
                  ELSE [pc |-> v.pc, stage |-> v.stage, token |-> t, ans |-> {}]
<1>1. v.pc \in Ended \union {"wait"} /\ v.stage \in 1..3
  BY VerdictType
<1>2. req' = [req EXCEPT ![r] = new]
  BY DEF Judge
<1> HIDE DEF v
<1>3. new \in Request /\ new.pc = v.pc
  BY <1>1, BlankType, Ends DEF Request
<1>4. v.pc \notin Ended => v.pc = "wait" /\ new.token = t
  BY <1>1
<1> HIDE DEF new
<1> QED
  BY <1>1, <1>2, <1>3, <1>4 DEF v

\* The parts of the type invariant.
LEMMA TypeNames ==
    TypeOK <=> /\ req \in [Requests -> Request] /\ loop \in Loop
               /\ published \in KeySets /\ cache \subseteq Keys /\ fresh \in BOOLEAN
               /\ steady \in [Requests -> BOOLEAN] /\ rotations \in Nat /\ faults \in Nat
BY DEF TypeOK, Request, Loop

\* The keys that arrive are keys.
LEMMA StoreType ==
    ASSUME Sound, NEW ans \in KeySets \union {{}}, Store(ans), cache \subseteq Keys, fresh \in BOOLEAN
    PROVE  cache' \subseteq Keys /\ fresh' \in BOOLEAN
BY DEF Sound, Store

\* The invariant at the beginning.
LEMMA Begins == ASSUME Sound PROVE Init => IInv
<1> SUFFICES ASSUME Init PROVE IInv
  OBVIOUS
<1>1. Blank("new") \in Request
  BY BlankType, Ends
<1>2. TypeOK
  BY <1>1, TypeNames DEF Init, Loop
<1>3. Carries
  BY DEF Init, Carries
<1> QED
  BY <1>2, <1>3 DEF IInv

\* One step: the invariant is kept, and no request whose token is good is turned down,
\* unless its own fetch has failed.
TurnedDown(r) == req'[r].pc \in {"rejected", "unavailable"} /\ req[r].pc \notin Ended
Excused(r) == req[r].pc = "answer" /\ (~steady[r] \/ req[r].ans = {})
LEMMA Keeps ==
    ASSUME Sound, IInv, [Next]_vars
    PROVE  IInv' /\ \A r \in Requests : TurnedDown(r) => Excused(r)
<1>0. /\ req \in [Requests -> Request] /\ loop \in Loop
      /\ published \in KeySets /\ cache \subseteq Keys /\ fresh \in BOOLEAN
      /\ steady \in [Requests -> BOOLEAN] /\ rotations \in Nat /\ faults \in Nat
      /\ Carries
  BY TypeNames DEF IInv
<1> DEFINE Kept == IInv' /\ \A r \in Requests : TurnedDown(r) => Excused(r)
<1>F. ASSUME NEW r \in Requests, NEW good \in BOOLEAN, Forget(r, good)
      PROVE  /\ steady' \in [Requests -> BOOLEAN]
             /\ \A x \in Requests : x # r => steady'[x] = steady[x]
             /\ steady'[r] <=> good /\ req'[r].pc \notin Ended
  BY <1>0, <1>F DEF Forget
<1>T. ASSUME req' \in [Requests -> Request], loop' \in Loop, published' \in KeySets,
             cache' \subseteq Keys, fresh' \in BOOLEAN, steady' \in [Requests -> BOOLEAN],
             rotations' \in Nat, faults' \in Nat
      PROVE  TypeOK'
  BY <1>T DEF TypeOK, Request, Loop
<1>L. ASSUME UNCHANGED <<published, req, steady>>, loop' \in Loop, cache' \subseteq Keys,
             fresh' \in BOOLEAN, rotations' \in Nat, faults' \in Nat
      PROVE  Kept
  <2>1. TypeOK'
    BY <1>0, <1>L, <1>T
  <2>2. Carries'
    BY <1>0, <1>L DEF Carries
  <2> QED
    BY <1>L, <2>1, <2>2, Ends DEF IInv, TurnedDown, Ended
<1>1. ASSUME NEW r \in Requests, NEW t \in Tokens, Arrive(r, t) PROVE Kept
  <2> DEFINE good == Verifies(published, t)
  <2>1. /\ req' \in [Requests -> Request]
        /\ \A x \in Requests : x # r => req'[x] = req[x]
        /\ req'[r].pc \in {"accepted", "wait"}
        /\ req'[r].pc \notin Ended => req'[r].pc = "wait" /\ req'[r].token = t
    <3>1. CASE Current
      <4>1. Judge(r, cache, t, 1)
        BY <1>1, <3>1 DEF Arrive
      <4>2. Verdict(cache, t, 1).pc \in {"accepted", "wait"}
        BY <3>1, FirstIsGentle DEF Current
      <4> QED
        BY <1>0, <4>1, <4>2, Judged
    <3>2. CASE ~Current
      BY <1>0, <1>1, <3>2, Ends DEF Arrive, Request
    <3> QED
      BY <3>1, <3>2
  <2>2. /\ steady' \in [Requests -> BOOLEAN]
        /\ \A x \in Requests : x # r => steady'[x] = steady[x]
        /\ steady'[r] <=> good /\ req'[r].pc \notin Ended
    <3>1. good \in BOOLEAN /\ Forget(r, good)
      BY <1>1 DEF Arrive, Verifies
    <3> HIDE DEF good
    <3> QED
      BY <1>F, <3>1
  <2>3. TypeOK'
    BY <1>0, <1>1, <1>T, <2>1, <2>2 DEF Arrive
  <2>4. Carries'
    BY <1>0, <1>1, <2>1, <2>2 DEF Arrive, Carries
  <2> QED
    BY <2>1, <2>3, <2>4, Ends DEF IInv, TurnedDown, Ended
<1>2. ASSUME NEW r \in Requests, Acquire(r) PROVE Kept
  <2>1. /\ req' \in [Requests -> Request]
        /\ \A x \in Requests : x # r => req'[x] = req[x]
        /\ req'[r].pc \in {"accepted", "wait", "sent"}
        /\ req'[r].pc \notin Ended => req'[r].token = req[r].token
    <3>1. CASE req[r].stage = 1 /\ Current
      <4>1. Judge(r, cache, req[r].token, 1) /\ req[r].token \in Tokens
        BY <1>0, <1>2, <3>1 DEF Acquire, Request
      <4>2. Verdict(cache, req[r].token, 1).pc \in {"accepted", "wait"}
        BY <3>1, FirstIsGentle DEF Current
      <4> QED
        BY <1>0, <4>1, <4>2, Judged
    <3>2. CASE ~(req[r].stage = 1 /\ Current)
      BY <1>0, <1>2, <3>2, Ends DEF Acquire, Request
    <3> QED
      BY <3>1, <3>2
  <2>2. /\ steady' \in [Requests -> BOOLEAN]
        /\ \A x \in Requests : x # r => steady'[x] = steady[x]
        /\ steady'[r] <=> steady[r] /\ req'[r].pc \notin Ended
    <3>1. steady[r] \in BOOLEAN /\ Forget(r, steady[r])
      BY <1>0, <1>2 DEF Acquire
    <3> QED
      BY <1>F, <3>1
  <2>3. TypeOK'
    BY <1>0, <1>2, <1>T, <2>1, <2>2 DEF Acquire
  <2>4. req[r].pc = "wait"
    BY <1>2 DEF Acquire
  <2>5. Carries'
    BY <1>0, <1>2, <2>1, <2>2, <2>4, Ends DEF Acquire, Carries
  <2> QED
    BY <2>1, <2>3, <2>5, Ends DEF IInv, TurnedDown, Ended
<1>3. ASSUME NEW r \in Requests, Answer(r) PROVE Kept
  <2>1. PICK ans \in {published, {}} :
          Answers(ans) /\ req' = [req EXCEPT ![r].pc = "answer", ![r].ans = ans]
    BY <1>3 DEF Answer
  <2>2. /\ req' \in [Requests -> Request]
        /\ \A x \in Requests : x # r => req'[x] = req[x]
        /\ req'[r].pc = "answer" /\ req'[r].ans = ans /\ req'[r].token = req[r].token
    BY <1>0, <2>1, Ends DEF Request
  <2>3. req[r].pc = "sent" /\ UNCHANGED <<published, cache, fresh, loop, steady, rotations>>
    BY <1>3 DEF Answer
  <2>4. faults' \in Nat
    BY <1>0, <2>1 DEF Answers
  <2>5. TypeOK'
    BY <1>0, <1>T, <2>2, <2>3, <2>4
  <2>6. Carries'
    BY <1>0, <2>2, <2>3, Ends DEF Carries
  <2> QED
    BY <2>2, <2>5, <2>6 DEF IInv, TurnedDown, Ended
<1>4. ASSUME NEW r \in Requests, Deliver(r) PROVE Kept
  <2> DEFINE t == req[r].token
             stage == req[r].stage
             C == cache'
  <2>1. /\ req[r].pc = "answer" /\ Store(req[r].ans) /\ Judge(r, C, t, stage)
        /\ Forget(r, steady[r]) /\ UNCHANGED <<published, loop, rotations, faults>>
    BY <1>4 DEF Deliver
  <2>2. t \in Tokens /\ stage \in 1..3 /\ req[r].ans \in KeySets \union {{}}
    BY <1>0 DEF Request
  <2>3. cache' \subseteq Keys /\ fresh' \in BOOLEAN
    BY <1>0, <2>1, <2>2, StoreType
  <2>4. /\ req' \in [Requests -> Request]
        /\ \A x \in Requests : x # r => req'[x] = req[x]
        /\ req'[r].pc = Verdict(C, t, stage).pc
        /\ req'[r].pc \notin Ended => req'[r].pc = "wait" /\ req'[r].token = t
    <3> HIDE DEF C, t, stage
    <3> QED
      BY <1>0, <2>1, <2>2, Judged
  <2>5. /\ steady' \in [Requests -> BOOLEAN]
        /\ \A x \in Requests : x # r => steady'[x] = steady[x]
        /\ steady'[r] <=> steady[r] /\ req'[r].pc \notin Ended
    <3>1. steady[r] \in BOOLEAN
      BY <1>0
    <3> QED
      BY <1>F, <2>1, <3>1
  <2>6. TypeOK'
    BY <1>0, <1>T, <2>1, <2>3, <2>4, <2>5
  <2>7. Carries'
    BY <1>0, <2>1, <2>4, <2>5, Ends DEF Carries
  <2>8. TurnedDown(r) => Excused(r)
    <3> SUFFICES ASSUME steady[r], req[r].ans # {} PROVE req'[r].pc = "accepted"
      BY <2>1 DEF TurnedDown, Excused
    <3>1. C = req[r].ans /\ Verifies(C, t)
      BY <1>0, <2>1, Ends DEF Store, Carries
    <3>2. Verdict(C, t, stage).pc = "accepted"
      BY <3>1, GoodKeysAccept
    <3> QED
      BY <2>4, <3>2
  <2>9. \A x \in Requests : x # r => ~TurnedDown(x)
    BY <2>4, Ends DEF TurnedDown, Ended
  <2> QED
    BY <2>6, <2>7, <2>8, <2>9 DEF IInv
<1>5. ASSUME LoopWake PROVE Kept
  BY <1>0, <1>5, <1>L DEF LoopWake, Loop
<1>6. ASSUME LoopAnswer PROVE Kept
  <2>1. loop' \in Loop /\ faults' \in Nat
    BY <1>0, <1>6 DEF LoopAnswer, Answers, Loop
  <2> QED
    BY <1>0, <1>6, <1>L, <2>1 DEF LoopAnswer
<1>7. ASSUME LoopDeliver PROVE Kept
  <2>1. cache' \subseteq Keys /\ fresh' \in BOOLEAN
    BY <1>0, <1>7, StoreType DEF LoopDeliver, Loop
  <2>2. loop' \in Loop
    BY <1>7 DEF LoopDeliver, Loop
  <2> QED
    BY <1>0, <1>7, <1>L, <2>1, <2>2 DEF LoopDeliver
<1>8. ASSUME Age PROVE Kept
  BY <1>0, <1>8, <1>L DEF Age
<1>9. ASSUME NEW P \in KeySets, Rotate(P) PROVE Kept
  <2>1. /\ published' = P /\ rotations' = rotations + 1
        /\ steady' = [r \in Requests |-> steady[r] /\ Verifies(P, req[r].token)]
        /\ UNCHANGED <<cache, fresh, loop, req, faults>>
    BY <1>9 DEF Rotate
  <2>2. \A r \in Requests : Verifies(P, req[r].token) \in BOOLEAN
    BY DEF Verifies
  <2>3. steady' \in [Requests -> BOOLEAN]
    BY <1>0, <2>1, <2>2
  <2>4. TypeOK'
    BY <1>0, <1>T, <2>1, <2>3
  <2>5. Carries'
    BY <1>0, <2>1 DEF Carries
  <2> QED
    BY <2>1, <2>4, <2>5 DEF IInv, TurnedDown, Ended
<1>10. CASE UNCHANGED vars
  BY <1>0, <1>10, <1>L DEF vars
<1> QED
  BY <1>1, <1>2, <1>3, <1>4, <1>5, <1>6, <1>7, <1>8, <1>9, <1>10 DEF Next

-------------------------------------------------------------------------------
\* Every variable keeps its type.
THEOREM TypeCorrect == ASSUME Sound PROVE Spec => []TypeOK
<1>1. IInv => TypeOK
  BY DEF IInv
<1> QED
  BY <1>1, Begins, Keeps, PTL DEF Spec

\* A token whose key is published from the request's arrival on is turned down only by a
\* request whose own fetch has just failed (auth.py:21-24, 77-256), for any keys, rotations
\* and number of requests.
THEOREM AcceptsValid == ASSUME Sound PROVE Spec => ValidTokenAccepted
<1> DEFINE Gentle == \A r \in Requests : TurnedDown(r) => Excused(r)
<1>1. IInv /\ [Next]_vars => IInv' /\ [Gentle]_vars
  BY Keeps
<1>2. Gentle => \A r \in Requests :
        req'[r].pc \in {"rejected", "unavailable"} /\ req[r].pc \notin Ended =>
          req[r].pc = "answer" /\ (~steady[r] \/ req[r].ans = {})
  BY DEF TurnedDown, Excused
<1>3. ASSUME [Gentle]_vars
      PROVE  [\A r \in Requests :
                req'[r].pc \in {"rejected", "unavailable"} /\ req[r].pc \notin Ended =>
                  req[r].pc = "answer" /\ (~steady[r] \/ req[r].ans = {})]_vars
  BY <1>2, <1>3
<1> QED
  BY <1>1, <1>3, Begins, PTL DEF Spec, ValidTokenAccepted
-------------------------------------------------------------------------------
(* The safety under KeysFollowProvider. *)

\* Nothing is under way but failures and what the auth service publishes now.
NothingOld ==
    /\ \A r \in Requests : req[r].pc = "answer" => req[r].ans \in {published, {}}
    /\ loop.pc \in {"initanswer", "answer"} => loop.ans \in {published, {}}

\* Then none becomes old, and the cache changes only to the keys that are published.
Follows == NothingOld' /\ cache' \in {cache, published}

\* One step that is not a rotation.
LEMMA FollowsStep ==
    ASSUME Sound, IInv, NothingOld, [Next]_vars, published' = published
    PROVE  Follows
<1>0. req \in [Requests -> Request] /\ loop \in Loop
  BY TypeNames DEF IInv
<1>S. ASSUME NEW ans \in {published, {}}, Store(ans)
      PROVE  cache' \in {cache, published}
  BY <1>S DEF Store
<1>J. ASSUME NEW r \in Requests, NEW C, NEW stage \in 1..3, NEW t \in Tokens, Judge(r, C, t, stage),
             UNCHANGED loop
      PROVE  NothingOld'
  <2>1. /\ \A x \in Requests : x # r => req'[x] = req[x]
        /\ req'[r].pc = Verdict(C, t, stage).pc
    BY <1>0, <1>J, Judged
  <2>2. req'[r].pc # "answer"
    BY <2>1, VerdictType DEF Ended
  <2> QED
    BY <1>J, <2>1, <2>2 DEF NothingOld
<1>L. ASSUME UNCHANGED req, loop'.pc \notin {"initanswer", "answer"} \/ loop'.ans \in {published, {}}
      PROVE  NothingOld'
  BY <1>L DEF NothingOld
<1>1. ASSUME NEW r \in Requests, NEW t \in Tokens, Arrive(r, t) PROVE Follows
  <2>1. UNCHANGED <<cache, loop>>
    BY <1>1 DEF Arrive
  <2>2. NothingOld'
    <3>1. CASE Current
      BY <1>1, <1>J, <2>1, <3>1 DEF Arrive
    <3>2. CASE ~Current
      <4>1. /\ \A x \in Requests : x # r => req'[x] = req[x]
            /\ req'[r].pc = "wait"
        BY <1>0, <1>1, <3>2 DEF Arrive, Request
      <4> QED
        BY <2>1, <4>1 DEF NothingOld
    <3> QED
      BY <3>1, <3>2
  <2> QED
    BY <2>1, <2>2 DEF Follows
<1>2. ASSUME NEW r \in Requests, Acquire(r) PROVE Follows
  <2>1. UNCHANGED <<cache, loop>> /\ req[r].token \in Tokens
    BY <1>0, <1>2 DEF Acquire, Request
  <2>2. NothingOld'
    <3>1. CASE req[r].stage = 1 /\ Current
      BY <1>2, <1>J, <2>1, <3>1 DEF Acquire
    <3>2. CASE ~(req[r].stage = 1 /\ Current)
      <4>1. /\ \A x \in Requests : x # r => req'[x] = req[x]
            /\ req'[r].pc = "sent"
        BY <1>0, <1>2, <3>2 DEF Acquire, Request
      <4> QED
        BY <2>1, <4>1 DEF NothingOld
    <3> QED
      BY <3>1, <3>2
  <2> QED
    BY <2>1, <2>2 DEF Follows
<1>3. ASSUME NEW r \in Requests, Answer(r) PROVE Follows
  <2>1. PICK ans \in {published, {}} : req' = [req EXCEPT ![r].pc = "answer", ![r].ans = ans]
    BY <1>3 DEF Answer
  <2>2. /\ \A x \in Requests : x # r => req'[x] = req[x]
        /\ req'[r].ans = ans
    BY <1>0, <2>1 DEF Request
  <2>3. UNCHANGED <<cache, loop>>
    BY <1>3 DEF Answer
  <2> QED
    BY <2>2, <2>3 DEF NothingOld, Follows
<1>4. ASSUME NEW r \in Requests, Deliver(r) PROVE Follows
  <2>1. /\ req[r].ans \in {published, {}} /\ Store(req[r].ans) /\ UNCHANGED loop
        /\ Judge(r, cache', req[r].token, req[r].stage)
    BY <1>4 DEF Deliver, NothingOld
  <2>2. req[r].token \in Tokens /\ req[r].stage \in 1..3
    BY <1>0 DEF Request
  <2> QED
    BY <1>J, <1>S, <2>1, <2>2 DEF Follows
<1>5. ASSUME LoopWake PROVE Follows
  <2>1. UNCHANGED <<cache, req>> /\ loop'.pc = "sent"
    BY <1>0, <1>5 DEF LoopWake, Loop
  <2> QED
    BY <1>L, <2>1 DEF Follows
<1>6. ASSUME LoopAnswer PROVE Follows
  <2>1. UNCHANGED <<cache, req>> /\ loop'.ans \in {published, {}}
    BY <1>6 DEF LoopAnswer
  <2> QED
    BY <1>L, <2>1 DEF Follows
<1>7. ASSUME LoopDeliver PROVE Follows
  <2>1. /\ loop.ans \in {published, {}} /\ Store(loop.ans)
        /\ loop'.pc = "sleep" /\ UNCHANGED req
    BY <1>7 DEF LoopDeliver, NothingOld
  <2> QED
    BY <1>L, <1>S, <2>1 DEF Follows
<1>8. CASE Age \/ UNCHANGED vars
  BY <1>8 DEF Age, vars, NothingOld, Follows
<1>9. ASSUME NEW P \in KeySets, Rotate(P) PROVE Follows
  BY <1>9 DEF Rotate
<1> QED
  BY <1>1, <1>2, <1>3, <1>4, <1>5, <1>6, <1>7, <1>8, <1>9 DEF Next

\* Between two rotations: once no answer from before the last one is on its way, to
\* a request or to the loop, none ever is, the cache takes over nothing but the published
\* keys, and once it holds them it keeps them (auth.py:77-157). What KeysFollowProvider needs besides is the fairness.
THEOREM KeysStayRight ==
    ASSUME Sound
    PROVE  Spec => [][NothingOld /\ published' = published =>
                        NothingOld' /\ cache' \in {cache, published}]_vars
<1>1. IInv /\ [Next]_vars => IInv' /\ [NothingOld /\ published' = published => Follows]_vars
  BY Keeps, FollowsStep
<1>2. ASSUME [NothingOld /\ published' = published => Follows]_vars
      PROVE  [NothingOld /\ published' = published =>
                NothingOld' /\ cache' \in {cache, published}]_vars
  BY <1>2 DEF Follows
<1> QED
  BY <1>1, <1>2, Begins, PTL DEF Spec

-------------------------------------------------------------------------------
(* The names of the chats. *)

\* There is a pod; "none" stands for no row and is no name.
Named == Pods # {} /\ "none" \notin Names

NameOps == [pc : {"idle", "fill", "owned", "write", "put", "drop"},
            pod : Pods, name : Names \union {N!Default}]

\* The parts of the type invariant.
LEMMA NameTypes ==
    N!TypeOK <=> /\ alive \in BOOLEAN /\ row \in Names \union {"none"}
                 /\ names \in [Pods -> Names \union {N!Default, "miss"}]
                 /\ nameOp \in [Ops -> NameOps] /\ renames \in Nat
BY DEF N!TypeOK, NameOps

\* What a rename is about to write is a name the user gave; the types alone would let it
\* write the id.
Given == \A o \in Ops : nameOp[o].pc \in {"owned", "write"} => nameOp[o].name \in Names
NameInv == N!TypeOK /\ Given

\* The invariant at the beginning.
LEMMA NamesBegin == ASSUME Named PROVE N!Init => NameInv
<1> SUFFICES ASSUME N!Init PROVE NameInv
  OBVIOUS
<1>1. (CHOOSE p \in Pods : TRUE) \in Pods
  BY Zenon DEF Named
<1>2. nameOp \in [Ops -> NameOps]
  BY <1>1 DEF N!Init, NameOps
<1>3. Given
  BY DEF N!Init, Given
<1> QED
  BY <1>2, <1>3, NameTypes DEF N!Init, NameInv

\* Nothing on its way into a cache is older than the row.
NoOldName == \A o \in Ops : nameOp[o].pc \in {"put", "fill"} => nameOp[o].name = N!Shown

\* Then it stays so, and a cache changes only to the name that is shown, or to none.
NamesFollow ==
    /\ NoOldName'
    /\ \A p \in Pods : names'[p] \in {names[p], "miss", N!Shown}

\* What a request becomes, and that the others are left alone.
OnlyOf(o) == nameOp' \in [Ops -> NameOps] /\ \A x \in Ops : x # o => nameOp'[x] = nameOp[x]

\* One step: the invariant is kept, and as long as the row is, what is old does not come back.
LEMMA NamesStep ==
    ASSUME Named, NameInv, [N!Next]_(N!vars)
    PROVE  NameInv' /\ (NoOldName /\ row' = row => NamesFollow)
<1>0. /\ alive \in BOOLEAN /\ row \in Names \union {"none"}
      /\ names \in [Pods -> Names \union {N!Default, "miss"}]
      /\ nameOp \in [Ops -> NameOps] /\ renames \in Nat
      /\ Given
  BY NameTypes DEF NameInv
<1> DEFINE Kept == NameInv' /\ (NoOldName /\ row' = row => NamesFollow)
<1>S. N!Shown \in Names \union {N!Default} /\ (row' = row => N!Shown' = N!Shown)
  BY <1>0 DEF N!Shown
<1>T. ASSUME alive' \in BOOLEAN, row' \in Names \union {"none"},
             names' \in [Pods -> Names \union {N!Default, "miss"}],
             nameOp' \in [Ops -> NameOps], renames' \in Nat
      PROVE  N!TypeOK'
  BY <1>T DEF N!TypeOK, NameOps, N!Default
\* A step of one request that puts nothing into a cache.
<1>Q. ASSUME NEW o \in Ops, OnlyOf(o), UNCHANGED names, alive' \in BOOLEAN,
             row' \in Names \union {"none"}, renames' \in Nat,
             row' = row /\ nameOp'[o].pc \in {"put", "fill"} => nameOp'[o].name = N!Shown,
             nameOp'[o].pc \in {"owned", "write"} => nameOp'[o].name \in Names
      PROVE  Kept
  <2>1. NameInv'
    <3>1. N!TypeOK'
      BY <1>0, <1>Q, <1>T DEF OnlyOf
    <3>2. Given'
      BY <1>0, <1>Q DEF OnlyOf, Given
    <3> QED
      BY <3>1, <3>2 DEF NameInv
  <2>2. ASSUME NoOldName, row' = row PROVE NamesFollow
    BY <1>S, <1>Q, <2>2 DEF OnlyOf, NoOldName, NamesFollow
  <2> QED
    BY <2>1, <2>2
<1>1. ASSUME NEW o \in Ops, NEW p \in Pods, N!Read(o, p) PROVE Kept
  <2>1. nameOp' = [nameOp EXCEPT ![o] = [pc |-> "fill", pod |-> p, name |-> N!Shown]]
    BY <1>1 DEF N!Read, N!Become
  <2>2. OnlyOf(o) /\ nameOp'[o].name = N!Shown /\ nameOp'[o].pc = "fill"
    BY <1>0, <1>S, <2>1 DEF OnlyOf, NameOps
  <2> QED
    BY <1>0, <1>1, <1>Q, <2>2 DEF N!Read
<1>2. ASSUME NEW o \in Ops, NEW p \in Pods, N!Delete(o, p) PROVE Kept
  <2>1. nameOp' = [nameOp EXCEPT ![o] = [pc |-> "drop", pod |-> p, name |-> N!Default]]
    BY <1>2 DEF N!Delete, N!Become
  <2>2. OnlyOf(o) /\ nameOp'[o].pc = "drop"
    BY <1>0, <2>1 DEF OnlyOf, NameOps
  <2> QED
    BY <1>0, <1>2, <1>Q, <2>2 DEF N!Delete
<1>3. ASSUME NEW o \in Ops, NEW p \in Pods, NEW n \in Names, N!Rename(o, p, n) PROVE Kept
  <2>1. \/ nameOp' = [nameOp EXCEPT ![o] = [pc |-> "owned", pod |-> p, name |-> n]]
        \/ nameOp' = nameOp
    BY <1>3 DEF N!Rename, N!Become
  <2>2. /\ OnlyOf(o) /\ nameOp'[o].pc \in {"owned", "idle"}
        /\ nameOp'[o].pc = "owned" => nameOp'[o].name \in Names
    BY <1>0, <1>3, <2>1 DEF OnlyOf, NameOps, N!Rename
  <2> QED
    BY <1>0, <1>3, <1>Q, <2>2 DEF N!Rename
<1>G. ASSUME NEW o \in Ops, NEW pc \in {"idle", "write", "put"}, N!Goto(o, pc)
      PROVE  OnlyOf(o) /\ nameOp'[o].pc = pc /\ nameOp'[o].name = nameOp[o].name
  BY <1>0, <1>G DEF N!Goto, OnlyOf, NameOps
<1>4. ASSUME NEW o \in Ops, N!CheckOwned(o) PROVE Kept
  <2>1. OnlyOf(o) /\ nameOp'[o].pc \in {"write", "idle"} /\ nameOp'[o].name \in Names
    BY <1>0, <1>4, <1>G DEF N!CheckOwned, Given
  <2> QED
    BY <1>0, <1>4, <1>Q, <2>1 DEF N!CheckOwned
<1>5. ASSUME NEW o \in Ops, N!Write(o) PROVE Kept
  <2>1. nameOp[o] \in NameOps /\ nameOp[o].name \in Names
    BY <1>0, <1>5 DEF N!Write, Given
  <2>2. CASE alive
    <3>1. OnlyOf(o) /\ nameOp'[o].pc = "put" /\ nameOp'[o].name = nameOp[o].name
      BY <1>5, <1>G, <2>2 DEF N!Write
    <3>2. row' = nameOp[o].name /\ UNCHANGED <<alive, names, renames>>
      BY <1>5, <2>2 DEF N!Write
    <3>3. row' = row => nameOp'[o].name = N!Shown
      BY <1>S, <2>1, <3>1, <3>2 DEF Named, N!Shown, NameOps, N!Default
    <3>4. row' \in Names \union {"none"}
      BY <2>1, <3>2
    <3> QED
      BY <1>0, <1>Q, <3>1, <3>2, <3>3, <3>4
  <2>3. CASE ~alive
    <3>1. OnlyOf(o) /\ nameOp'[o].pc = "idle"
      BY <1>5, <1>G, <2>3 DEF N!Write
    <3> QED
      BY <1>0, <1>5, <1>Q, <2>3, <3>1 DEF N!Write
  <2> QED
    BY <1>0, <2>2, <2>3
<1>6. ASSUME NEW o \in Ops, N!Put(o) PROVE Kept
  <2>1. OnlyOf(o) /\ nameOp'[o].pc = "idle"
    BY <1>6, <1>G DEF N!Put
  <2>2. nameOp[o] \in NameOps /\ nameOp[o].pc \in {"put", "fill"}
    BY <1>0, <1>6 DEF N!Put
  <2>3. /\ names' = [names EXCEPT ![nameOp[o].pod] = nameOp[o].name]
        /\ UNCHANGED <<alive, row, renames>>
    BY <1>6 DEF N!Put
  <2>4. NameInv'
    <3>1. N!TypeOK'
      BY <1>0, <1>T, <2>1, <2>2, <2>3 DEF OnlyOf, NameOps
    <3>2. Given'
      BY <1>0, <2>1 DEF OnlyOf, Given
    <3> QED
      BY <3>1, <3>2 DEF NameInv
  <2>5. ASSUME NoOldName PROVE NamesFollow
    <3>1. nameOp[o].name = N!Shown
      BY <2>2, <2>5 DEF NoOldName
    <3>2. NoOldName'
      BY <1>S, <2>1, <2>3, <2>5 DEF NoOldName, OnlyOf
    <3> QED
      BY <1>0, <2>3, <3>1, <3>2 DEF NamesFollow
  <2> QED
    BY <2>4, <2>5
<1>7. ASSUME NEW o \in Ops, N!Invalidate(o) PROVE Kept
  <2>1. OnlyOf(o) /\ nameOp'[o].pc = "idle"
    BY <1>7, <1>G DEF N!Invalidate
  <2>2. nameOp[o] \in NameOps
    BY <1>0
  <2>3. /\ names' = [names EXCEPT ![nameOp[o].pod] = "miss"]
        /\ UNCHANGED <<alive, row, renames>>
    BY <1>7 DEF N!Invalidate
  <2>4. NameInv'
    <3>1. N!TypeOK'
      BY <1>0, <1>T, <2>1, <2>2, <2>3 DEF OnlyOf, NameOps
    <3>2. Given'
      BY <1>0, <2>1 DEF OnlyOf, Given
    <3> QED
      BY <3>1, <3>2 DEF NameInv
  <2>5. ASSUME NoOldName PROVE NamesFollow
    <3>1. NoOldName'
      BY <1>S, <2>1, <2>3, <2>5 DEF NoOldName, OnlyOf
    <3> QED
      BY <1>0, <2>3, <3>1 DEF NamesFollow
  <2> QED
    BY <2>4, <2>5
<1>8. ASSUME NEW o \in Ops, N!Fail(o) PROVE Kept
  <2>1. OnlyOf(o) /\ nameOp'[o].pc = "idle"
    BY <1>8, <1>G DEF N!Fail
  <2> QED
    BY <1>0, <1>8, <1>Q, <2>1 DEF N!Fail
<1>9. ASSUME NEW p \in Pods, N!Expire(p) PROVE Kept
  <2>1. names' = [names EXCEPT ![p] = "miss"] /\ UNCHANGED <<alive, row, nameOp, renames>>
    BY <1>9 DEF N!Expire
  <2>2. NameInv'
    BY <1>0, <1>T, <2>1 DEF NameInv, Given
  <2>3. ASSUME NoOldName PROVE NamesFollow
    BY <1>0, <1>S, <2>1, <2>3 DEF NoOldName, NamesFollow
  <2> QED
    BY <2>2, <2>3
<1>10. CASE UNCHANGED N!vars
  BY <1>0, <1>10, <1>S, <1>T DEF N!vars, NoOldName, NamesFollow, NameInv, Given
<1> QED
  BY <1>1, <1>2, <1>3, <1>4, <1>5, <1>6, <1>7, <1>8, <1>9, <1>10 DEF N!Next, N!Continue

\* Every variable keeps its type; a pod shows only names the user gave, or the id.
THEOREM NamesTypeCorrect == ASSUME Named PROVE N!Spec => []N!TypeOK
<1>1. NameInv => N!TypeOK
  BY DEF NameInv
<1> QED
  BY <1>1, NamesBegin, NamesStep, PTL DEF N!Spec

\* Between two changes of the row: once no name from before the last one is on its way into
\* a cache, none ever is, and whatever requests read, rename, fail or expire, a pod takes over
\* nothing but the name in the database, so that one that shows it goes on to
\* (postgres_storage.py:758-813). What NamesHeal needs besides is that caches expire.
THEOREM NamesStayRight ==
    ASSUME Named
    PROVE  N!Spec => [][NoOldName /\ row' = row =>
                          /\ NoOldName'
                          /\ \A p \in Pods : names'[p] \in {names[p], "miss", N!Shown}]_(N!vars)
<1>1. NameInv /\ [N!Next]_(N!vars) =>
        NameInv' /\ [NoOldName /\ row' = row => NamesFollow]_(N!vars)
  BY NamesStep
<1>2. ASSUME [NoOldName /\ row' = row => NamesFollow]_(N!vars)
      PROVE  [NoOldName /\ row' = row =>
                /\ NoOldName'
                /\ \A p \in Pods : names'[p] \in {names[p], "miss", N!Shown}]_(N!vars)
  BY <1>2 DEF NamesFollow
<1> QED
  BY <1>1, <1>2, NamesBegin, PTL DEF N!Spec
===============================================================================
