-------------------------------- MODULE Jwks --------------------------------
(***************************************************************************)
(* Verification of tokens against the keys of the auth service             *)
(* (auth.py:77-256) in one pod: a cache of keys by kid, filled at start-up,*)
(* by a loop that fetches at an interval, and by requests, which fetch     *)
(* under a lock when the cache is stale, when they meet an unknown kid and *)
(* when a signature does not match.  The loop takes no lock, so answers of *)
(* different ages may arrive in any order.                                 *)
(*                                                                         *)
(* A key is a record [kid, mat]; mat stands for the key material, and ""   *)
(* for a missing kid.  An answer with no usable key and a failed call have *)
(* the same effect, and are the answer {}.                                 *)
(***************************************************************************)
EXTENDS Naturals, FiniteSets

CONSTANTS Requests,       \* authenticated requests
          Keys,           \* keys the auth service may ever have
          KeySets,        \* non-empty sets of keys it may publish, each kid once
          MaxRotations,   \* bound: changes of the published set
          MaxFaults       \* bound: failing fetches

VARIABLES published,      \* what the auth service publishes now
          cache,          \* _keys_by_kid
          fresh,          \* _last_fetch is younger than JWKS_REFRESH_INTERVAL
          loop,           \* the start-up fetch, then _refresh_loop: pc and answer
          req,            \* per request: pc, which _ensure_keys it is in, token, answer
          steady,         \* for the properties: has the token of this request been good
                          \* ever since it arrived
          rotations, faults
vars == <<published, cache, fresh, loop, req, steady, rotations, faults>>

\* A token is signed by some key, published or not, and names its kid or none.
Tokens == Keys \union {[kid |-> "", mat |-> k.mat] : k \in Keys}
Ended == {"accepted", "rejected", "unavailable"}
\* new, then in _ensure_keys: waiting for the lock, call sent, answer on its way.
Pcs == {"new", "wait", "sent", "answer"} \union Ended

Blank(pc) == [pc |-> pc, stage |-> 1, token |-> CHOOSE t \in Tokens : TRUE, ans |-> {}]

TypeOK ==
    /\ published \in KeySets
    /\ cache \subseteq Keys
    /\ fresh \in BOOLEAN
    /\ loop \in [pc : {"init", "initanswer", "sleep", "sent", "answer"}, ans : KeySets \union {{}}]
    /\ req \in [Requests -> [pc : Pcs, stage : 1..3, token : Tokens, ans : KeySets \union {{}}]]
    /\ steady \in [Requests -> BOOLEAN]
    /\ rotations \in Nat /\ faults \in Nat

\* init_jwks sends the first call before the pod serves requests.
Init ==
    /\ published \in KeySets
    /\ cache = {} /\ fresh = FALSE
    /\ loop = [pc |-> "init", ans |-> {}]
    /\ req = [r \in Requests |-> Blank("new")]
    /\ steady = [r \in Requests |-> FALSE]
    /\ rotations = 0 /\ faults = 0

-----------------------------------------------------------------------------
(* Choosing and checking a key. *)

Entry(C, kid) == {k \in C : k.kid = kid}

\* _pick_key_for_token: the entry of the kid, the one without kid, or the only one.
Pick(C, t) ==
    IF Entry(C, t.kid) # {} THEN Entry(C, t.kid)
    ELSE IF Entry(C, "") # {} THEN Entry(C, "")
    ELSE IF Cardinality(C) = 1 THEN C ELSE {}

\* A key of P signed the token, and the token says which, or there is only one.
Verifies(P, t) == \E k \in P : k.mat = t.mat /\ (k.kid = t.kid \/ P = {k})

\* decode_jwt_token from the return of an _ensure_keys to the next, or to its end:
\* there is no await in between.  Stage 1 is the ordinary call, 2 the forced one
\* after an unknown kid, 3 the forced one after a bad signature.
Verdict(C, t, stage) ==
    LET key == Pick(C, t) IN
    IF \E k \in key : k.mat = t.mat THEN [pc |-> "accepted", stage |-> stage]
    ELSE IF stage = 1 /\ C = {}     THEN [pc |-> "unavailable", stage |-> 1]
    ELSE IF stage = 1 /\ key = {}   THEN [pc |-> "wait", stage |-> 2]
    ELSE IF stage < 3 /\ key # {}   THEN [pc |-> "wait", stage |-> 3]
    ELSE                                 [pc |-> "rejected", stage |-> stage]

Judge(r, C, t, stage) ==
    LET v == Verdict(C, t, stage)
    IN  req' = [req EXCEPT ![r] = IF v.pc \in Ended THEN Blank(v.pc)
                                  ELSE [pc |-> v.pc, stage |-> v.stage, token |-> t, ans |-> {}]]

\* A request that is over leaves nothing behind.
Forget(r, good) == steady' = [steady EXCEPT ![r] = good /\ req'[r].pc \notin Ended]

\* The early return of _ensure_keys without force.
Current == cache # {} /\ fresh

-----------------------------------------------------------------------------
(* _fetch_jwks: the call, the answer of the auth service, its arrival. *)

Answers(ans) ==
    \/ ans = published /\ UNCHANGED faults
    \/ ans = {} /\ faults < MaxFaults /\ faults' = faults + 1

Store(ans) ==
    /\ cache' = IF ans = {} THEN cache ELSE ans
    /\ fresh' = (fresh \/ ans # {})

-----------------------------------------------------------------------------
(* Requests. *)

Arrive(r, t) ==
    /\ req[r].pc = "new"
    /\ loop.pc \notin {"init", "initanswer"}
    /\ IF Current THEN Judge(r, cache, t, 1)
                  ELSE req' = [req EXCEPT ![r].pc = "wait", ![r].token = t]
    /\ Forget(r, Verifies(published, t))
    /\ UNCHANGED <<published, cache, fresh, loop, rotations, faults>>

LockFree == \A r \in Requests : req[r].pc \notin {"sent", "answer"}

\* Slip: force is forgotten when the check is repeated under the lock.
AcquireUnforced(r) ==
    /\ req[r].pc = "wait" /\ LockFree
    /\ IF Current THEN Judge(r, cache, req[r].token, req[r].stage)
                  ELSE req' = [req EXCEPT ![r].pc = "sent"]
    /\ Forget(r, steady[r])
    /\ UNCHANGED <<published, cache, fresh, loop, rotations, faults>>

\* The lock is free: check again, unless forced, and fetch.
Acquire(r) ==
    /\ req[r].pc = "wait" /\ LockFree
    /\ IF req[r].stage = 1 /\ Current THEN Judge(r, cache, req[r].token, 1)
                                      ELSE req' = [req EXCEPT ![r].pc = "sent"]
    /\ Forget(r, steady[r])
    /\ UNCHANGED <<published, cache, fresh, loop, rotations, faults>>

Answer(r) ==
    /\ req[r].pc = "sent"
    /\ \E ans \in {published, {}} :
         /\ Answers(ans)
         /\ req' = [req EXCEPT ![r].pc = "answer", ![r].ans = ans]
    /\ UNCHANGED <<published, cache, fresh, loop, steady, rotations>>

\* The keys arrive, the lock is free again, and the request goes on.
Deliver(r) ==
    /\ req[r].pc = "answer"
    /\ Store(req[r].ans)
    /\ Judge(r, cache', req[r].token, req[r].stage)
    /\ Forget(r, steady[r])
    /\ UNCHANGED <<published, loop, rotations, faults>>

-----------------------------------------------------------------------------
(* Start-up and _refresh_loop, which fetches without the lock. *)

LoopWake ==
    /\ loop.pc = "sleep"
    /\ loop' = [loop EXCEPT !.pc = "sent"]
    /\ UNCHANGED <<published, cache, fresh, req, steady, rotations, faults>>

LoopAnswer ==
    /\ loop.pc \in {"init", "sent"}
    /\ \E ans \in {published, {}} :
         /\ Answers(ans)
         /\ loop' = [pc |-> IF loop.pc = "init" THEN "initanswer" ELSE "answer", ans |-> ans]
    /\ UNCHANGED <<published, cache, fresh, req, steady, rotations>>

\* Slip: a failing fetch ends the loop.
LoopDeliverOnce ==
    /\ loop.pc \in {"initanswer", "answer"} /\ (loop.ans # {} \/ loop.pc = "initanswer")
    /\ Store(loop.ans)
    /\ loop' = [pc |-> "sleep", ans |-> {}]
    /\ UNCHANGED <<published, req, steady, rotations, faults>>

LoopDeliver ==
    /\ loop.pc \in {"initanswer", "answer"}
    /\ Store(loop.ans)
    /\ loop' = [pc |-> "sleep", ans |-> {}]
    /\ UNCHANGED <<published, req, steady, rotations, faults>>

-----------------------------------------------------------------------------
(* The surroundings. *)

\* JWKS_REFRESH_INTERVAL passes, at any time.
Age ==
    /\ fresh /\ fresh' = FALSE
    /\ UNCHANGED <<published, cache, loop, req, steady, rotations, faults>>

\* The auth service changes its keys: adds the next, retires the old, replaces one.
Rotate(P) ==
    /\ rotations < MaxRotations /\ rotations' = rotations + 1
    /\ P # published /\ published' = P
    /\ steady' = [r \in Requests |-> steady[r] /\ Verifies(P, req[r].token)]
    /\ UNCHANGED <<cache, fresh, loop, req, faults>>

Next == \/ \E r \in Requests, t \in Tokens : Arrive(r, t)
        \/ \E r \in Requests : Acquire(r) \/ Answer(r) \/ Deliver(r)
        \/ LoopWake \/ LoopAnswer \/ LoopDeliver
        \/ Age
        \/ \E P \in KeySets : Rotate(P)

\* The loop wakes, and its calls end, by answer or timeout (JWKS_FETCH_TIMEOUT).
Fairness == WF_vars(LoopWake) /\ WF_vars(LoopAnswer) /\ WF_vars(LoopDeliver)

Spec == Init /\ [][Next]_vars
FairSpec == Spec /\ Fairness

-----------------------------------------------------------------------------
(* A token whose key is published from the request's arrival on is turned down only by *)
(* a request whose own fetch has just failed, though keys are rotated before and       *)
(* meanwhile and older answers of the loop overwrite newer ones ("one-shot rotation    *)
(* recovery", auth.py:21-24); and no token is turned down without a fetch.             *)
ValidTokenAccepted ==
    [][\A r \in Requests :
         req'[r].pc \in {"rejected", "unavailable"} /\ req[r].pc \notin Ended =>
           req[r].pc = "answer" /\ (~steady[r] \/ req[r].ans = {})]_vars

(* The auth service stops rotating and failing: the cache comes to hold exactly its    *)
(* keys, whatever answers were under way, and a retired key is no longer there.        *)
KeysFollowProvider == <>[](cache = published)
=============================================================================
