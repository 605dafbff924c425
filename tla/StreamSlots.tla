----------------------------- MODULE StreamSlots -----------------------------
(***************************************************************************)
(* The per-user cap on concurrent SSE streams: acquire_stream_slot and     *)
(* release_stream_slot of cache.py, called by stream_chat_query and by the *)
(* finally block of its event_stream generator (main.py).  One user, so    *)
(* one Redis key, whose commands from all the pods interleave one by one.  *)
(*                                                                         *)
(* Every Redis command is one step.  A missing key reads as zero.  A       *)
(* command that fails may or may not have reached Redis; that covers an    *)
(* error of the connection and, on release, the cancellation that          *)
(* Starlette delivers to every await of a stream whose client went away.   *)
(***************************************************************************)
EXTENDS Integers, FiniteSets

CONSTANTS
    Streams,     \* request slots of the user's browser tabs; each may be used again
    Pods,        \* backend replicas
    MaxStreams,  \* MAX_STREAMS_PER_USER
    TTL,         \* STREAM_SLOT_TTL_SECONDS, in ticks
    Lifetime,    \* the longest a stream stays open, in ticks
    MaxFaults,   \* bound on crashes and failed commands
    Prompt       \* TRUE: no tick passes between two commands of one call

ASSUME StreamSlotsAssumption ==
    /\ IsFiniteSet(Streams)
    /\ MaxStreams \in Nat
    /\ TTL \in Nat \ {0}
    /\ Lifetime \in Nat
    /\ MaxFaults \in Nat
    /\ Prompt \in BOOLEAN

VARIABLES
    count,     \* the value of sparkchat:streams:<user>
    ttl,       \* its remaining life, or NoKey, or NoExpiry
    pc,        \* where each stream is
    got,       \* the reply of its INCR until it is compared, else 0
    pod,       \* the pod that serves it, or None
    age,       \* ticks since it was admitted, 0 when it is not open
    linked,    \* pods whose RedisCache._client is set
    faults,    \* faults so far
    credited,  \* history: streams that claim by an INCR of the key that is there now
    tainted    \* history: the counter has undercounted and the user was never idle since

redis == <<count, ttl>>
vars == <<count, ttl, pc, got, pod, age, linked, faults, credited, tainted>>

NoKey == -2
NoExpiry == -1
None == "none"

Admitted == {s \in Streams : pc[s] = "open"}
Claims == {s \in Streams : pc[s] \in {"expire", "over", "open"}}
Quiet == count >= 0 /\ \A s \in Streams : pc[s] = "idle"

Init ==
    /\ count = 0 /\ ttl = NoKey
    /\ pc = [s \in Streams |-> "idle"]
    /\ got = [s \in Streams |-> 0]
    /\ pod = [s \in Streams |-> None]
    /\ age = [s \in Streams |-> 0]
    /\ linked = Pods
    /\ faults = 0
    /\ credited = {} /\ tainted = FALSE

-------------------------------------------------------------------------------
\* Redis commands on the key.

INCR == count' = count + 1 /\ ttl' = IF ttl = NoKey THEN NoExpiry ELSE ttl
DECR == count' = count - 1 /\ ttl' = IF ttl = NoKey THEN NoExpiry ELSE ttl
\* Slip: the margin for the last tick is counted twice.
EXPIRELate == ttl' = (IF ttl = NoKey THEN NoKey ELSE TTL + 1) /\ count' = count
EXPIRE == ttl' = (IF ttl = NoKey THEN NoKey ELSE TTL) /\ count' = count
\* SET key 0 XX: nothing without the key, and the expiry is dropped with it.
SETXX == count' = 0 /\ ttl' = IF ttl = NoKey THEN NoKey ELSE NoExpiry

\* The call of stream s moves to l; its local values die with the call.
Goto(s, l) ==
    /\ pc' = [pc EXCEPT ![s] = l]
    /\ got' = [got EXCEPT ![s] = 0]
    /\ age' = [age EXCEPT ![s] = 0]

End(s) == Goto(s, "idle") /\ pod' = [pod EXCEPT ![s] = None]

Fault == faults < MaxFaults /\ faults' = faults + 1

-------------------------------------------------------------------------------
\* acquire_stream_slot

\* Slip: the value before the increment is compared.
AcquireOldCount(s, p) ==
    /\ pc[s] = "idle" /\ p \in linked
    /\ INCR
    /\ pc' = [pc EXCEPT ![s] = "expire"]
    /\ got' = [got EXCEPT ![s] = count]
    /\ pod' = [pod EXCEPT ![s] = p]
    /\ credited' = credited \union {s}
    /\ UNCHANGED <<age, linked, faults>>

\* A new request reaches pod p, which asks Redis for a slot.
Acquire(s, p) ==
    /\ pc[s] = "idle" /\ p \in linked
    /\ INCR
    /\ pc' = [pc EXCEPT ![s] = "expire"]
    /\ got' = [got EXCEPT ![s] = count + 1]
    /\ pod' = [pod EXCEPT ![s] = p]
    /\ credited' = credited \union {s}
    /\ UNCHANGED <<age, linked, faults>>

\* connect() failed when the pod started: every request is let through.
AcquireUnlinked(s, p) ==
    /\ pc[s] = "idle" /\ p \notin linked
    /\ pod' = [pod EXCEPT ![s] = p]
    /\ Goto(s, "open")
    /\ UNCHANGED <<redis, linked, faults, credited>>

\* Slip: the comparison is off by one.
ArmExpiryOffByOne(s) ==
    /\ pc[s] = "expire"
    /\ EXPIRE
    /\ Goto(s, IF got[s] > MaxStreams + 1 THEN "over" ELSE "open")
    /\ UNCHANGED <<pod, linked, faults, credited>>

\* Slip: the counter is never given an expiry.
ArmNothing(s) ==
    /\ pc[s] = "expire"
    /\ Goto(s, IF got[s] > MaxStreams THEN "over" ELSE "open")
    /\ UNCHANGED <<redis, pod, linked, faults, credited>>

ArmExpiry(s) ==
    /\ pc[s] = "expire"
    /\ EXPIRE
    /\ Goto(s, IF got[s] > MaxStreams THEN "over" ELSE "open")
    /\ UNCHANGED <<pod, linked, faults, credited>>

\* Over the cap: the request gives its increment back and is answered 429.
Reject(s) ==
    /\ pc[s] = "over"
    /\ DECR
    /\ End(s)
    /\ credited' = credited \ {s}
    /\ UNCHANGED <<linked, faults>>

\* Any command of acquire_stream_slot raises: the request is let through.
FailOpen(s, p) ==
    /\ Fault
    /\ \/ /\ pc[s] = "idle" /\ p \in linked
          /\ INCR \/ UNCHANGED redis
       \/ /\ pc[s] = "expire" /\ p = pod[s]
          /\ EXPIRE \/ UNCHANGED redis
       \/ /\ pc[s] = "over" /\ p = pod[s]
          /\ DECR \/ UNCHANGED redis
    /\ pod' = [pod EXCEPT ![s] = p]
    /\ Goto(s, "open")
    /\ credited' = credited \ {s}
    /\ UNCHANGED linked

-------------------------------------------------------------------------------
\* release_stream_slot, when the stream ends for any reason

\* Slip: the counter is not floored.
ReleaseNoFloor(s) ==
    /\ pc[s] = "open" /\ pod[s] \in linked
    /\ DECR
    /\ End(s)
    /\ credited' = credited \ {s}
    /\ UNCHANGED <<linked, faults>>

Release(s) ==
    /\ pc[s] = "open" /\ pod[s] \in linked
    /\ DECR
    /\ IF count - 1 < 0 THEN Goto(s, "floor") /\ UNCHANGED pod ELSE End(s)
    /\ credited' = credited \ {s}
    /\ UNCHANGED <<linked, faults>>

ReleaseUnlinked(s) ==
    /\ pc[s] = "open" /\ pod[s] \notin linked
    /\ End(s)
    /\ credited' = credited \ {s}
    /\ UNCHANGED <<redis, linked, faults>>

Floor(s) ==
    /\ pc[s] = "floor"
    /\ SETXX
    /\ End(s)
    /\ UNCHANGED <<linked, faults, credited>>

\* A command of the release raises, or is cancelled with the stream.
ReleaseLost(s) ==
    /\ Fault
    /\ \/ /\ pc[s] = "open" /\ pod[s] \in linked
          /\ DECR \/ UNCHANGED redis
       \/ /\ pc[s] = "floor"
          /\ SETXX \/ UNCHANGED redis
    /\ End(s)
    /\ credited' = credited \ {s}
    /\ UNCHANGED linked

-------------------------------------------------------------------------------
\* The environment

\* Pod p dies and comes back, with or without Redis; its streams never release.
Restart(p) ==
    /\ Fault
    /\ pc' = [s \in Streams |-> IF pod[s] = p THEN "idle" ELSE pc[s]]
    /\ got' = [s \in Streams |-> IF pod[s] = p THEN 0 ELSE got[s]]
    /\ age' = [s \in Streams |-> IF pod[s] = p THEN 0 ELSE age[s]]
    /\ pod' = [s \in Streams |-> IF pod[s] = p THEN None ELSE pod[s]]
    /\ credited' = {s \in credited : pod[s] # p}
    /\ \E up \in BOOLEAN : linked' = IF up THEN linked \union {p} ELSE linked \ {p}
    /\ UNCHANGED redis

\* Time passes: the key loses a tick of life and disappears with the last one.
Tick ==
    /\ ttl > 0 \/ Admitted # {}
    /\ \A s \in Admitted : age[s] < Lifetime
    /\ Prompt => \A s \in Streams : pc[s] \in {"idle", "open"}
    /\ age' = [s \in Streams |-> IF s \in Admitted THEN age[s] + 1 ELSE age[s]]
    /\ IF ttl = 1
       THEN ttl' = NoKey /\ count' = 0 /\ credited' = {}
       ELSE /\ ttl' = IF ttl > 1 THEN ttl - 1 ELSE ttl
            /\ UNCHANGED <<count, credited>>
    /\ UNCHANGED <<pc, got, pod, linked, faults>>

-------------------------------------------------------------------------------
\* The history variable: set when a live claim is not in the counter, cleared when
\* the user has no stream and the counter is not below zero.
Taint == tainted' = ((tainted \/ ~(Claims' \subseteq credited')) /\ ~Quiet')

Step(s) ==
    \/ \E p \in Pods : Acquire(s, p) \/ AcquireUnlinked(s, p) \/ FailOpen(s, p)
    \/ ArmExpiry(s) \/ Reject(s)
    \/ Release(s) \/ ReleaseUnlinked(s) \/ Floor(s) \/ ReleaseLost(s)

Next ==
    /\ \/ \E s \in Streams : Step(s)
       \/ \E p \in Pods : Restart(p)
       \/ Tick
    /\ Taint

Spec == Init /\ [][Next]_vars

\* Calls in progress go on and streams end.
Progress(s) ==
    /\ ArmExpiry(s) \/ Reject(s) \/ Release(s) \/ ReleaseUnlinked(s) \/ Floor(s)
    /\ Taint

\* A user who comes back for ever, but to a full counter only once it has no time left.
Patience == ttl =< 0 \/ count < MaxStreams
Arrive == \E s \in Streams, p \in Pods : Acquire(s, p) \/ AcquireUnlinked(s, p)
PatientNext == Next /\ (Arrive => Patience)

\* Calls go on, streams end, time passes, and the user comes back.
PatientSpec ==
    /\ Init /\ [][PatientNext]_vars
    /\ \A s \in Streams : WF_vars(Progress(s))
    /\ WF_vars(Tick /\ Taint)
    /\ WF_vars(Arrive /\ Patience /\ Taint)

-------------------------------------------------------------------------------
\* Types, and that a stream counted in the key is one that claims a slot.
TypeOK ==
    /\ count \in Int
    /\ ttl \in {NoKey, NoExpiry} \union 1 .. TTL
    /\ ttl = NoKey => count = 0
    /\ pc \in [Streams -> {"idle", "expire", "over", "open", "floor"}]
    /\ got \in [Streams -> Int]
    /\ pod \in [Streams -> Pods \union {None}]
    /\ age \in [Streams -> Nat]
    /\ linked \subseteq Pods
    /\ faults \in 0 .. MaxFaults
    /\ credited \subseteq Claims
    /\ tainted \in BOOLEAN

\* The cap of main.py:320-328: unless an acquire failed open or the key expired under a
\* stream since the user was last idle, at most MaxStreams streams are open, however
\* requests race between INCR and DECR and whatever crashes and lost releases leak.
CapUnlessDegraded == ~tainted => Cardinality(Admitted) =< MaxStreams

\* The same as a refinement: streams enter one at a time, below the cap or degraded.
Cap == INSTANCE StreamCap WITH holders <- Admitted, degraded <- tainted
ImplementsCap == Cap!Spec

\* cache.py:186-190: a counter below zero does not stay while the user comes back and the
\* pods have Redis, whether it is due to a release of a stream that is not counted any
\* more, a lost SET, or a rejected request whose INCR another stream took back or wiped out.
NegativeHeals == count < 0 ~> count >= 0 \/ linked # Pods

\* cache.py:163,190: without crashes and errors a positive counter always has an expiry,
\* or the EXPIRE is on its way, although the floor of a release drops the expiry.
PositiveIsTimed ==
    faults = 0 /\ count > 0 /\ ttl = NoExpiry => \E s \in Streams : pc[s] = "expire"

\* main.py:85-88: whatever crashes and errors leak, a user who waits out the TTL instead
\* of retrying against a full counter is served again and again.
PatientUserServed == []<>(Admitted # {})
==============================================================================
