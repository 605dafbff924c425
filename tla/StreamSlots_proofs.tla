-------------------------- MODULE StreamSlots_proofs --------------------------
(***************************************************************************)
(* Proofs about StreamSlots, for any number of streams and pods, any cap,  *)
(* TTL, stream lifetime and number of faults.                              *)
(***************************************************************************)
EXTENDS StreamSlots, FiniteSetTheorems, TLAPS

USE StreamSlotsAssumption

\* Streams that are open, or will be as soon as their EXPIRE is answered.
Winners == {s \in Streams :
              pc[s] = "open" \/ (pc[s] = "expire" /\ got[s] =< MaxStreams)}

\* While the counter is trusted it counts every claim, nobody floors it, and the
\* streams that won a slot fit under the cap.
Counted ==
    ~tainted =>
      /\ Claims \subseteq credited
      /\ Cardinality(Claims) =< count
      /\ Cardinality(Winners) =< MaxStreams
      /\ \A s \in Streams : pc[s] # "floor"

IInv == TypeOK /\ Counted

-------------------------------------------------------------------------------
\* Every set of streams is finite, and a smaller one has no more elements.
LEMMA StreamSets ==
    ASSUME NEW S \in SUBSET Streams
    PROVE  /\ IsFiniteSet(S)
           /\ Cardinality(S) \in Nat
           /\ \A R \in SUBSET S : Cardinality(R) =< Cardinality(S)
           /\ \A s \in Streams \ S : Cardinality(S \union {s}) = Cardinality(S) + 1
           /\ \A s \in S : Cardinality(S \ {s}) = Cardinality(S) - 1
<1>1. IsFiniteSet(S)
  BY FS_Subset
<1>2. \A R \in SUBSET S : Cardinality(R) =< Cardinality(S)
  BY <1>1, FS_Subset
<1>3. \A s \in Streams \ S : Cardinality(S \union {s}) = Cardinality(S) + 1
  BY <1>1, FS_AddElement
<1>4. \A s \in S : Cardinality(S \ {s}) = Cardinality(S) - 1
  BY <1>1, FS_RemoveElement
<1> QED
  BY <1>1, <1>2, <1>3, <1>4, FS_CardinalityType

\* No stream has no cardinality.
LEMMA EmptyCard == Cardinality({}) = 0
BY FS_EmptySet

-------------------------------------------------------------------------------
\* Type correctness of StreamSlots, over one step.
LEMMA TypeStep == TypeOK /\ [Next]_vars => TypeOK'
<1> SUFFICES ASSUME TypeOK, [Next]_vars PROVE TypeOK'
  OBVIOUS
<1> USE DEF TypeOK, Claims, NoKey, NoExpiry, None
<1>0. tainted' \in BOOLEAN
  BY Zenon DEF Next, Taint, vars
<1>1. ASSUME NEW s \in Streams, NEW p \in Pods, Acquire(s, p) PROVE TypeOK'
  BY <1>0, <1>1 DEF Acquire, INCR
<1>2. ASSUME NEW s \in Streams, NEW p \in Pods, AcquireUnlinked(s, p) PROVE TypeOK'
  BY <1>0, <1>2 DEF AcquireUnlinked, Goto, redis
<1>3. ASSUME NEW s \in Streams, NEW p \in Pods, FailOpen(s, p) PROVE TypeOK'
  BY <1>0, <1>3 DEF FailOpen, Fault, Goto, INCR, EXPIRE, DECR, redis
<1>4. ASSUME NEW s \in Streams, ArmExpiry(s) PROVE TypeOK'
  BY <1>0, <1>4 DEF ArmExpiry, Goto, EXPIRE
<1>5. ASSUME NEW s \in Streams, Reject(s) PROVE TypeOK'
  BY <1>0, <1>5 DEF Reject, End, Goto, DECR
<1>6. ASSUME NEW s \in Streams, Release(s) PROVE TypeOK'
  BY <1>0, <1>6 DEF Release, End, Goto, DECR
<1>7. ASSUME NEW s \in Streams, ReleaseUnlinked(s) PROVE TypeOK'
  BY <1>0, <1>7 DEF ReleaseUnlinked, End, Goto, redis
<1>8. ASSUME NEW s \in Streams, Floor(s) PROVE TypeOK'
  BY <1>0, <1>8 DEF Floor, End, Goto, SETXX
<1>9. ASSUME NEW s \in Streams, ReleaseLost(s) PROVE TypeOK'
  BY <1>0, <1>9 DEF ReleaseLost, Fault, End, Goto, DECR, SETXX, redis
<1>10. ASSUME NEW p \in Pods, Restart(p) PROVE TypeOK'
  BY <1>0, <1>10 DEF Restart, Fault, redis
<1>11. ASSUME Tick PROVE TypeOK'
  BY <1>0, <1>11 DEF Tick, Admitted
<1>12. CASE UNCHANGED vars
  BY <1>12 DEF vars
<1> QED
  BY <1>1, <1>2, <1>3, <1>4, <1>5, <1>6, <1>7, <1>8, <1>9, <1>10, <1>11, <1>12
     DEF Next, Step

-------------------------------------------------------------------------------
\* If fewer or the same streams claim and win, and the counter does not fall by more
\* than one for a claim given back, the counter stays trusted.
LEMMA Shrink ==
    ASSUME TypeOK, Counted, ~tainted, Claims' \subseteq credited',
           Claims' \subseteq Claims, Winners' \subseteq Winners,
           \A s \in Streams : pc'[s] # "floor",
           \/ count' = count
           \/ count' = count - 1 /\ \E s \in Claims : Claims' = Claims \ {s}
    PROVE  Counted'
<1>1. /\ Claims \in SUBSET Streams /\ Winners \in SUBSET Streams
      /\ Claims' \in SUBSET Streams /\ Winners' \in SUBSET Streams
  BY DEF Claims, Winners
<1>2. Cardinality(Claims) =< count /\ Cardinality(Winners) =< MaxStreams /\ count \in Int
  BY DEF Counted, TypeOK
<1>3. Cardinality(Winners') =< MaxStreams
  BY <1>1, <1>2, StreamSets
<1>4. Cardinality(Claims') =< count'
  <2>1. CASE count' = count
    BY <2>1, <1>1, <1>2, StreamSets
  <2>2. CASE count' = count - 1 /\ \E s \in Claims : Claims' = Claims \ {s}
    <3>1. PICK s \in Claims : Claims' = Claims \ {s}
      BY <2>2
    <3>2. Cardinality(Claims') = Cardinality(Claims) - 1
      BY <1>1, <3>1, StreamSets
    <3> QED
      BY <1>1, <1>2, <2>2, <3>2, StreamSets
  <2> QED
    BY <2>1, <2>2
<1> QED
  BY <1>3, <1>4 DEF Counted

\* The counter stays trusted over one step, or is known not to be.
LEMMA CountedStep == IInv /\ [Next]_vars => Counted'
<1> SUFFICES ASSUME TypeOK, Counted, [Next]_vars, ~tainted' PROVE Counted'
  BY DEF IInv, Counted
<1>1. CASE UNCHANGED vars
  BY <1>1 DEF vars, Counted, Claims, Winners
<1>2. CASE Next /\ Quiet'
  <2>1. Claims' = {} /\ Winners' = {} /\ count' >= 0
    BY <1>2 DEF Quiet, Claims, Winners
  <2>2. TypeOK'
    BY TypeStep
  <2> QED
    BY <1>2, <2>1, <2>2, EmptyCard DEF Counted, Quiet, TypeOK
<1>3. CASE Next /\ ~Quiet'
  <2>1. ~tainted /\ Claims' \subseteq credited'
    BY <1>3, Zenon DEF Next, Taint, TypeOK
  <2>2. \A s \in Streams : pc[s] # "floor"
    BY <2>1 DEF Counted
  <2> USE DEF TypeOK
  <2>3. ASSUME NEW s \in Streams, NEW p \in Pods, Acquire(s, p) PROVE Counted'
    <3>1. /\ Claims \in SUBSET Streams /\ s \in Streams \ Claims
          /\ Claims' = Claims \union {s}
          /\ count' = count + 1 /\ got'[s] = count + 1
      BY <2>3 DEF Acquire, INCR, Claims
    <3>2. Cardinality(Claims') =< count'
      BY <2>1, <3>1, StreamSets DEF Counted
    <3>3. Cardinality(Winners') =< MaxStreams
      <4>1. CASE count + 1 =< MaxStreams
        <5>1. Winners' \subseteq Claims' /\ Claims' \in SUBSET Streams
          BY <3>1 DEF Winners, Claims
        <5>2. Cardinality(Winners') =< Cardinality(Claims')
          BY <5>1, StreamSets
        <5> QED
          BY <3>1, <3>2, <4>1, <5>1, <5>2, StreamSets
      <4>2. CASE count + 1 > MaxStreams
        <5>1. Winners' = Winners
          BY <2>3, <3>1, <4>2 DEF Acquire, Winners
        <5> QED
          BY <2>1, <5>1 DEF Counted
      <4> QED
        BY <4>1, <4>2
    <3>4. \A t \in Streams : pc'[t] # "floor"
      BY <2>2, <2>3 DEF Acquire
    <3> QED
      BY <2>1, <3>2, <3>3, <3>4 DEF Counted
  <2>4. ASSUME NEW s \in Streams, NEW p \in Pods, AcquireUnlinked(s, p) PROVE FALSE
    BY <2>1, <2>4 DEF AcquireUnlinked, Goto, Claims
  <2>5. ASSUME NEW s \in Streams, NEW p \in Pods, FailOpen(s, p) PROVE FALSE
    BY <2>1, <2>5 DEF FailOpen, Goto, Claims
  <2>6. ASSUME NEW s \in Streams, ArmExpiry(s) PROVE Counted'
    <3>1. /\ Claims' \subseteq Claims /\ Winners' \subseteq Winners /\ count' = count
          /\ \A t \in Streams : pc'[t] # "floor"
      BY <2>2, <2>6 DEF ArmExpiry, Goto, EXPIRE, Claims, Winners
    <3> QED
      BY <2>1, <3>1, Shrink
  <2>7. ASSUME NEW s \in Streams, Reject(s) PROVE Counted'
    <3>1. /\ Claims' = Claims \ {s} /\ s \in Claims /\ Winners' \subseteq Winners
          /\ count' = count - 1
          /\ \A t \in Streams : pc'[t] # "floor"
      BY <2>2, <2>7 DEF Reject, End, Goto, DECR, Claims, Winners
    <3> QED
      BY <2>1, <3>1, Shrink
  <2>8. ASSUME NEW s \in Streams, Release(s) PROVE Counted'
    <3>1. /\ Claims' = Claims \ {s} /\ s \in Claims /\ Claims \in SUBSET Streams
          /\ Winners' \subseteq Winners /\ count' = count - 1
      BY <2>8 DEF Release, End, Goto, DECR, Claims, Winners
    <3>2. count >= 1
      <4>1. Cardinality(Claims) =< count /\ count \in Int
        BY <2>1 DEF Counted
      <4>2. /\ Cardinality(Claims \ {s}) = Cardinality(Claims) - 1
            /\ Cardinality(Claims) \in Nat /\ Cardinality(Claims \ {s}) \in Nat
        BY <3>1, StreamSets
      <4> QED
        BY <4>1, <4>2
    <3>3. \A t \in Streams : pc'[t] # "floor"
      BY <2>2, <2>8, <3>2 DEF Release, End, Goto
    <3> QED
      BY <2>1, <3>1, <3>3, Shrink
  <2>9. ASSUME NEW s \in Streams, ReleaseUnlinked(s) PROVE Counted'
    <3>1. /\ Claims' \subseteq Claims /\ Winners' \subseteq Winners /\ count' = count
          /\ \A t \in Streams : pc'[t] # "floor"
      BY <2>2, <2>9 DEF ReleaseUnlinked, End, Goto, redis, Claims, Winners
    <3> QED
      BY <2>1, <3>1, Shrink
  <2>10. ASSUME NEW s \in Streams, Floor(s) PROVE FALSE
    BY <2>2, <2>10 DEF Floor
  <2>11. ASSUME NEW s \in Streams, ReleaseLost(s) PROVE Counted'
    <3>1. /\ Claims' = Claims \ {s} /\ s \in Claims /\ Winners' \subseteq Winners
          /\ count' = count \/ count' = count - 1
          /\ \A t \in Streams : pc'[t] # "floor"
      BY <2>2, <2>11 DEF ReleaseLost, End, Goto, DECR, redis, Claims, Winners
    <3> QED
      BY <2>1, <3>1, Shrink
  <2>12. ASSUME NEW p \in Pods, Restart(p) PROVE Counted'
    <3>1. /\ Claims' \subseteq Claims /\ Winners' \subseteq Winners /\ count' = count
          /\ \A t \in Streams : pc'[t] # "floor"
      BY <2>2, <2>12 DEF Restart, redis, Claims, Winners
    <3> QED
      BY <2>1, <3>1, Shrink
  <2>13. ASSUME Tick PROVE Counted'
    <3>1. /\ Claims' = Claims /\ Winners' = Winners
          /\ \A t \in Streams : pc'[t] # "floor"
      BY <2>2, <2>13 DEF Tick, Claims, Winners
    <3>2. CASE ttl = 1
      <4>1. Claims' = {} /\ count' = 0 /\ Winners' \subseteq Claims'
        BY <2>1, <2>13, <3>2 DEF Tick, Winners, Claims
      <4> QED
        BY <2>1, <3>1, <4>1, EmptyCard DEF Counted
    <3>3. CASE ttl # 1
      <4>1. count' = count
        BY <2>13, <3>3 DEF Tick
      <4> QED
        BY <2>1, <3>1, <4>1, Shrink
    <3> QED
      BY <3>2, <3>3
  <2> QED
    BY <1>3, <2>3, <2>4, <2>5, <2>6, <2>7, <2>8, <2>9, <2>10, <2>11, <2>12, <2>13
       DEF Next, Step
<1> QED
  BY <1>1, <1>2, <1>3 DEF Next

-------------------------------------------------------------------------------
\* IInv is an inductive invariant.
LEMMA Inductive == Spec => []IInv
<1>1. Init => IInv
  <2> SUFFICES ASSUME Init PROVE IInv
    OBVIOUS
  <2>1. Claims = {} /\ Winners = {}
    BY DEF Init, Claims, Winners
  <2>2. TypeOK
    <3>1. pc \in [Streams -> {"idle", "expire", "over", "open", "floor"}]
      BY DEF Init
    <3>2. pod \in [Streams -> Pods \union {None}]
      BY DEF Init
    <3>3. got \in [Streams -> Int] /\ age \in [Streams -> Nat]
      BY DEF Init
    <3>4. tainted \in BOOLEAN /\ linked \subseteq Pods /\ credited \subseteq Claims
      BY Zenon DEF Init
    <3>5. count \in Int /\ ttl = NoKey /\ count = 0 /\ faults \in 0 .. MaxFaults
      BY DEF Init
    <3> QED
      BY <3>1, <3>2, <3>3, <3>4, <3>5 DEF TypeOK
  <2>3. Counted
    BY <2>1, EmptyCard DEF Init, Counted
  <2> QED
    BY <2>2, <2>3 DEF IInv
<1>2. IInv /\ [Next]_vars => IInv'
  BY TypeStep, CountedStep DEF IInv
<1> QED
  BY <1>1, <1>2, PTL DEF Spec

\* The variables of StreamSlots keep their types, and a stream counted in the Redis key
\* is one that claims a slot (cache.py:141-194).
THEOREM TypeCorrect == Spec => []TypeOK
<1>1. IInv => TypeOK
  BY DEF IInv
<1> QED
  BY <1>1, Inductive, PTL

\* The cap of main.py:320-328 holds as long as the counter did not degrade, for every
\* number of streams, pods and faults and without any assumption on timing.
THEOREM CapHolds == Spec => []CapUnlessDegraded
<1>1. IInv => CapUnlessDegraded
  <2> SUFFICES ASSUME IInv, ~tainted PROVE Cardinality(Admitted) =< MaxStreams
    BY DEF CapUnlessDegraded
  <2>1. Admitted \subseteq Winners /\ Winners \in SUBSET Streams
    BY DEF Admitted, Winners
  <2>2. Cardinality(Winners) =< MaxStreams
    BY DEF IInv, Counted
  <2> QED
    BY <2>1, <2>2, StreamSets
<1> QED
  BY <1>1, Inductive, PTL

-------------------------------------------------------------------------------
\* No command but EXPIRE ends the wait of a stream for its EXPIRE, and no command but an
\* INCR, which begins one, raises the counter.
LEMMA TimedStep == TypeOK /\ PositiveIsTimed /\ [Next]_vars => PositiveIsTimed'
<1> SUFFICES ASSUME TypeOK, PositiveIsTimed, [Next]_vars,
                    faults' = 0, count' > 0, ttl' = NoExpiry
             PROVE  \E s \in Streams : pc'[s] = "expire"
  BY DEF PositiveIsTimed
<1> USE DEF TypeOK, NoKey, NoExpiry
<1>1. ASSUME NEW s \in Streams, NEW p \in Pods, Acquire(s, p) PROVE pc'[s] = "expire"
  BY <1>1 DEF Acquire
<1>2. ASSUME NEW s \in Streams, ArmExpiry(s) PROVE FALSE
  <2>1. ttl' = (IF ttl = NoKey THEN NoKey ELSE TTL)
    BY <1>2 DEF ArmExpiry, EXPIRE
  <2> QED
    BY <2>1
<1>3. ASSUME NEW s \in Streams, Floor(s) PROVE FALSE
  BY <1>3 DEF Floor, SETXX
<1>4. ASSUME Fault PROVE FALSE
  BY <1>4 DEF Fault
<1>5. ASSUME faults' = faults, count' =< count, count' > 0 => ttl # NoKey, ttl' = NoExpiry => ttl \in {NoExpiry, NoKey},
             \A s \in Streams : pc[s] = "expire" => pc'[s] = "expire"
      PROVE  \E s \in Streams : pc'[s] = "expire"
  <2>1. count \in Int /\ count' > 0 /\ ttl' = NoExpiry
    OBVIOUS
  <2>2. faults = 0 /\ ttl = NoExpiry
    BY <1>5, <2>1
  <2>3. count' \in Int
    BY TypeStep DEF TypeOK
  <2>4. count > 0
    BY <1>5, <2>1, <2>3
  <2>5. PICK s \in Streams : pc[s] = "expire"
    BY <2>2, <2>4 DEF PositiveIsTimed
  <2> QED
    BY <1>5, <2>5
<1>6. ASSUME NEW s \in Streams,
             \/ \E p \in Pods : AcquireUnlinked(s, p)
             \/ Reject(s) \/ Release(s) \/ ReleaseUnlinked(s)
      PROVE  \E t \in Streams : pc'[t] = "expire"
  <2>1. CASE \E p \in Pods : AcquireUnlinked(s, p)
    BY <1>5, <2>1 DEF AcquireUnlinked, Goto, redis
  <2>2. CASE Reject(s) \/ Release(s)
    BY <1>5, <2>2 DEF Reject, Release, End, Goto, DECR
  <2>3. CASE ReleaseUnlinked(s)
    BY <1>5, <2>3 DEF ReleaseUnlinked, End, Goto, redis
  <2> QED
    BY <1>6, <2>1, <2>2, <2>3
<1>7. ASSUME Tick PROVE \E t \in Streams : pc'[t] = "expire"
  BY <1>5, <1>7 DEF Tick
<1>8. CASE UNCHANGED vars
  BY <1>5, <1>8 DEF vars
<1> QED
  BY <1>1, <1>2, <1>3, <1>4, <1>6, <1>7, <1>8 DEF Next, Step, FailOpen, ReleaseLost, Restart

\* Without faults a counter above zero has an expiry or is about to get one, however the
\* commands of acquire and release interleave (cache.py:163, 190), with ticks in between.
THEOREM PositiveTimed == Spec => []PositiveIsTimed
<1>1. Init => PositiveIsTimed
  BY DEF Init, PositiveIsTimed
<1>2. IInv => TypeOK
  BY DEF IInv
<1> QED
  BY <1>1, <1>2, TimedStep, Inductive, PTL DEF Spec

-------------------------------------------------------------------------------
\* A winning stream about to be told so leaves room under the cap.
LEMMA RoomForWinner ==
    ASSUME IInv, ~tainted, NEW s \in Streams, pc[s] = "expire", got[s] =< MaxStreams
    PROVE  Cardinality(Admitted) < MaxStreams
<1>1. /\ Winners \in SUBSET Streams /\ s \in Winners
      /\ Admitted \subseteq Winners \ {s} /\ Winners \ {s} \in SUBSET Streams
  BY DEF Winners, Admitted
<1>2. Cardinality(Winners) =< MaxStreams
  BY DEF IInv, Counted
<1>3. /\ Cardinality(Winners \ {s}) = Cardinality(Winners) - 1
      /\ Cardinality(Admitted) =< Cardinality(Winners \ {s})
      /\ Cardinality(Winners) \in Nat
  BY <1>1, StreamSets
<1>4. Cardinality(Admitted) \in Nat
  BY StreamSets DEF Admitted
<1> QED
  BY <1>2, <1>3, <1>4

\* The abstract module counts the same way.
LEMMA SameCardinality == Cap!Cardinality(Admitted) = Cardinality(Admitted)
BY DEF Cap!Cardinality, Cardinality

\* Every step of StreamSlots is a step of the abstract cap, or leaves it alone.
LEMMA StepSimulation == IInv /\ [Next]_vars => [Cap!Next]_Cap!vars
<1> SUFFICES ASSUME IInv, [Next]_vars PROVE [Cap!Next]_Cap!vars
  OBVIOUS
<1> USE DEF TypeOK, Admitted
<1>1. CASE UNCHANGED vars
  BY <1>1 DEF vars, Cap!vars
<1>2. CASE Next
  <2>1. Cap!Degradation
    <3>1. tainted /\ ~tainted' => Quiet'
      BY <1>2, Zenon DEF Next, Taint
    <3>2. Quiet' => Admitted' = {}
      BY DEF Quiet
    <3> QED
      BY <3>1, <3>2, Zenon DEF Cap!Degradation
  <2>2. ASSUME NEW s \in Streams, s \in Claims', s \notin credited' PROVE tainted'
    <3>1. ~Quiet' /\ ~(Claims' \subseteq credited')
      BY <2>2 DEF Quiet, Claims
    <3> QED
      BY <1>2, <3>1, Zenon DEF Next, Taint
  <2>3. ASSUME NEW S \in SUBSET Streams, S \subseteq Admitted, Admitted' = Admitted \ S
        PROVE  Cap!Next
    BY <2>1, <2>3, Zenon DEF Cap!Next, Cap!Leave
  <2>4. ASSUME Admitted' = Admitted PROVE Cap!Next
    <3>1. {} \in SUBSET Streams /\ {} \subseteq Admitted /\ Admitted' = Admitted \ {}
      BY <2>4
    <3> QED
      BY <3>1, <2>3
  <2>5. ASSUME NEW s \in Streams, s \notin Admitted, Admitted' = Admitted \union {s},
               tainted \/ tainted' \/ Cardinality(Admitted) < MaxStreams
        PROVE  Cap!Next
    BY <2>1, <2>5, SameCardinality, Zenon DEF Cap!Next, Cap!Enter
  <2> USE DEF IInv, Claims
  <2>6. ASSUME NEW s \in Streams, NEW p \in Pods, Acquire(s, p) PROVE Cap!Next
    <3>1. Admitted' = Admitted
      BY <2>6 DEF Acquire
    <3> QED
      BY <3>1, <2>4
  <2>7. ASSUME NEW s \in Streams, NEW p \in Pods, AcquireUnlinked(s, p) PROVE Cap!Next
    <3>1. /\ s \notin Admitted /\ Admitted' = Admitted \union {s}
          /\ s \in Claims' /\ s \notin credited'
      BY <2>7 DEF AcquireUnlinked, Goto
    <3> QED
      BY <3>1, <2>2, <2>5
  <2>8. ASSUME NEW s \in Streams, NEW p \in Pods, FailOpen(s, p) PROVE Cap!Next
    <3>1. /\ s \notin Admitted /\ Admitted' = Admitted \union {s}
          /\ s \in Claims' /\ s \notin credited'
      BY <2>8 DEF FailOpen, Goto
    <3> QED
      BY <3>1, <2>2, <2>5
  <2>9. ASSUME NEW s \in Streams, ArmExpiry(s) PROVE Cap!Next
    <3>1. CASE got[s] > MaxStreams
      <4>1. Admitted' = Admitted
        BY <2>9, <3>1 DEF ArmExpiry, Goto
      <4> QED
        BY <4>1, <2>4
    <3>2. CASE got[s] =< MaxStreams
      <4>1. pc[s] = "expire" /\ s \notin Admitted /\ Admitted' = Admitted \union {s}
        BY <2>9, <3>2 DEF ArmExpiry, Goto
      <4>2. tainted \/ Cardinality(Admitted) < MaxStreams
        BY <4>1, <3>2, RoomForWinner
      <4> QED
        BY <4>1, <4>2, <2>5
    <3> QED
      BY <3>1, <3>2
  <2>10. ASSUME NEW s \in Streams, Reject(s) \/ Floor(s) PROVE Cap!Next
    <3>1. Admitted' = Admitted
      BY <2>10 DEF Reject, Floor, End, Goto
    <3> QED
      BY <3>1, <2>4
  <2>11. ASSUME NEW s \in Streams, Release(s) \/ ReleaseUnlinked(s) \/ ReleaseLost(s)
         PROVE  Cap!Next
    <3>1. Admitted' = Admitted \ (Admitted \intersect {s})
      BY <2>11 DEF Release, ReleaseUnlinked, ReleaseLost, End, Goto
    <3> QED
      BY <3>1, <2>3
  <2>12. ASSUME NEW p \in Pods, Restart(p) PROVE Cap!Next
    <3>1. Admitted' = Admitted \ {s \in Admitted : pod[s] = p}
      BY <2>12 DEF Restart
    <3> QED
      BY <3>1, <2>3
  <2>13. ASSUME Tick PROVE Cap!Next
    <3>1. Admitted' = Admitted
      BY <2>13 DEF Tick
    <3> QED
      BY <3>1, <2>4
  <2> QED
    BY <1>2, <2>6, <2>7, <2>8, <2>9, <2>10, <2>11, <2>12, <2>13, Zenon DEF Next, Step
<1> QED
  BY <1>1, <1>2

\* What main.py:320-328 promises: streams enter one at a time, below the cap unless the
\* limiter is degraded, and a degraded limiter recovers only once the user is idle.
THEOREM Refinement == Spec => ImplementsCap
<1>1. Init => Cap!Init
  BY DEF Init, Cap!Init, Admitted
<1> QED
  BY <1>1, Inductive, StepSimulation, PTL DEF Spec, ImplementsCap, Cap!Spec
==============================================================================
