------------------------------ MODULE StreamCap ------------------------------
(***************************************************************************)
(* What the per-user stream cap promises (main.py:320-328), with nothing   *)
(* of how Redis counts: a set of holders that grows one at a time and only *)
(* below the cap, unless the limiter is degraded.  It degrades when Redis  *)
(* loses the counter or an acquire fails open, and is itself again no      *)
(* later than the moment the user has no stream left.                      *)
(***************************************************************************)
EXTENDS Naturals, FiniteSets

CONSTANTS Streams,      \* the streams one user may try to open
          MaxStreams    \* MAX_STREAMS_PER_USER

VARIABLES holders, degraded
vars == <<holders, degraded>>

Init == holders = {} /\ degraded = FALSE

Enter(s) ==
    /\ s \notin holders
    /\ holders' = holders \union {s}
    /\ degraded \/ degraded' \/ Cardinality(holders) < MaxStreams

Leave(S) == S \subseteq holders /\ holders' = holders \ S

\* A new degradation may strike at any step; it ends only when the last holder is gone.
Degradation == degraded /\ ~degraded' => holders' = {}

Next ==
    /\ \/ \E s \in Streams : Enter(s)
       \/ \E S \in SUBSET Streams : Leave(S)
    /\ Degradation

Spec == Init /\ [][Next]_vars
==============================================================================
