--------------------------- MODULE ModelSelection ---------------------------
(***************************************************************************)
(* Which model answers a query of one pod.  The selection is a field of    *)
(* config.json (config.py), on a volume that lives as long as the pod;     *)
(* POST /selected_model writes any name into it (main.py:652-666), a query *)
(* takes it over at its launch (agent.py:412-414), and generate, after its *)
(* retrieval, calls whatever model the agent has by then (agent.py:219).   *)
(* Handlers without an await are one step: they run on the event loop.     *)
(***************************************************************************)
EXTENDS Naturals, FiniteSets

CONSTANTS Models,       \* MODELS of the deployment, the available ones
          DefaultModel, \* the first of them
          Unknown,      \* a name a client may send that is not one of them
          Queries,
          MaxSelects,   \* bound: POST /selected_model
          MaxCrashes    \* bound: ends of the container

VARIABLES file,       \* selected_model in config.json, or "missing" or "torn"
          config,     \* ConfigManager.config, "down" while the container is
          current,    \* current_model and model_client of the agent, one assignment
          query,      \* per query: pc and the model that answered it
          chosen,     \* for the properties: what was selected since a query's launch
          selects, crashes
model == <<file, config, current, query, chosen, selects, crashes>>

Names == Models \union {Unknown}

\* A container's configuration always names a model; "down" stands for having none.
ASSUME ModelAssumption == DefaultModel \in Models /\ "down" \notin Names

ModelTypeOK ==
    /\ file \in Names \union {"missing", "torn"}
    /\ config \in Names \union {"down"}
    /\ current \in Models \union {"down"}
    /\ query \in [Queries -> [pc : {"new", "running", "answered", "failed"},
                              model : Models \union {"none"}]]
    /\ chosen \in [Queries -> SUBSET Names]
    /\ selects \in Nat /\ crashes \in Nat

ModelInit ==
    /\ file = "missing" /\ config = "down" /\ current = "down"
    /\ query = [q \in Queries |-> [pc |-> "new", model |-> "none"]]
    /\ chosen = [q \in Queries |-> {}]
    /\ selects = 0 /\ crashes = 0

Up == config # "down"

-----------------------------------------------------------------------------
\* _ensure_config_exists: a missing file, one that does not parse and an unknown
\* selection all give the default.  Then ChatAgent.create takes the selection over.
Start ==
    /\ ~Up
    /\ file' = IF file \in Models THEN file ELSE DefaultModel
    /\ config' = file' /\ current' = file'
    /\ UNCHANGED <<query, chosen, selects, crashes>>

\* updated_selected_model: first the cached configuration, then the file.  A write that
\* fails leaves the old file or an empty one, the client is told of an error, and the
\* selection counts nevertheless, until the container ends.
Select(m, left) ==
    /\ Up
    /\ selects < MaxSelects /\ selects' = selects + 1
    /\ file' = left /\ config' = m
    /\ chosen' = [q \in Queries |-> IF query[q].pc = "running" THEN chosen[q] \union {m} ELSE chosen[q]]
    /\ UNCHANGED <<current, query, crashes>>

\* Slip: the client is made once and kept.
LaunchKeepsClient(q) ==
    /\ Up /\ query[q].pc = "new"
    /\ query' = [query EXCEPT ![q].pc = "running"]
    /\ chosen' = [chosen EXCEPT ![q] = {config}]
    /\ UNCHANGED <<file, config, current, selects, crashes>>

\* Slip: set_current_model takes any name.
LaunchAnyName(q) ==
    /\ Up /\ query[q].pc = "new"
    /\ chosen' = [chosen EXCEPT ![q] = {config}]
    /\ current' = config /\ query' = [query EXCEPT ![q].pc = "running"]
    /\ UNCHANGED <<file, config, selects, crashes>>

\* query(): set_current_model raises for a name that is not available.
Launch(q) ==
    /\ Up /\ query[q].pc = "new"
    /\ chosen' = [chosen EXCEPT ![q] = {config}]
    /\ IF config = current \/ config \in Models
       THEN current' = config /\ query' = [query EXCEPT ![q].pc = "running"]
       ELSE query' = [query EXCEPT ![q].pc = "failed"] /\ UNCHANGED current
    /\ UNCHANGED <<file, config, selects, crashes>>

\* generate, after the retrieval.
Call(q) ==
    /\ Up /\ query[q].pc = "running"
    /\ query' = [query EXCEPT ![q] = [pc |-> "answered", model |-> current]]
    /\ UNCHANGED <<file, config, current, chosen, selects, crashes>>

\* The container ends, maybe inside of a write: open(..., "w") has emptied the file.
\* With a new pod the volume is new too.
Crash(left) ==
    /\ Up
    /\ crashes < MaxCrashes /\ crashes' = crashes + 1
    /\ file' = left /\ config' = "down" /\ current' = "down"
    /\ query' = [q \in Queries |->
                  IF query[q].pc = "running" THEN [query[q] EXCEPT !.pc = "failed"] ELSE query[q]]
    /\ UNCHANGED <<chosen, selects>>

ModelNext == \/ Start
             \/ \E m \in Names : \E left \in {m, file, "torn"} : Select(m, left)
             \/ \E q \in Queries : Launch(q) \/ Call(q)
             \/ \E left \in {file, "torn", "missing"} : Crash(left)

ModelSpec == ModelInit /\ [][ModelNext]_model

-----------------------------------------------------------------------------
(* A query is answered by a model that is available, and that was the pod's selection  *)
(* at some moment between its launch and its call of the model, though other queries   *)
(* replace the client meanwhile, unknown names are selected, writes fail and the       *)
(* container restarts with a broken file.                                              *)
AnsweredBySelection ==
    \A q \in Queries :
      query[q].pc = "answered" => query[q].model \in chosen[q] \intersect Models
=============================================================================
