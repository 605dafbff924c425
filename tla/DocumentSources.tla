---------------------------- MODULE DocumentSources ----------------------------
(***************************************************************************)
(* The documents users upload: the background task that indexes them       *)
(* (utils.py process_and_ingest_files_background), the status its client   *)
(* polls, the row per source in PostgreSQL, the chunks in Milvus, deleting *)
(* a source and selecting the sources to search.                           *)
(*                                                                         *)
(* A source is known by its file name alone: document_sources has          *)
(* source_name as its key, so an upload of a name takes the row of that    *)
(* name over, whoever had it.  Rows, chunks and selections are shared by   *)
(* the pods; the status of a task is in the memory of the pod that runs    *)
(* it.  A step is one SQL statement, one call of Milvus in a thread or one *)
(* HTTP exchange; a pod may stop between any two.                          *)
(***************************************************************************)
EXTENDS Naturals, FiniteSets

CONSTANTS
    Users,
    Names,      \* file names
    Uploads,    \* accepted uploads; one is also its task_id
    Deletes,    \* requests to delete a source
    Choices,    \* requests to select sources
    Pods,
    MaxFaults,  \* bound on failures and restarts
    None

ASSUME DocumentSourcesAssumption ==
    /\ MaxFaults \in Nat
    /\ Uploads \intersect Choices = {} /\ Deletes \intersect (Uploads \union Choices) = {}
    /\ None \notin Uploads \union Users \union Names \union Pods

VARIABLES
    upload,     \* per upload: what was sent, and where its background task is
    status,     \* per upload, its entry of indexing_tasks in its pod's memory
    told,       \* per upload, what the client's polling ended with
    row,        \* document_sources: per name, the upload whose values it has
    chunks,     \* Milvus: the name and the upload of the chunks that are there
    delete,     \* per delete, its request and where it is
    choice,     \* per choice, its request and where it is
    selected,   \* user_preferences: per user, the selected sources
    faults,
    overlap     \* history: the deletes, and what else ever ran at once with them

tasks == <<upload, status, told>>
requests == <<delete, choice>>
stores == <<row, chunks, selected>>
vars == <<tasks, stores, requests, faults, overlap>>

Statuses == {"absent", "queued", "loading_documents", "indexing_documents", "completed", "failed"}
Working == {"queued", "loading", "indexing", "rows"}
Deleting == {"vectors", "prefs", "store"}

\* files are on disk and validated; loaded is those that gave chunks, left
\* those whose row is still to be written.
Upload == [user : Users \union {None}, vis : {"public", "private"}, pod : Pods \union {None},
           files : SUBSET Names, loaded : SUBSET Names, left : SUBSET Names,
           pc : Working \union {"idle", "done", "failed", "lost"}]
Delete == [user : Users \union {None}, name : Names \union {None}, pod : Pods \union {None},
           prefs : SUBSET Names,
           pc : Deleting \union {"idle", "missing", "done", "error", "lost"}]
Choice == [user : Users \union {None}, pod : Pods \union {None}, filtered : SUBSET Names,
           pc : {"idle", "store", "done", "lost"}]

Init ==
    /\ upload = [t \in Uploads |-> [user |-> None, vis |-> "private", pod |-> None, files |-> {},
                                    loaded |-> {}, left |-> {}, pc |-> "idle"]]
    /\ status = [t \in Uploads |-> "absent"]
    /\ told = [t \in Uploads |-> "waiting"]
    /\ row = [n \in Names |-> None]
    /\ chunks = {}
    /\ delete = [d \in Deletes |-> [user |-> None, name |-> None, pod |-> None, prefs |-> {}, pc |-> "idle"]]
    /\ choice = [c \in Choices |-> [user |-> None, pod |-> None, filtered |-> {}, pc |-> "idle"]]
    /\ selected = [u \in Users |-> {}]
    /\ faults = 0
    /\ overlap = {}

----------------------------------------------------------------------------
(* Uploading and indexing *)

\* _update_task_status: an entry that was evicted or died with its pod stays away.
Report(t, s) == status' = [status EXCEPT ![t] = IF @ = "absent" THEN @ ELSE s]

\* The entries _record_task may evict: an hour without a change, by when the
\* client, which polls for five minutes, has stopped.
Stale(p) == {t \in Uploads : upload[t].pod = p /\ told[t] # "waiting"}

\* Slip: the task is queued without its user.
IngestUntagged(t, u, vis, files, p) ==
    /\ upload[t].pc = "idle" /\ files # {} /\ u \in Users
    /\ upload' = [upload EXCEPT ![t] = [user |-> None, vis |-> vis, pod |-> p, files |-> files,
                                        loaded |-> {}, left |-> files, pc |-> "queued"]]
    /\ status' = [status EXCEPT ![t] = "queued"]
    /\ UNCHANGED <<told, stores, requests, faults>>

\* ingest_files, when every file is accepted.  A rejected request removes its
\* files and changes nothing.
Ingest(t, u, vis, files, p) ==
    /\ upload[t].pc = "idle" /\ files # {}
    /\ upload' = [upload EXCEPT ![t] = [user |-> u, vis |-> vis, pod |-> p, files |-> files,
                                        loaded |-> {}, left |-> files, pc |-> "queued"]]
    /\ \E evicted \in SUBSET Stale(p) :
          status' = [x \in Uploads |-> IF x = t THEN "queued" ELSE
                                       IF x \in evicted THEN "absent" ELSE status[x]]
    /\ UNCHANGED <<told, stores, requests, faults>>

StartLoading(t) ==
    /\ upload[t].pc = "queued"
    /\ upload' = [upload EXCEPT ![t].pc = "loading"]
    /\ Report(t, "loading_documents")
    /\ UNCHANGED <<told, stores, requests, faults>>

\* A file that cannot be read, or is empty, is skipped and not an error.
Loaded(t, got) ==
    /\ upload[t].pc = "loading" /\ got \subseteq upload[t].files
    /\ upload' = [upload EXCEPT ![t].pc = "indexing", ![t].loaded = got]
    /\ Report(t, "indexing_documents")
    /\ UNCHANGED <<told, stores, requests, faults>>

ChunksOf(t) == {<<n, t>> : n \in upload[t].loaded}

Index(t) ==
    /\ upload[t].pc = "indexing"
    /\ chunks' = chunks \union ChunksOf(t)
    /\ upload' = [upload EXCEPT ![t].pc = "rows"]
    /\ UNCHANGED <<status, told, row, selected, requests, faults>>

\* add_document_source, INSERT .. ON CONFLICT (source_name) DO UPDATE.
SaveRow(t, n) ==
    /\ upload[t].pc = "rows" /\ n \in upload[t].left
    /\ row' = [row EXCEPT ![n] = t]
    /\ upload' = [upload EXCEPT ![t].left = @ \ {n}]
    /\ UNCHANGED <<status, told, chunks, selected, requests, faults>>

\* Slip: completed is reported before the rows are saved.
CompleteEarly(t) ==
    /\ upload[t].pc = "rows"
    /\ upload' = [upload EXCEPT ![t].pc = IF upload[t].left = {} THEN "done" ELSE @]
    /\ Report(t, "completed")
    /\ UNCHANGED <<told, stores, requests, faults>>

Complete(t) ==
    /\ upload[t].pc = "rows" /\ upload[t].left = {}
    /\ upload' = [upload EXCEPT ![t].pc = "done"]
    /\ Report(t, "completed")
    /\ UNCHANGED <<told, stores, requests, faults>>

\* An exception from Milvus or PostgreSQL.  Chunks go in by batches, so those
\* before the failing one stay.
FailIngest(t) ==
    /\ upload[t].pc \in {"loading", "indexing", "rows"} /\ faults < MaxFaults
    /\ upload[t].pc = "rows" => upload[t].left # {}
    /\ \E kept \in SUBSET ChunksOf(t) :
          /\ upload[t].pc # "indexing" => kept = {}
          /\ chunks' = chunks \union kept
    /\ upload' = [upload EXCEPT ![t].pc = "failed"]
    /\ Report(t, "failed")
    /\ faults' = faults + 1
    /\ UNCHANGED <<told, row, selected, requests>>

\* A poll that reads a final status ends the polling; on any other answer, or
\* none, also the 404 of a pod that does not know the task, it goes on.
Poll(t) ==
    /\ upload[t].pc # "idle" /\ told[t] = "waiting"
    /\ status[t] \in {"completed", "failed"}
    /\ told' = [told EXCEPT ![t] = status[t]]
    /\ UNCHANGED <<upload, status, stores, requests, faults>>

\* Slip: a 404 does not count as an attempt.
GiveUpKnown(t) ==
    /\ upload[t].pc # "idle" /\ told[t] = "waiting" /\ status[t] # "absent"
    /\ told' = [told EXCEPT ![t] = "gave_up"]
    /\ UNCHANGED <<upload, status, stores, requests, faults>>

\* MAX_ATTEMPTS polls without a final status.
GiveUp(t) ==
    /\ upload[t].pc # "idle" /\ told[t] = "waiting"
    /\ told' = [told EXCEPT ![t] = "gave_up"]
    /\ UNCHANGED <<upload, status, stores, requests, faults>>

----------------------------------------------------------------------------
(* Deleting and selecting sources *)

Owner(n) == IF row[n] = None THEN None ELSE upload[row[n]].user
Visible(u) == {n \in Names : row[n] # None /\ (upload[row[n]].vis = "public" \/ Owner(n) = u)}
ChunksOwned(u, n) == {c \in chunks : c[1] = n /\ upload[c[2]].user = u}

\* Slip: the row is deleted by its name alone.
DeleteRowOfAnyone(d, u, n, p) ==
    /\ delete[d].pc = "idle"
    /\ delete' = [delete EXCEPT ![d] = [user |-> u, name |-> n, pod |-> p, prefs |-> {},
                                        pc |-> IF row[n] # None THEN "vectors" ELSE "missing"]]
    /\ row' = [row EXCEPT ![n] = None]
    /\ UNCHANGED <<tasks, chunks, selected, choice, faults>>

\* delete_document_source: only the owner's row is deleted.
DeleteRow(d, u, n, p) ==
    /\ delete[d].pc = "idle"
    /\ delete' = [delete EXCEPT ![d] = [user |-> u, name |-> n, pod |-> p, prefs |-> {},
                                        pc |-> IF Owner(n) = u THEN "vectors" ELSE "missing"]]
    /\ row' = [row EXCEPT ![n] = IF Owner(n) = u THEN None ELSE @]
    /\ UNCHANGED <<tasks, chunks, selected, choice, faults>>

\* Slip: the filter on the chunks leaves the user out.
DeleteVectorsOfAnyone(d) ==
    /\ delete[d].pc = "vectors"
    /\ chunks' = {c \in chunks : c[1] # delete[d].name}
    /\ delete' = [delete EXCEPT ![d].pc = "prefs"]
    /\ UNCHANGED <<tasks, row, selected, choice, faults>>

\* delete_documents_by_source: the caller's chunks of that name, of every upload.
DeleteVectors(d) ==
    /\ delete[d].pc = "vectors"
    /\ chunks' = chunks \ ChunksOwned(delete[d].user, delete[d].name)
    /\ delete' = [delete EXCEPT ![d].pc = "prefs"]
    /\ UNCHANGED <<tasks, row, selected, choice, faults>>

\* Slip: the selection is reset.
ReadPrefsReset(d) ==
    /\ delete[d].pc = "prefs"
    /\ delete' = [delete EXCEPT ![d].prefs = {},
                      ![d].pc = IF delete[d].name \in selected[delete[d].user] THEN "store" ELSE "done"]
    /\ UNCHANGED <<tasks, stores, choice, faults>>

\* The source is taken out of the selection as it was read here ...
ReadPrefs(d) ==
    LET was == selected[delete[d].user] IN
    /\ delete[d].pc = "prefs"
    /\ delete' = [delete EXCEPT ![d].prefs = was \ {delete[d].name},
                                ![d].pc = IF delete[d].name \in was THEN "store" ELSE "done"]
    /\ UNCHANGED <<tasks, stores, choice, faults>>

\* ... and stored here.
StorePrefs(d) ==
    /\ delete[d].pc = "store"
    /\ selected' = [selected EXCEPT ![delete[d].user] = delete[d].prefs]
    /\ delete' = [delete EXCEPT ![d].pc = "done"]
    /\ UNCHANGED <<tasks, row, chunks, choice, faults>>

\* Milvus or PostgreSQL fails: a 500, and what was done stays done.  Milvus may
\* have deleted the chunks when its flush fails.
FailDelete(d) ==
    /\ delete[d].pc \in Deleting /\ faults < MaxFaults
    /\ \/ UNCHANGED chunks
       \/ /\ delete[d].pc = "vectors"
          /\ chunks' = chunks \ ChunksOwned(delete[d].user, delete[d].name)
    /\ delete' = [delete EXCEPT ![d].pc = "error"]
    /\ faults' = faults + 1
    /\ UNCHANGED <<tasks, row, selected, choice>>

\* update_selected_sources reads the names its caller may see ...
Choose(c, u, wanted, p) ==
    /\ choice[c].pc = "idle"
    /\ choice' = [choice EXCEPT ![c] = [user |-> u, pod |-> p, filtered |-> wanted \intersect Visible(u),
                                        pc |-> "store"]]
    /\ UNCHANGED <<tasks, stores, delete, faults>>

\* ... and stores those that were asked for.
StoreChoice(c) ==
    /\ choice[c].pc = "store"
    /\ selected' = [selected EXCEPT ![choice[c].user] = choice[c].filtered]
    /\ choice' = [choice EXCEPT ![c].pc = "done"]
    /\ UNCHANGED <<tasks, row, chunks, delete, faults>>

----------------------------------------------------------------------------
(* A pod restarts: its tasks, its statuses and its requests are gone. *)

Restart(p) ==
    LET on == {t \in Uploads : upload[t].pod = p}
        indexing == {t \in on : upload[t].pc = "indexing"}
    IN
    /\ faults < MaxFaults
    /\ \E kept \in SUBSET UNION {ChunksOf(t) : t \in indexing} : chunks' = chunks \union kept
    /\ upload' = [t \in Uploads |-> IF t \in on /\ upload[t].pc \in Working
                                    THEN [upload[t] EXCEPT !.pc = "lost"] ELSE upload[t]]
    /\ status' = [t \in Uploads |-> IF t \in on THEN "absent" ELSE status[t]]
    /\ delete' = [d \in Deletes |-> IF delete[d].pod = p /\ delete[d].pc \in Deleting
                                    THEN [delete[d] EXCEPT !.pc = "lost"] ELSE delete[d]]
    /\ choice' = [c \in Choices |-> IF choice[c].pod = p /\ choice[c].pc = "store"
                                    THEN [choice[c] EXCEPT !.pc = "lost"] ELSE choice[c]]
    /\ faults' = faults + 1
    /\ UNCHANGED <<told, row, selected>>

TaskStep(t) ==
    \/ StartLoading(t)
    \/ \E got \in SUBSET Names : Loaded(t, got)
    \/ Index(t)
    \/ \E n \in Names : SaveRow(t, n)
    \/ Complete(t)

Step ==
    \/ \E t \in Uploads, u \in Users, vis \in {"public", "private"}, files \in SUBSET Names, p \in Pods :
          Ingest(t, u, vis, files, p)
    \/ \E t \in Uploads : TaskStep(t) \/ FailIngest(t) \/ Poll(t) \/ GiveUp(t)
    \/ \E d \in Deletes, u \in Users, n \in Names, p \in Pods : DeleteRow(d, u, n, p)
    \/ \E d \in Deletes : DeleteVectors(d) \/ ReadPrefs(d) \/ StorePrefs(d) \/ FailDelete(d)
    \/ \E c \in Choices, u \in Users, wanted \in SUBSET Names, p \in Pods : Choose(c, u, wanted, p)
    \/ \E c \in Choices : StoreChoice(c)
    \/ \E p \in Pods : Restart(p)

\* A failed or lost delete has not removed the chunks it may have to remove: it
\* counts as running for the rest of the behaviour.
Running(d) == delete[d].pc \in Deleting \union {"error", "lost"}

Others == Uploads \union Choices \union Deletes

Busy(x) == \/ x \in Uploads /\ upload[x].pc \in Working
           \/ x \in Choices /\ choice[x].pc = "store"
           \/ x \in Deletes /\ delete[x].pc \in Deleting

Next ==
    /\ Step
    /\ overlap' = overlap \union {e \in Deletes \X Others : Running(e[1])' /\ Busy(e[2])'}

Spec == Init /\ [][Next]_vars

\* The loop of the pod runs its tasks, the threads of Milvus return, and a
\* client polls until it stops.
Fairness ==
    \A t \in Uploads : WF_vars(TaskStep(t) /\ Next) /\ WF_vars((Poll(t) \/ GiveUp(t)) /\ Next)

----------------------------------------------------------------------------
(* Properties *)

TypeOK ==
    /\ upload \in [Uploads -> Upload]
    /\ status \in [Uploads -> Statuses]
    /\ told \in [Uploads -> {"waiting", "completed", "failed", "gave_up"}]
    /\ row \in [Names -> Uploads \union {None}]
    /\ chunks \subseteq Names \X Uploads
    /\ delete \in [Deletes -> Delete]
    /\ choice \in [Choices -> Choice]
    /\ selected \in [Users -> SUBSET Names]
    /\ faults \in 0..MaxFaults
    /\ overlap \subseteq Deletes \X Others
    /\ \A t \in Uploads : upload[t].pc # "idle" => upload[t].user # None
    /\ \A n \in Names : row[n] # None => upload[row[n]].pc # "idle"

Saved(t) == upload[t].files \ upload[t].left
Removed(d, n) == delete[d].name = n /\ delete[d].pc # "missing"

\* "... so we only fire onSuccessfulIngestion once the row actually exists"
\* (DocumentIngestion.tsx:83-87): when the client is told completed, every file of the
\* upload has a row, unless someone deleted it; and a failure it is told of did happen.
ListedWhenTold ==
    \A t \in Uploads :
        /\ told[t] = "completed" =>
              \A n \in upload[t].files : row[n] # None \/ \E d \in Deletes : Removed(d, n)
        /\ told[t] = "failed" => upload[t].pc = "failed"

\* A row that counts chunks has them in Milvus, except when a delete of the same source
\* by the same user ran (or broke) while its upload was running.
RowHasItsChunks ==
    \A n \in Names, t \in Uploads :
        row[n] = t /\ n \in upload[t].loaded =>
            \/ <<n, t>> \in chunks
            \/ \E d \in Deletes : delete[d].user = upload[t].user /\ Removed(d, n) /\ <<d, t>> \in overlap

\* Text that can be found can be deleted: the chunks of an upload that ended well are
\* under a row of their user, or a delete of that row has not removed them yet or broke,
\* or another user's upload of the same name took the row over.
ChunksAccounted ==
    \A n \in Names, t \in Uploads :
        <<n, t>> \in chunks /\ upload[t].pc = "done" =>
            \/ Owner(n) = upload[t].user
            \/ \E d \in Deletes : Removed(d, n) /\ delete[d].user = upload[t].user
                                  /\ delete[d].pc \in {"vectors", "error", "lost"}
            \/ \E other \in Uploads : n \in Saved(other) /\ upload[other].user # upload[t].user

\* A selection becomes what its user chose or loses the one source being deleted.
\* (What a choice or another delete stored between the read and the write of a delete is
\* lost: requests that overlapped are let off.)
SelectionIsChosen ==
    [][\A u \in Users : selected'[u] # selected[u] =>
          \/ \E c \in Choices : choice[c].pc = "store" /\ choice'[c].pc = "done"
                                /\ choice[c].user = u /\ selected'[u] = choice[c].filtered
          \/ \E d \in Deletes :
                /\ delete[d].pc = "store" /\ delete'[d].pc = "done" /\ delete[d].user = u
                /\ \/ selected'[u] = selected[u] \ {delete[d].name}
                   \/ \E c \in Choices : choice[c].user = u /\ <<d, c>> \in overlap
                   \/ \E e \in Deletes : e # d /\ delete[e].user = u /\ <<d, e>> \in overlap]_vars

\* Every upload comes to an end, and so does its client's polling, whatever
\* failed and whichever pod restarted.
EveryUploadSettles ==
    \A t \in Uploads : (upload[t].pc = "queued") ~>
        (upload[t].pc \in {"done", "failed", "lost"} /\ told[t] # "waiting")
=============================================================================
