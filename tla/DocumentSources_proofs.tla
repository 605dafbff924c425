------------------------ MODULE DocumentSources_proofs ------------------------
(***************************************************************************)
(* Proofs about DocumentSources, for any users, names, uploads, deletes,   *)
(* choices, pods and number of faults.                                     *)
(***************************************************************************)
EXTENDS DocumentSources, TLAPS

\* An upload that is past the call of Milvus that stores its chunks.
Late == {"rows", "done", "failed", "lost"}

\* The fields of the requests belong together.
Forms ==
    /\ \A t \in Uploads :
         /\ upload[t].left \subseteq upload[t].files /\ upload[t].loaded \subseteq upload[t].files
         /\ upload[t].pc \notin Late => upload[t].left = upload[t].files
         /\ upload[t].pc = "idle" => upload[t].files = {}
         /\ upload[t].pc = "done" => upload[t].left = {}
    /\ \A d \in Deletes :
         /\ delete[d].pc = "idle" => delete[d].name = None /\ delete[d].user = None
         /\ delete[d].pc # "idle" => delete[d].user \in Users /\ delete[d].name \in Names
    /\ \A c \in Choices : choice[c].pc = "idle" => choice[c].user = None
    /\ \A d \in Deletes, x \in Others :
         <<d, x>> \in overlap => delete[d].pc \notin {"idle", "missing"}

-------------------------------------------------------------------------------
\* Type correctness and the forms, over one step.

\* Records of the types, with some fields replaced.
LEMMA UploadRecord ==
    ASSUME NEW r \in Upload, NEW loaded \in SUBSET Names, NEW left \in SUBSET Names,
           NEW pc \in Working \union {"idle", "done", "failed", "lost"}
    PROVE  /\ [r EXCEPT !.pc = pc] \in Upload
           /\ [r EXCEPT !.left = left] \in Upload
           /\ [r EXCEPT !.pc = pc, !.loaded = loaded] \in Upload
BY DEF Upload

LEMMA TypeStep == ASSUME TypeOK, Forms, Step PROVE
    /\ upload' \in [Uploads -> Upload]
    /\ status' \in [Uploads -> Statuses]
    /\ told' \in [Uploads -> {"waiting", "completed", "failed", "gave_up"}]
    /\ row' \in [Names -> Uploads \union {None}]
    /\ chunks' \subseteq Names \X Uploads
    /\ delete' \in [Deletes -> Delete]
    /\ choice' \in [Choices -> Choice]
    /\ selected' \in [Users -> SUBSET Names]
    /\ faults' \in 0..MaxFaults
<1> DEFINE Goal == 
    /\ upload' \in [Uploads -> Upload]
    /\ status' \in [Uploads -> Statuses]
    /\ told' \in [Uploads -> {"waiting", "completed", "failed", "gave_up"}]
    /\ row' \in [Names -> Uploads \union {None}]
    /\ chunks' \subseteq Names \X Uploads
    /\ delete' \in [Deletes -> Delete]
    /\ choice' \in [Choices -> Choice]
    /\ selected' \in [Users -> SUBSET Names]
    /\ faults' \in 0..MaxFaults
<1> USE DocumentSourcesAssumption DEF TypeOK, tasks, requests, stores
<1>1. ASSUME NEW t \in Uploads, NEW u \in Users, NEW vis \in {"public", "private"},
             NEW files \in SUBSET Names, NEW p \in Pods, Ingest(t, u, vis, files, p)
      PROVE  Goal
  BY <1>1 DEF Ingest, Upload, Statuses, Working
<1>2. ASSUME NEW t \in Uploads, StartLoading(t) PROVE Goal
  BY <1>2 DEF StartLoading, Report, Upload, Statuses, Working
<1>3. ASSUME NEW t \in Uploads, NEW got \in SUBSET Names, Loaded(t, got) PROVE Goal
  <2>1. upload' \in [Uploads -> Upload]
    <3>1. upload[t] \in Upload /\ got \in SUBSET Names /\ "indexing" \in Working
      BY <1>3 DEF Working
    <3>2. [upload[t] EXCEPT !.pc = "indexing", !.loaded = got] \in Upload
      BY <3>1, UploadRecord
    <3> QED
      BY <1>3, <3>2 DEF Loaded
  <2>2. status' \in [Uploads -> Statuses]
    BY <1>3 DEF Loaded, Report, Statuses
  <2> QED
    BY <1>3, <2>1, <2>2 DEF Loaded
<1>4. ASSUME NEW t \in Uploads, Index(t) PROVE Goal
  <2>1. upload' \in [Uploads -> Upload]
    <3>1. [upload[t] EXCEPT !.pc = "rows"] \in Upload
      BY UploadRecord DEF Working
    <3> QED
      BY <1>4, <3>1 DEF Index
  <2>2. ChunksOf(t) \subseteq Names \X Uploads
    BY DEF ChunksOf, Upload
  <2> QED
    BY <1>4, <2>1, <2>2 DEF Index
<1>5. ASSUME NEW t \in Uploads, NEW n \in Names, SaveRow(t, n) PROVE Goal
  <2>1. upload' \in [Uploads -> Upload]
    <3>1. upload[t] \in Upload /\ upload[t].left \ {n} \in SUBSET Names
      BY <1>5 DEF Upload
    <3>2. [upload[t] EXCEPT !.left = upload[t].left \ {n}] \in Upload
      BY <3>1, UploadRecord
    <3> QED
      BY <1>5, <3>2 DEF SaveRow
  <2>2. row' \in [Names -> Uploads \union {None}]
    BY <1>5 DEF SaveRow
  <2> QED
    BY <1>5, <2>1, <2>2 DEF SaveRow
<1>6. ASSUME NEW t \in Uploads, Complete(t) PROVE Goal
  <2>1. [upload[t] EXCEPT !.pc = "done"] \in Upload
    BY UploadRecord
  <2> QED
    BY <1>6, <2>1 DEF Complete, Report, Statuses
<1>7. ASSUME NEW t \in Uploads, FailIngest(t) PROVE Goal
  <2>1. upload' \in [Uploads -> Upload]
    <3>1. [upload[t] EXCEPT !.pc = "failed"] \in Upload
      BY UploadRecord
    <3> QED
      BY <1>7, <3>1 DEF FailIngest
  <2>2. status' \in [Uploads -> Statuses]
    BY <1>7 DEF FailIngest, Report, Statuses
  <2>3. chunks' \subseteq Names \X Uploads
    BY <1>7 DEF FailIngest, ChunksOf, Upload
  <2>4. faults' \in 0..MaxFaults
    BY <1>7 DEF FailIngest
  <2> QED
    BY <1>7, <2>1, <2>2, <2>3, <2>4 DEF FailIngest
<1>8. ASSUME NEW t \in Uploads, Poll(t) PROVE Goal
  BY <1>8 DEF Poll
<1>9. ASSUME NEW t \in Uploads, GiveUp(t) PROVE Goal
  BY <1>9 DEF GiveUp
<1>10. ASSUME NEW d \in Deletes, NEW u \in Users, NEW n \in Names, NEW p \in Pods, DeleteRow(d, u, n, p)
       PROVE Goal
  BY <1>10 DEF DeleteRow, Delete, Deleting
<1>11. ASSUME NEW d \in Deletes, DeleteVectors(d) PROVE Goal
  BY <1>11 DEF DeleteVectors, Delete, Deleting
<1>12. ASSUME NEW d \in Deletes, ReadPrefs(d) PROVE Goal
  BY <1>12 DEF ReadPrefs, Delete, Deleting, Forms
<1>13. ASSUME NEW d \in Deletes, StorePrefs(d) PROVE Goal
  <2>1. delete[d] \in Delete /\ delete[d].prefs \in SUBSET Names
    BY <1>13 DEF Delete
  <2>2. [delete[d] EXCEPT !.pc = "done"] \in Delete
    BY <2>1 DEF Delete
  <2>3. selected' \in [Users -> SUBSET Names]
    BY <1>13, <2>1 DEF StorePrefs
  <2>4. delete' \in [Deletes -> Delete]
    BY <1>13, <2>2 DEF StorePrefs
  <2> QED
    BY <1>13, <2>3, <2>4 DEF StorePrefs
<1>14. ASSUME NEW d \in Deletes, FailDelete(d) PROVE Goal
  BY <1>14 DEF FailDelete, Delete, Deleting
<1>15. ASSUME NEW c \in Choices, NEW u \in Users, NEW wanted \in SUBSET Names, NEW p \in Pods,
              Choose(c, u, wanted, p)
       PROVE Goal
  BY <1>15 DEF Choose, Choice
<1>16. ASSUME NEW c \in Choices, StoreChoice(c) PROVE Goal
  BY <1>16 DEF StoreChoice, Choice
<1>17. ASSUME NEW p \in Pods, Restart(p) PROVE Goal
  <2>1. upload' \in [Uploads -> Upload]
    <3>1. \A t \in Uploads : [upload[t] EXCEPT !.pc = "lost"] \in Upload
      BY UploadRecord
    <3> QED
      BY <1>17, <3>1 DEF Restart
  <2>2. status' \in [Uploads -> Statuses]
    BY <1>17 DEF Restart, Statuses
  <2>3. delete' \in [Deletes -> Delete]
    <3>1. \A d \in Deletes : [delete[d] EXCEPT !.pc = "lost"] \in Delete
      BY DEF Delete
    <3> QED
      BY <1>17, <3>1 DEF Restart
  <2>4. choice' \in [Choices -> Choice]
    BY <1>17 DEF Restart, Choice
  <2>5. \A t \in Uploads : ChunksOf(t) \subseteq Names \X Uploads
    BY DEF ChunksOf, Upload
  <2>6. chunks' \subseteq Names \X Uploads
    BY <1>17, <2>5 DEF Restart
  <2>7. faults' \in 0..MaxFaults
    BY <1>17 DEF Restart
  <2> QED
    BY <1>17, <2>1, <2>2, <2>3, <2>4, <2>6, <2>7 DEF Restart
<1> HIDE DEF Goal, TypeOK, tasks, requests, stores
<1>18. Goal
  BY <1>1, <1>2, <1>3, <1>4, <1>5, <1>6, <1>7, <1>8, <1>9, <1>10, <1>11, <1>12, <1>13, <1>14,
     <1>15, <1>16, <1>17 DEF Step, TaskStep
<1> QED
  BY <1>18 DEF Goal

-------------------------------------------------------------------------------
(* What any step does to one upload, one delete, the rows, the chunks and what the *)
(* client is told.  The invariants below need no more than this of the actions.    *)

UploadMoves(t) ==
    /\ upload[t].pc # "idle" =>
         /\ upload'[t].user = upload[t].user /\ upload'[t].files = upload[t].files
         /\ upload'[t].pc # "idle"
    /\ upload[t].pc = "idle" =>
         \/ upload'[t] = upload[t]
         \/ /\ upload'[t].pc = "queued" /\ upload'[t].user # None
            /\ upload'[t].loaded = {} /\ upload'[t].left = upload'[t].files
    /\ upload[t].pc \in Late =>
         /\ upload'[t].loaded = upload[t].loaded /\ upload'[t].pc \in Late
         /\ upload[t].pc # "rows" => upload'[t].left = upload[t].left
    /\ upload[t].pc \notin Late \union {"idle"} =>
         /\ upload'[t].left = upload[t].left /\ upload'[t].loaded \subseteq upload'[t].files
    /\ upload[t].pc \notin Late /\ upload'[t].pc \in Late => upload'[t].loaded = upload[t].loaded
    /\ upload[t].pc # "rows" /\ upload'[t].pc = "rows" => upload[t].pc = "indexing"
    /\ upload[t].pc = "rows" =>
         \/ upload'[t].left = upload[t].left
         \/ \E n \in upload[t].left : /\ row'[n] = t /\ upload'[t].pc = "rows"
                                      /\ upload'[t].left = upload[t].left \ {n}
    /\ upload'[t].pc = "done" /\ upload[t].pc # "done" => upload'[t].left = {}
    /\ upload[t].pc \in {"done", "failed"} => upload'[t].pc = upload[t].pc

DeleteMoves(d) ==
    /\ delete[d].pc # "idle" =>
         /\ delete'[d].user = delete[d].user /\ delete'[d].name = delete[d].name
         /\ delete'[d].pc # "idle" /\ (delete'[d].pc = "missing" => delete[d].pc = "missing")
    /\ delete[d].pc = "idle" =>
         \/ delete'[d] = delete[d]
         \/ /\ delete'[d].pc \in {"vectors", "missing"}
            /\ delete'[d].user \in Users /\ delete'[d].name \in Names
            /\ delete'[d].pc = "vectors" => row'[delete'[d].name] = None
    /\ delete'[d].pc = "vectors" => delete[d].pc \in {"idle", "vectors"}
    /\ delete[d].pc \in {"error", "lost"} => delete'[d].pc = delete[d].pc
    /\ delete[d].pc = "vectors" =>
         \/ delete'[d].pc \in {"vectors", "error", "lost"}
         \/ /\ delete'[d].pc = "prefs"
            /\ chunks' = chunks \ ChunksOwned(delete[d].user, delete[d].name)

RowMoves(n) ==
    \/ row'[n] = row[n]
    \/ \E t \in Uploads :
         /\ row'[n] = t /\ upload[t].pc = "rows" /\ upload'[t].pc = "rows"
         /\ n \in upload[t].left /\ n \notin upload'[t].left
    \/ row'[n] = None /\ \E d \in Deletes :
         /\ delete[d].pc = "idle" /\ delete'[d].pc = "vectors"
         /\ delete'[d].name = n /\ delete'[d].user = Owner(n)

ChunkMoves(n, t) ==
    /\ <<n, t>> \in chunks' => \/ <<n, t>> \in chunks
                               \/ /\ n \in upload[t].loaded /\ upload[t].pc = "indexing"
                                  /\ upload'[t].pc \in Late
    /\ upload[t].pc # "rows" /\ upload'[t].pc = "rows" /\ n \in upload[t].loaded => <<n, t>> \in chunks'
    /\ <<n, t>> \in chunks /\ <<n, t>> \notin chunks' =>
         \E d \in Deletes : /\ delete[d].pc = "vectors" /\ delete'[d].pc \in {"prefs", "error"}
                            /\ delete[d].name = n /\ delete[d].user = upload[t].user

ToldMoves(t) ==
    /\ status'[t] = "completed" => status[t] = "completed" \/ upload'[t].pc = "done"
    /\ status'[t] = "failed" => status[t] = "failed" \/ upload'[t].pc = "failed"
    /\ told'[t] \in {"completed", "failed"} => told'[t] \in {told[t], status[t]}

Moves == /\ \A t \in Uploads : UploadMoves(t) /\ ToldMoves(t)
         /\ \A d \in Deletes : DeleteMoves(d)
         /\ \A n \in Names : RowMoves(n) /\ \A t \in Uploads : ChunkMoves(n, t)

\* What does not change moves nothing.
LEMMA SameUpload == ASSUME Forms PROVE \A t \in Uploads : upload'[t] = upload[t] => UploadMoves(t)
BY DEF UploadMoves, Forms
LEMMA SameTold == UNCHANGED <<status, told>> => \A t \in Uploads : ToldMoves(t)
BY DEF ToldMoves
LEMMA SameDeletes == UNCHANGED delete => \A d \in Deletes : DeleteMoves(d)
BY DEF DeleteMoves
LEMMA SameRows == UNCHANGED row => \A n \in Names : RowMoves(n)
BY DEF RowMoves
LEMMA SameChunks ==
    UNCHANGED chunks /\ (\A t \in Uploads : upload'[t].pc = "rows" => upload[t].pc = "rows") =>
        \A n \in Names, t \in Uploads : ChunkMoves(n, t)
BY DEF ChunkMoves

\* The actions of an upload t.
LEMMA MovesOfUploads ==
    ASSUME TypeOK, Forms, NEW t \in Uploads,
           \/ \E u \in Users, vis \in {"public", "private"}, files \in SUBSET Names, p \in Pods :
                Ingest(t, u, vis, files, p)
           \/ TaskStep(t) \/ FailIngest(t) \/ Poll(t) \/ GiveUp(t)
    PROVE  Moves
<1>0. /\ upload \in [Uploads -> Upload] /\ status \in [Uploads -> Statuses]
      /\ row \in [Names -> Uploads \union {None}]
      /\ told \in [Uploads -> {"waiting", "completed", "failed", "gave_up"}]
  BY DEF TypeOK
<1>1. ASSUME NEW u \in Users, NEW vis \in {"public", "private"},
             NEW files \in SUBSET Names, NEW p \in Pods, Ingest(t, u, vis, files, p)
      PROVE  Moves
  <2>1. \A x \in Uploads : UploadMoves(x)
    <3>1. UploadMoves(t)
      BY <1>0, <1>1, DocumentSourcesAssumption DEF Ingest, UploadMoves, Late
    <3>2. \A x \in Uploads \ {t} : upload'[x] = upload[x]
      BY <1>0, <1>1 DEF Ingest
    <3> QED
      BY <3>1, <3>2, SameUpload
  <2>2. \A x \in Uploads : ToldMoves(x)
    BY <1>0, <1>1 DEF Ingest, ToldMoves
  <2>3. \A n \in Names, x \in Uploads : ChunkMoves(n, x)
    BY <1>0, <1>1, SameChunks DEF Ingest, stores
  <2> QED
    BY <1>1, <2>1, <2>2, <2>3, SameDeletes, SameRows DEF Ingest, stores, requests, Moves
<1>2. ASSUME StartLoading(t) PROVE Moves
  <2>1. \A x \in Uploads : UploadMoves(x)
    <3>1. UploadMoves(t)
      BY <1>0, <1>2 DEF StartLoading, UploadMoves, Late, Forms
    <3>2. \A x \in Uploads \ {t} : upload'[x] = upload[x]
      BY <1>0, <1>2 DEF StartLoading
    <3> QED
      BY <3>1, <3>2, SameUpload
  <2>2. \A x \in Uploads : ToldMoves(x)
    BY <1>0, <1>2 DEF StartLoading, Report, ToldMoves
  <2>3. \A n \in Names, x \in Uploads : ChunkMoves(n, x)
    BY <1>0, <1>2, SameChunks DEF StartLoading, stores
  <2> QED
    BY <1>2, <2>1, <2>2, <2>3, SameDeletes, SameRows DEF StartLoading, stores, requests, Moves
<1>3. ASSUME NEW got \in SUBSET Names, Loaded(t, got) PROVE Moves
  <2>1. \A x \in Uploads : UploadMoves(x)
    <3>1. UploadMoves(t)
      BY <1>0, <1>3 DEF Loaded, UploadMoves, Late, Forms
    <3>2. \A x \in Uploads \ {t} : upload'[x] = upload[x]
      BY <1>0, <1>3 DEF Loaded
    <3> QED
      BY <3>1, <3>2, SameUpload
  <2>2. \A x \in Uploads : ToldMoves(x)
    BY <1>0, <1>3 DEF Loaded, Report, ToldMoves
  <2>3. \A n \in Names, x \in Uploads : ChunkMoves(n, x)
    BY <1>0, <1>3, SameChunks DEF Loaded, stores
  <2> QED
    BY <1>3, <2>1, <2>2, <2>3, SameDeletes, SameRows DEF Loaded, stores, requests, Moves
<1>4. ASSUME Index(t) PROVE Moves
  <2>1. \A x \in Uploads : UploadMoves(x)
    <3>1. UploadMoves(t)
      BY <1>0, <1>4 DEF Index, UploadMoves, Late, Forms
    <3>2. \A x \in Uploads \ {t} : upload'[x] = upload[x]
      BY <1>0, <1>4 DEF Index
    <3> QED
      BY <3>1, <3>2, SameUpload
  <2>2. \A n \in Names, x \in Uploads : ChunkMoves(n, x)
    BY <1>0, <1>4 DEF Index, ChunkMoves, ChunksOf, Late
  <2> QED
    BY <1>4, <2>1, <2>2, SameTold, SameDeletes, SameRows DEF Index, requests, Moves
<1>5. ASSUME NEW n \in Names, SaveRow(t, n) PROVE Moves
  <2>0. /\ upload'[t] = [upload[t] EXCEPT !.left = upload[t].left \ {n}]
        /\ \A x \in Uploads \ {t} : upload'[x] = upload[x]
        /\ row' = [row EXCEPT ![n] = t] /\ upload[t].pc = "rows" /\ n \in upload[t].left
        /\ upload[t] \in Upload
    BY <1>0, <1>5 DEF SaveRow
  <2>1. \A x \in Uploads : UploadMoves(x)
    <3>1. UploadMoves(t)
      BY <1>0, <2>0 DEF UploadMoves, Late, Forms, Upload
    <3> QED
      BY <2>0, <3>1, SameUpload
  <2>2. \A m \in Names : RowMoves(m)
    BY <1>0, <2>0 DEF RowMoves, Upload
  <2>3. \A m \in Names, x \in Uploads : ChunkMoves(m, x)
    BY <1>0, <1>5, <2>0, SameChunks DEF SaveRow, Upload
  <2> QED
    BY <1>5, <2>1, <2>2, <2>3, SameTold, SameDeletes DEF SaveRow, requests, Moves
<1>6. ASSUME Complete(t) PROVE Moves
  <2>1. \A x \in Uploads : UploadMoves(x)
    <3>1. UploadMoves(t)
      BY <1>0, <1>6 DEF Complete, UploadMoves, Late, Forms
    <3>2. \A x \in Uploads \ {t} : upload'[x] = upload[x]
      BY <1>0, <1>6 DEF Complete
    <3> QED
      BY <3>1, <3>2, SameUpload
  <2>2. \A x \in Uploads : ToldMoves(x)
    BY <1>0, <1>6 DEF Complete, Report, ToldMoves
  <2>3. \A n \in Names, x \in Uploads : ChunkMoves(n, x)
    BY <1>0, <1>6, SameChunks DEF Complete, stores
  <2> QED
    BY <1>6, <2>1, <2>2, <2>3, SameDeletes, SameRows DEF Complete, stores, requests, Moves
<1>7. ASSUME FailIngest(t) PROVE Moves
  <2>0. /\ upload' = [upload EXCEPT ![t].pc = "failed"] /\ upload[t].pc \in {"loading", "indexing", "rows"}
        /\ \E kept \in SUBSET ChunksOf(t) : /\ upload[t].pc # "indexing" => kept = {}
                                            /\ chunks' = chunks \union kept
    BY <1>7 DEF FailIngest
  <2>1. \A x \in Uploads : UploadMoves(x)
    <3>1. UploadMoves(t)
      BY <1>0, <2>0 DEF UploadMoves, Late, Forms
    <3>2. \A x \in Uploads \ {t} : upload'[x] = upload[x]
      BY <1>0, <2>0
    <3> QED
      BY <3>1, <3>2, SameUpload
  <2>2. \A x \in Uploads : ToldMoves(x)
    BY <1>0, <1>7, <2>0 DEF FailIngest, Report, ToldMoves
  <2>3. \A n \in Names, x \in Uploads : ChunkMoves(n, x)
    BY <1>0, <2>0 DEF ChunkMoves, ChunksOf, Late
  <2> QED
    BY <1>7, <2>1, <2>2, <2>3, SameDeletes, SameRows DEF FailIngest, requests, Moves
<1>8. ASSUME Poll(t) \/ GiveUp(t) PROVE Moves
  <2>1. \A x \in Uploads : ToldMoves(x)
    BY <1>0, <1>8 DEF Poll, GiveUp, ToldMoves
  <2> QED
    BY <1>8, <2>1, SameUpload, SameDeletes, SameRows, SameChunks DEF Poll, GiveUp, stores, requests, Moves
<1> QED
  BY <1>1, <1>2, <1>3, <1>4, <1>5, <1>6, <1>7, <1>8 DEF TaskStep

\* The requests, and a restart.
LEMMA MovesOfRequests ==
    ASSUME TypeOK, Forms,
           \/ \E d \in Deletes, u \in Users, n \in Names, p \in Pods : DeleteRow(d, u, n, p)
           \/ \E d \in Deletes : DeleteVectors(d) \/ ReadPrefs(d) \/ StorePrefs(d) \/ FailDelete(d)
           \/ \E c \in Choices, u \in Users, wanted \in SUBSET Names, p \in Pods : Choose(c, u, wanted, p)
           \/ \E c \in Choices : StoreChoice(c)
           \/ \E p \in Pods : Restart(p)
           \/ UNCHANGED vars
    PROVE  Moves
<1>0. /\ upload \in [Uploads -> Upload] /\ status \in [Uploads -> Statuses]
      /\ row \in [Names -> Uploads \union {None}] /\ delete \in [Deletes -> Delete]
      /\ told \in [Uploads -> {"waiting", "completed", "failed", "gave_up"}]
  BY DEF TypeOK
<1>1. ASSUME NEW d \in Deletes, NEW u \in Users, NEW n \in Names, NEW p \in Pods, DeleteRow(d, u, n, p)
      PROVE  Moves
  <2>0. /\ delete[d].pc = "idle" /\ UNCHANGED <<upload, status, told, chunks>>
        /\ delete'[d] = [user |-> u, name |-> n, pod |-> p, prefs |-> {},
                         pc |-> IF Owner(n) = u THEN "vectors" ELSE "missing"]
        /\ \A e \in Deletes \ {d} : delete'[e] = delete[e]
        /\ row'[n] = IF Owner(n) = u THEN None ELSE row[n]
        /\ \A m \in Names \ {n} : row'[m] = row[m]
    BY <1>0, <1>1 DEF DeleteRow, tasks
  <2>1. \A e \in Deletes : DeleteMoves(e)
    BY <1>0, <2>0 DEF DeleteMoves
  <2>2. \A m \in Names : RowMoves(m)
    BY <1>0, <2>0 DEF RowMoves
  <2> QED
    BY <2>0, <2>1, <2>2, SameUpload, SameTold, SameChunks DEF Moves
<1>2. ASSUME NEW d \in Deletes, DeleteVectors(d) PROVE Moves
  <2>0. /\ delete[d].pc = "vectors" /\ UNCHANGED <<upload, status, told, row>>
        /\ delete'[d] = [delete[d] EXCEPT !.pc = "prefs"]
        /\ \A e \in Deletes \ {d} : delete'[e] = delete[e]
        /\ chunks' = chunks \ ChunksOwned(delete[d].user, delete[d].name)
    BY <1>0, <1>2 DEF DeleteVectors, tasks
  <2>1. \A e \in Deletes : DeleteMoves(e)
    BY <1>0, <2>0 DEF DeleteMoves, Delete
  <2>2. \A n \in Names, t \in Uploads : ChunkMoves(n, t)
    BY <1>0, <2>0 DEF ChunkMoves, ChunksOwned, Delete
  <2> QED
    BY <2>0, <2>1, <2>2, SameUpload, SameTold, SameRows DEF Moves
<1>3. ASSUME NEW d \in Deletes, ReadPrefs(d) \/ StorePrefs(d) PROVE Moves
  <2>0. /\ delete[d].pc \in {"prefs", "store"} /\ UNCHANGED <<upload, status, told, row, chunks>>
        /\ delete'[d].user = delete[d].user /\ delete'[d].name = delete[d].name
        /\ delete'[d].pc \in {"store", "done"}
        /\ \A e \in Deletes \ {d} : delete'[e] = delete[e]
    BY <1>0, <1>3 DEF ReadPrefs, StorePrefs, tasks, stores, Delete
  <2>1. \A e \in Deletes : DeleteMoves(e)
    BY <1>0, <2>0 DEF DeleteMoves
  <2> QED
    BY <2>0, <2>1, SameUpload, SameTold, SameRows, SameChunks DEF Moves
<1>4. ASSUME NEW d \in Deletes, FailDelete(d) PROVE Moves
  <2>0. /\ delete[d].pc \in Deleting /\ UNCHANGED <<upload, status, told, row>>
        /\ delete'[d] = [delete[d] EXCEPT !.pc = "error"]
        /\ \A e \in Deletes \ {d} : delete'[e] = delete[e]
        /\ \/ UNCHANGED chunks
           \/ delete[d].pc = "vectors" /\ chunks' = chunks \ ChunksOwned(delete[d].user, delete[d].name)
    BY <1>0, <1>4 DEF FailDelete, tasks
  <2>1. \A e \in Deletes : DeleteMoves(e)
    BY <1>0, <2>0 DEF DeleteMoves, Deleting, Delete
  <2>2. \A n \in Names, t \in Uploads : ChunkMoves(n, t)
    BY <1>0, <2>0 DEF ChunkMoves, ChunksOwned, Delete
  <2> QED
    BY <2>0, <2>1, <2>2, SameUpload, SameTold, SameRows DEF Moves
<1>5. ASSUME \/ \E c \in Choices, u \in Users, wanted \in SUBSET Names, p \in Pods : Choose(c, u, wanted, p)
             \/ \E c \in Choices : StoreChoice(c)
             \/ UNCHANGED vars
      PROVE  Moves
  <2>1. UNCHANGED <<upload, status, told, row, chunks, delete>>
    BY <1>5 DEF Choose, StoreChoice, vars, tasks, stores, requests
  <2> QED
    BY <2>1, SameUpload, SameTold, SameRows, SameChunks, SameDeletes DEF Moves
<1>6. ASSUME NEW p \in Pods, Restart(p) PROVE Moves
  <2>0. /\ UNCHANGED <<told, row>>
        /\ \A t \in Uploads : \/ upload'[t] = upload[t]
                              \/ /\ upload'[t] = [upload[t] EXCEPT !.pc = "lost"]
                                 /\ upload[t].pc \in Working
        /\ \A t \in Uploads : status'[t] \in {status[t], "absent"}
        /\ \A d \in Deletes : \/ delete'[d] = delete[d]
                              \/ /\ delete'[d] = [delete[d] EXCEPT !.pc = "lost"]
                                 /\ delete[d].pc \in Deleting
    BY <1>0, <1>6 DEF Restart
  <2>1. ASSUME NEW t \in Uploads PROVE UploadMoves(t)
    <3>1. CASE upload'[t] = upload[t]
      BY <3>1, SameUpload
    <3>2. CASE upload'[t] = [upload[t] EXCEPT !.pc = "lost"] /\ upload[t].pc \in Working
      <4>1. upload[t] \in Upload
        BY <1>0
      <4>2. /\ upload'[t].user = upload[t].user /\ upload'[t].files = upload[t].files
            /\ upload'[t].loaded = upload[t].loaded /\ upload'[t].left = upload[t].left
            /\ upload'[t].pc = "lost"
        BY <3>2, <4>1 DEF Upload
      <4> QED
        BY <3>2, <4>2 DEF UploadMoves, Forms, Late, Working
    <3> QED
      BY <2>0, <3>1, <3>2
  <2>2. ASSUME NEW d \in Deletes PROVE DeleteMoves(d)
    <3>1. CASE delete'[d] = delete[d]
      BY <3>1 DEF DeleteMoves
    <3>2. CASE delete'[d] = [delete[d] EXCEPT !.pc = "lost"] /\ delete[d].pc \in Deleting
      <4>1. delete[d] \in Delete
        BY <1>0
      <4>2. /\ delete'[d].user = delete[d].user /\ delete'[d].name = delete[d].name
            /\ delete'[d].pc = "lost"
        BY <3>2, <4>1 DEF Delete
      <4> QED
        BY <3>2, <4>2 DEF DeleteMoves, Deleting
    <3> QED
      BY <2>0, <3>1, <3>2
  <2>3. \A t \in Uploads : ToldMoves(t)
    BY <1>0, <2>0 DEF ToldMoves
  <2>4. \A n \in Names, t \in Uploads : ChunkMoves(n, t)
    <3>1. PICK kept \in SUBSET UNION {ChunksOf(t) : t \in {x \in Uploads : upload[x].pod = p /\ upload[x].pc = "indexing"}} :
            chunks' = chunks \union kept
      BY <1>6 DEF Restart
    <3>2. \A n, t : <<n, t>> \in kept =>
            t \in Uploads /\ n \in upload[t].loaded /\ upload[t].pod = p /\ upload[t].pc = "indexing"
      BY <3>1 DEF ChunksOf
    <3>3. \A t \in Uploads : upload[t].pod = p /\ upload[t].pc = "indexing" => upload'[t].pc = "lost"
      BY <1>0, <1>6 DEF Restart, Working
    <3>4. \A t \in Uploads : upload'[t].pc = "rows" => upload[t].pc = "rows"
      <4>1. \A t \in Uploads : upload[t] \in Upload
        BY <1>0
      <4> QED
        BY <2>0, <4>1 DEF Upload
    <3> QED
      BY <3>1, <3>2, <3>3, <3>4 DEF ChunkMoves, Late
  <2> QED
    BY <2>0, <2>1, <2>2, <2>3, <2>4, SameRows DEF Moves
<1> QED
  BY <1>1, <1>2, <1>3, <1>4, <1>5, <1>6

LEMMA StepMoves == ASSUME TypeOK, Forms, [Next]_vars PROVE Moves
BY MovesOfUploads, MovesOfRequests DEF Next, Step

\* What any step does to the choices and the selections.
SelectionMoves ==
    /\ \A c \in Choices :
         /\ choice[c].pc = "idle" => choice'[c] = choice[c] \/ choice'[c].pc = "store"
         /\ choice[c].pc # "idle" => choice'[c].user = choice[c].user /\ choice'[c].pc # "idle"
    /\ \A d \in Deletes : delete'[d].pc = "store" =>
         \/ delete[d].pc = "store" /\ delete'[d].prefs = delete[d].prefs
         \/ /\ delete[d].pc = "prefs" /\ UNCHANGED selected
            /\ delete'[d].prefs = selected[delete[d].user] \ {delete[d].name}
    /\ \A u \in Users : selected'[u] # selected[u] =>
         \/ \E c \in Choices : choice[c].pc = "store" /\ choice'[c].pc = "done"
                               /\ choice[c].user = u /\ selected'[u] = choice[c].filtered
         \/ \E d \in Deletes : delete[d].pc = "store" /\ delete'[d].pc = "done"
                               /\ delete[d].user = u /\ selected'[u] = delete[d].prefs

\* Steps that leave choices and selections alone and are of no delete.
LEMMA SameSelections == UNCHANGED <<delete, choice, selected>> => SelectionMoves
BY DEF SelectionMoves

LEMMA StepMovesSelections == ASSUME TypeOK, [Next]_vars PROVE SelectionMoves
<1>0. /\ delete \in [Deletes -> Delete] /\ choice \in [Choices -> Choice]
      /\ selected \in [Users -> SUBSET Names]
  BY DEF TypeOK
<1>1. ASSUME NEW t \in Uploads, NEW u \in Users, NEW vis \in {"public", "private"},
             NEW files \in SUBSET Names, NEW p \in Pods, Ingest(t, u, vis, files, p)
      PROVE  SelectionMoves
  BY <1>1, SameSelections DEF Ingest, requests, stores
<1>2. ASSUME NEW t \in Uploads, TaskStep(t) PROVE SelectionMoves
  BY <1>2, SameSelections DEF TaskStep, StartLoading, Loaded, Index, SaveRow, Complete, requests, stores
<1>3. ASSUME NEW t \in Uploads, FailIngest(t) \/ Poll(t) \/ GiveUp(t) PROVE SelectionMoves
  BY <1>3, SameSelections DEF FailIngest, Poll, GiveUp, requests, stores
<1>4. ASSUME NEW d \in Deletes, NEW u \in Users, NEW n \in Names, NEW p \in Pods, DeleteRow(d, u, n, p)
      PROVE  SelectionMoves
  BY <1>0, <1>4 DEF DeleteRow, SelectionMoves
<1>5. ASSUME NEW d \in Deletes, DeleteVectors(d) PROVE SelectionMoves
  BY <1>0, <1>5 DEF DeleteVectors, SelectionMoves
<1>6. ASSUME NEW d \in Deletes, ReadPrefs(d) PROVE SelectionMoves
  <2>1. /\ delete[d].pc = "prefs" /\ UNCHANGED <<choice, selected>>
        /\ \A e \in Deletes \ {d} : delete'[e] = delete[e]
        /\ delete'[d].prefs = selected[delete[d].user] \ {delete[d].name}
    BY <1>0, <1>6 DEF ReadPrefs, stores, Delete
  <2> QED
    BY <2>1 DEF SelectionMoves
<1>7. ASSUME NEW d \in Deletes, StorePrefs(d) PROVE SelectionMoves
  <2>1. /\ delete[d].pc = "store" /\ UNCHANGED choice
        /\ \A e \in Deletes \ {d} : delete'[e] = delete[e]
        /\ delete'[d].pc = "done"
        /\ \A u \in Users : IF u = delete[d].user THEN selected'[u] = delete[d].prefs
                            ELSE selected'[u] = selected[u]
    BY <1>0, <1>7 DEF StorePrefs, Delete
  <2> QED
    BY <2>1 DEF SelectionMoves
<1>8. ASSUME NEW d \in Deletes, FailDelete(d) PROVE SelectionMoves
  BY <1>0, <1>8 DEF FailDelete, SelectionMoves
<1>9. ASSUME NEW c \in Choices, NEW u \in Users, NEW wanted \in SUBSET Names, NEW p \in Pods,
             Choose(c, u, wanted, p)
      PROVE  SelectionMoves
  <2>1. /\ choice[c].pc = "idle" /\ choice'[c].pc = "store" /\ UNCHANGED <<selected, delete>>
        /\ \A b \in Choices \ {c} : choice'[b] = choice[b]
    BY <1>0, <1>9 DEF Choose, stores
  <2> QED
    BY <2>1 DEF SelectionMoves
<1>10. ASSUME NEW c \in Choices, StoreChoice(c) PROVE SelectionMoves
  <2>1. /\ choice[c].pc = "store" /\ UNCHANGED delete
        /\ \A b \in Choices \ {c} : choice'[b] = choice[b]
        /\ choice'[c].pc = "done" /\ choice'[c].user = choice[c].user
        /\ \A u \in Users : IF u = choice[c].user THEN selected'[u] = choice[c].filtered
                            ELSE selected'[u] = selected[u]
    BY <1>0, <1>10 DEF StoreChoice, Choice
  <2> QED
    BY <2>1 DEF SelectionMoves
<1>11. ASSUME NEW p \in Pods, Restart(p) PROVE SelectionMoves
  <2>1. /\ \A c \in Choices : choice'[c].user = choice[c].user /\ (choice'[c].pc = choice[c].pc \/ choice'[c].pc = "lost")
        /\ \A c \in Choices : choice[c].pc = "idle" => choice'[c] = choice[c]
    BY <1>0, <1>11 DEF Restart, Choice
  <2>2. \A d \in Deletes : delete'[d] = delete[d] \/ delete'[d].pc = "lost"
    BY <1>0, <1>11 DEF Restart, Delete
  <2>3. UNCHANGED selected
    BY <1>11 DEF Restart
  <2> QED
    BY <2>1, <2>2, <2>3 DEF SelectionMoves
<1>12. ASSUME UNCHANGED vars PROVE SelectionMoves
  BY <1>12, SameSelections DEF vars, requests, stores
<1> QED
  BY <1>1, <1>2, <1>3, <1>4, <1>5, <1>6, <1>7, <1>8, <1>9, <1>10, <1>11, <1>12 DEF Next, Step

-------------------------------------------------------------------------------
\* The inductive invariant.

\* The history misses no pair that runs at once.
Overlapping ==
    \A d \in Deletes, x \in Others : Running(d) /\ Busy(x) => <<d, x>> \in overlap

\* Rows and chunks come from the late part of a task.
FromLate ==
    /\ \A n \in Names, t \in Uploads : row[n] = t => upload[t].pc \in Late
    /\ \A n \in Names, t \in Uploads :
         <<n, t>> \in chunks => upload[t].pc \in Late /\ n \in upload[t].loaded

\* A delete of the same source and user met the upload.
Met(n, t) == \E d \in Deletes : delete[d].user = upload[t].user /\ Removed(d, n) /\ <<d, t>> \in overlap

\* What an upload indexed is there from before it writes its rows.  A row that appears
\* under a delete whose call of Milvus is still to come was written by an upload it met.
Indexed ==
    /\ \A n \in Names, t \in Uploads :
         (row[n] = t \/ upload[t].pc = "rows") /\ n \in upload[t].loaded =>
            <<n, t>> \in chunks \/ Met(n, t)
    /\ \A d \in Deletes, t \in Uploads :
         delete[d].pc = "vectors" /\ row[delete[d].name] = t => <<d, t>> \in overlap

\* Whose row, or which delete, a saved file's chunks are still waiting for.
Accounted(n, t) ==
    \/ Owner(n) = upload[t].user
    \/ \E d \in Deletes : Removed(d, n) /\ delete[d].user = upload[t].user
                          /\ delete[d].pc \in {"vectors", "error", "lost"}
    \/ \E other \in Uploads : n \in Saved(other) /\ upload[other].user # upload[t].user

SavedAccounted == \A n \in Names, t \in Uploads : <<n, t>> \in chunks /\ n \in Saved(t) => Accounted(n, t)

\* A saved file has a row unless someone deleted it; a final status is the task's end.
SavedListed == \A n \in Names, t \in Uploads :
    n \in Saved(t) => row[n] # None \/ \E d \in Deletes : Removed(d, n)
FinalStatus == \A t \in Uploads :
    /\ "completed" \in {status[t], told[t]} => upload[t].pc = "done"
    /\ "failed" \in {status[t], told[t]} => upload[t].pc = "failed"

\* What a delete is about to store is the selection as it is, without its source, unless
\* another request of the same user met it.
MetRequest(d) ==
    \/ \E c \in Choices : choice[c].user = delete[d].user /\ <<d, c>> \in overlap
    \/ \E e \in Deletes : e # d /\ delete[e].user = delete[d].user /\ <<d, e>> \in overlap

FreshPrefs == \A d \in Deletes :
    delete[d].pc = "store" => \/ delete[d].prefs = selected[delete[d].user] \ {delete[d].name}
                              \/ MetRequest(d)

IInv == /\ TypeOK /\ Forms /\ Overlapping /\ FromLate /\ Indexed /\ SavedAccounted /\ SavedListed
        /\ FinalStatus /\ FreshPrefs

LEMMA InitIInv == Init => IInv
<1> SUFFICES ASSUME Init PROVE IInv
  OBVIOUS
<1> USE DocumentSourcesAssumption DEF Init
<1>1. TypeOK
  BY DEF TypeOK, Upload, Delete, Choice, Statuses
<1>2. Forms /\ Overlapping /\ FromLate /\ FinalStatus /\ FreshPrefs
  BY DEF Forms, Overlapping, FromLate, FinalStatus, FreshPrefs, Late, Running, Deleting
<1>3. Indexed /\ SavedAccounted /\ SavedListed
  BY DEF Indexed, SavedAccounted, SavedListed, Saved
<1> QED
  BY <1>1, <1>2, <1>3 DEF IInv

\* What a request did, and who asked for it, stays.
LEMMA Stable ==
    ASSUME TypeOK, Forms, Moves, overlap \subseteq overlap'
    PROVE  /\ \A d \in Deletes, n \in Names : Removed(d, n) => Removed(d, n)' /\ delete'[d].user = delete[d].user
           /\ \A n \in Names, t \in Uploads : upload[t].pc # "idle" /\ Met(n, t) => Met(n, t)'
           /\ \A n \in Names, t \in Uploads : n \in Saved(t) => n \in Saved(t)' /\ upload[t].pc # "idle"
           /\ \A t \in Uploads : upload[t].pc # "idle" => upload'[t].user = upload[t].user
<1>1. \A d \in Deletes, n \in Names : Removed(d, n) => Removed(d, n)' /\ delete'[d].user = delete[d].user
  BY DocumentSourcesAssumption DEF Moves, DeleteMoves, Forms, Removed
<1>2. \A t \in Uploads : upload[t].pc # "idle" => upload'[t].user = upload[t].user
  BY DEF Moves, UploadMoves
<1>3. \A n \in Names, t \in Uploads : upload[t].pc # "idle" /\ Met(n, t) => Met(n, t)'
  BY <1>1, <1>2 DEF Met
<1>4. ASSUME NEW n \in Names, NEW t \in Uploads, n \in Saved(t) PROVE n \in Saved(t)' /\ upload[t].pc # "idle"
  <2>1. upload[t].pc # "idle" /\ n \in upload[t].files /\ n \notin upload[t].left
    BY <1>4 DEF Saved, Forms
  <2>2. UploadMoves(t)
    BY DEF Moves
  <2>3. upload'[t].files = upload[t].files /\ upload'[t].left \subseteq upload[t].left
    BY <2>1, <2>2 DEF UploadMoves, Late
  <2> QED
    BY <2>1, <2>3 DEF Saved
<1> QED
  BY <1>1, <1>2, <1>3, <1>4

LEMMA FormsStep == ASSUME TypeOK, Forms, [Next]_vars PROVE TypeOK' /\ Forms' /\ overlap \subseteq overlap'
<1>0. Moves
  BY StepMoves
<1>1. \/ overlap' = overlap \union {e \in Deletes \X Others : Running(e[1])' /\ Busy(e[2])'}
      \/ overlap' = overlap
  BY DEF Next, vars
<1>2. overlap' \subseteq Deletes \X Others /\ overlap \subseteq overlap'
  BY <1>1 DEF TypeOK
<1>3. \A d \in Deletes, x \in Others :
        <<d, x>> \in overlap' => <<d, x>> \in overlap \/ Running(d)'
  BY <1>1
<1>4. \A t \in Uploads :
         /\ upload'[t].left \subseteq upload'[t].files /\ upload'[t].loaded \subseteq upload'[t].files
         /\ upload'[t].pc \notin Late => upload'[t].left = upload'[t].files
         /\ upload'[t].pc = "idle" => upload'[t].files = {}
         /\ upload'[t].pc = "done" => upload'[t].left = {}
         /\ upload'[t].pc # "idle" => upload'[t].user # None
  <2> TAKE t \in Uploads
  <2>1. UploadMoves(t)
    BY <1>0 DEF Moves
  <2>2. CASE upload[t].pc = "idle"
    BY <2>1, <2>2 DEF UploadMoves, Forms, Late
  <2>3. CASE upload[t].pc \in Late
    BY <2>1, <2>3 DEF UploadMoves, Forms, Late, TypeOK
  <2>4. CASE upload[t].pc \notin Late \union {"idle"}
    BY <2>1, <2>4 DEF UploadMoves, Forms, Late, TypeOK
  <2> QED
    BY <2>2, <2>3, <2>4
<1>5. \A d \in Deletes :
         /\ delete'[d].pc = "idle" => delete'[d].name = None /\ delete'[d].user = None
         /\ delete'[d].pc # "idle" => delete'[d].user \in Users /\ delete'[d].name \in Names
  BY <1>0 DEF Moves, DeleteMoves, Forms
<1>6. \A d \in Deletes, x \in Others :
         <<d, x>> \in overlap' => delete'[d].pc \notin {"idle", "missing"}
  BY <1>0, <1>3 DEF Moves, DeleteMoves, Forms, Running, Deleting
<1>7. \A n \in Names : row'[n] # None => upload'[row'[n]].pc # "idle"
  <2> TAKE n \in Names
  <2>1. RowMoves(n) /\ \A t \in Uploads : UploadMoves(t)
    BY <1>0 DEF Moves
  <2>2. row[n] \in Uploads \union {None}
    BY DEF TypeOK
  <2> QED
    BY <2>1, <2>2 DEF RowMoves, UploadMoves, TypeOK
<1>8. TypeOK'
  <2>1. CASE Step
    BY <2>1, TypeStep, <1>2, <1>4, <1>7 DEF TypeOK
  <2>2. CASE UNCHANGED vars
    BY <2>2 DEF TypeOK, vars, tasks, stores, requests
  <2> QED
    BY <2>1, <2>2 DEF Next
<1>9. \A c \in Choices : choice'[c].pc = "idle" => choice'[c].user = None
  BY StepMovesSelections DEF SelectionMoves, Forms
<1> QED
  BY <1>2, <1>4, <1>5, <1>6, <1>8, <1>9 DEF Forms

LEMMA OverlappingStep == ASSUME TypeOK, Overlapping, [Next]_vars PROVE Overlapping'
<1>1. CASE Next
  BY <1>1 DEF Next, Overlapping
<1>2. CASE UNCHANGED vars
  BY <1>2 DEF Overlapping, vars, tasks, requests, Running, Busy
<1> QED
  BY <1>1, <1>2

LEMMA FromLateStep == ASSUME TypeOK, Moves, FromLate PROVE FromLate'
<1>1. ASSUME NEW n \in Names, NEW t \in Uploads, row'[n] = t PROVE upload'[t].pc \in Late
  BY <1>1, DocumentSourcesAssumption DEF FromLate, Moves, RowMoves, UploadMoves, Late
<1>2. ASSUME NEW n \in Names, NEW t \in Uploads, <<n, t>> \in chunks'
      PROVE  upload'[t].pc \in Late /\ n \in upload'[t].loaded
  <2>1. ChunkMoves(n, t) /\ UploadMoves(t)
    BY DEF Moves
  <2> QED
    BY <1>2, <2>1 DEF FromLate, ChunkMoves, UploadMoves, Late
<1> QED
  BY <1>1, <1>2 DEF FromLate

\* Chunks of an upload that go while it is in a state the history covers: the delete
\* that takes them met it.
LEMMA TakenByDelete ==
    ASSUME TypeOK, Forms, Moves, overlap \subseteq overlap',
           NEW n \in Names, NEW t \in Uploads, <<n, t>> \in chunks, <<n, t>> \notin chunks',
           upload[t].pc # "idle",
           \A d \in Deletes : delete[d].pc = "vectors" /\ delete[d].name = n => <<d, t>> \in overlap
    PROVE  Met(n, t)'
<1>1. PICK d \in Deletes : /\ delete[d].pc = "vectors" /\ delete[d].name = n
                           /\ delete[d].user = upload[t].user
  BY DEF Moves, ChunkMoves
<1>2. Removed(d, n)
  BY <1>1 DEF Removed
<1> QED
  BY <1>1, <1>2, Stable DEF Met

LEMMA IndexedStep ==
    ASSUME TypeOK, Forms, Moves, overlap \subseteq overlap', Overlapping, Overlapping', FromLate, Indexed
    PROVE  Indexed'
<1>1. ASSUME NEW n \in Names, NEW t \in Uploads, row'[n] = t \/ upload'[t].pc = "rows", n \in upload'[t].loaded
      PROVE  <<n, t>> \in chunks' \/ Met(n, t)'
  <2>1. RowMoves(n) /\ ChunkMoves(n, t) /\ UploadMoves(t)
    BY DEF Moves
  <2>2. CASE row[n] # t /\ upload[t].pc # "rows"
    <3>1. row'[n] # t
      BY <2>1, <2>2, DocumentSourcesAssumption DEF RowMoves
    <3>2. upload'[t].pc = "rows" /\ upload[t].pc = "indexing"
      BY <1>1, <2>1, <2>2, <3>1 DEF UploadMoves
    <3>3. n \in upload[t].loaded
      BY <1>1, <2>1, <3>2 DEF UploadMoves, Late
    <3> QED
      BY <2>1, <3>2, <3>3 DEF ChunkMoves
  <2>3. CASE row[n] = t \/ upload[t].pc = "rows"
    <3>1. upload[t].pc \in Late
      BY <2>3 DEF FromLate, Late
    <3>2. n \in upload[t].loaded /\ upload[t].pc # "idle"
      BY <1>1, <2>1, <3>1 DEF UploadMoves, Late
    <3>3. <<n, t>> \in chunks \/ Met(n, t)
      BY <2>3, <3>2 DEF Indexed
    <3>4. CASE Met(n, t)
      BY <3>2, <3>4, Stable
    <3>5. CASE <<n, t>> \in chunks /\ <<n, t>> \notin chunks'
      <4>1. \A d \in Deletes : delete[d].pc = "vectors" /\ delete[d].name = n => <<d, t>> \in overlap
        BY <2>3 DEF Indexed, Overlapping, Running, Busy, Others, Deleting, Working
      <4> QED
        BY <3>2, <3>5, <4>1, TakenByDelete
    <3> QED
      BY <3>3, <3>4, <3>5
  <2> QED
    BY <2>2, <2>3
<1>2. ASSUME NEW d \in Deletes, NEW t \in Uploads, delete'[d].pc = "vectors", row'[delete'[d].name] = t
      PROVE  <<d, t>> \in overlap'
  <2>1. DeleteMoves(d)
    BY DEF Moves
  <2>2. delete[d].pc = "vectors"
    BY <1>2, <2>1, DocumentSourcesAssumption DEF DeleteMoves
  <2>3. delete'[d].name = delete[d].name /\ delete[d].name \in Names
    BY <2>1, <2>2 DEF DeleteMoves, Forms
  <2>4. RowMoves(delete[d].name)
    BY <2>3 DEF Moves
  <2>5. row[delete[d].name] = t \/ upload'[t].pc = "rows"
    BY <1>2, <2>3, <2>4, DocumentSourcesAssumption DEF RowMoves
  <2>6. CASE row[delete[d].name] = t
    BY <2>2, <2>6 DEF Indexed
  <2>7. CASE upload'[t].pc = "rows"
    BY <1>2, <2>7 DEF Overlapping, Running, Busy, Others, Deleting, Working
  <2> QED
    BY <2>5, <2>6, <2>7
<1> QED
  BY <1>1, <1>2 DEF Indexed

\* The row of n by which an upload was accounted for is the user's still, was taken over
\* by another user's upload, or is being deleted.
LEMMA AccountedByRow ==
    ASSUME TypeOK, Forms, Moves, overlap \subseteq overlap', NEW n \in Names, NEW t \in Uploads,
           upload[t].pc # "idle", Owner(n) = upload[t].user
    PROVE  Accounted(n, t)'
<1>0. RowMoves(n) /\ upload[t].user # None /\ upload'[t].user = upload[t].user
  BY Stable DEF Moves, TypeOK
<1>1. row[n] \in Uploads /\ upload[row[n]].user = upload[t].user /\ upload[row[n]].pc # "idle"
  BY <1>0, DocumentSourcesAssumption DEF Owner, TypeOK
<1>2. CASE row'[n] = row[n]
  BY <1>0, <1>1, <1>2, Stable, DocumentSourcesAssumption DEF Accounted, Owner
<1>3. ASSUME NEW s \in Uploads, row'[n] = s, upload[s].pc = "rows", upload'[s].pc = "rows",
             n \in upload[s].left, n \notin upload'[s].left
      PROVE  Accounted(n, t)'
  <2>1. UploadMoves(s)
    BY DEF Moves
  <2>2. n \in Saved(s)'
    BY <1>3, <2>1 DEF UploadMoves, Forms, Saved
  <2>3. Owner(n)' = upload'[s].user
    BY <1>3, DocumentSourcesAssumption DEF Owner
  <2> QED
    BY <2>2, <2>3 DEF Accounted
<1>4. ASSUME NEW d \in Deletes, delete'[d].pc = "vectors", delete'[d].name = n, delete'[d].user = Owner(n)
      PROVE  Accounted(n, t)'
  BY <1>0, <1>4 DEF Accounted, Removed
<1> QED
  BY <1>0, <1>2, <1>3, <1>4 DEF RowMoves

LEMMA SavedAccountedStep ==
    ASSUME TypeOK, Forms, Moves, overlap \subseteq overlap', FromLate, SavedAccounted
    PROVE  SavedAccounted'
<1> SUFFICES ASSUME NEW n \in Names, NEW t \in Uploads, <<n, t>> \in chunks', n \in Saved(t)'
             PROVE  Accounted(n, t)'
  BY DEF SavedAccounted
<1>0. ChunkMoves(n, t) /\ UploadMoves(t)
  BY DEF Moves
<1>1. <<n, t>> \in chunks /\ upload[t].pc \in Late
  <2>1. CASE <<n, t>> \notin chunks
    <3>1. upload[t].pc = "indexing"
      BY <1>0, <2>1 DEF ChunkMoves
    <3>2. upload'[t].left = upload[t].left /\ upload[t].left = upload[t].files /\ upload'[t].files = upload[t].files
      BY <1>0, <3>1 DEF UploadMoves, Forms, Late
    <3> QED
      BY <3>2 DEF Saved
  <2> QED
    BY <2>1 DEF FromLate
<1>2. upload[t].pc # "idle"
  BY <1>1 DEF Late
<1>3. CASE n \notin Saved(t)
  <2>1. row'[n] = t
    BY <1>0, <1>1, <1>2, <1>3 DEF UploadMoves, Saved, Late
  <2> QED
    BY <2>1, DocumentSourcesAssumption DEF Accounted, Owner
<1>4. CASE n \in Saved(t)
  <2>1. Accounted(n, t)
    BY <1>1, <1>4 DEF SavedAccounted
  <2>2. CASE Owner(n) = upload[t].user
    BY <1>2, <2>2, AccountedByRow
  <2>3. ASSUME NEW d \in Deletes, Removed(d, n), delete[d].user = upload[t].user,
               delete[d].pc \in {"vectors", "error", "lost"}
        PROVE  Accounted(n, t)'
    <3>1. DeleteMoves(d)
      BY DEF Moves
    <3>2. <<n, t>> \in ChunksOwned(delete[d].user, delete[d].name)
      BY <1>1, <2>3 DEF ChunksOwned, Removed
    <3>3. delete'[d].pc \in {"vectors", "error", "lost"}
      BY <2>3, <3>1, <3>2 DEF DeleteMoves
    <3> QED
      BY <1>2, <2>3, <3>3, Stable DEF Accounted
  <2>4. ASSUME NEW other \in Uploads, n \in Saved(other), upload[other].user # upload[t].user
        PROVE  Accounted(n, t)'
    BY <1>2, <2>4, Stable DEF Accounted
  <2> QED
    BY <2>1, <2>2, <2>3, <2>4 DEF Accounted
<1> QED
  BY <1>3, <1>4

LEMMA SavedListedStep ==
    ASSUME TypeOK, Forms, Moves, overlap \subseteq overlap', SavedListed
    PROVE  SavedListed'
<1> SUFFICES ASSUME NEW n \in Names, NEW t \in Uploads, n \in Saved(t)'
             PROVE  row'[n] # None \/ \E d \in Deletes : Removed(d, n)'
  BY DEF SavedListed
<1>0. RowMoves(n) /\ UploadMoves(t)
  BY DEF Moves
<1>1. CASE n \notin Saved(t)
  <2>1. row'[n] = t
    BY <1>0, <1>1 DEF UploadMoves, Saved, Late, Forms
  <2> QED
    BY <2>1, DocumentSourcesAssumption
<1>2. CASE n \in Saved(t)
  <2>1. row[n] # None \/ \E d \in Deletes : Removed(d, n)
    BY <1>2 DEF SavedListed
  <2>2. CASE row[n] # None
    BY <1>0, <2>2, DocumentSourcesAssumption DEF RowMoves, Removed
  <2> QED
    BY <2>1, <2>2, Stable
<1> QED
  BY <1>1, <1>2

LEMMA FinalStatusStep == ASSUME TypeOK, Moves, FinalStatus PROVE FinalStatus'
<1> SUFFICES ASSUME NEW t \in Uploads
             PROVE  /\ "completed" \in {status'[t], told'[t]} => upload'[t].pc = "done"
                    /\ "failed" \in {status'[t], told'[t]} => upload'[t].pc = "failed"
  BY DEF FinalStatus
<1>1. UploadMoves(t) /\ ToldMoves(t)
  BY DEF Moves
<1> QED
  BY <1>1 DEF FinalStatus, UploadMoves, ToldMoves

\* A selection that changes under a delete that has read it was stored by a request it met.
LEMMA FreshPrefsStep ==
    ASSUME TypeOK, Forms, Moves, SelectionMoves, overlap \subseteq overlap', Overlapping, FreshPrefs
    PROVE  FreshPrefs'
<1> SUFFICES ASSUME NEW d \in Deletes, delete'[d].pc = "store"
             PROVE  \/ delete'[d].prefs = selected'[delete'[d].user] \ {delete'[d].name}
                    \/ MetRequest(d)'
  BY DEF FreshPrefs
<1>1. delete[d].pc \in {"prefs", "store"}
  BY DEF SelectionMoves
<1>2. /\ delete'[d].user = delete[d].user /\ delete'[d].name = delete[d].name
      /\ delete[d].user \in Users
  BY <1>1 DEF Moves, DeleteMoves, Forms
<1>3. ASSUME NEW c \in Choices, choice[c].user = delete[d].user, <<d, c>> \in overlap PROVE MetRequest(d)'
  <2>1. choice[c].pc # "idle"
    BY <1>2, <1>3, DocumentSourcesAssumption DEF Forms
  <2> QED
    BY <1>2, <1>3, <2>1 DEF SelectionMoves, MetRequest
<1>4. ASSUME NEW e \in Deletes, e # d, delete[e].user = delete[d].user, <<d, e>> \in overlap
      PROVE  MetRequest(d)'
  <2>1. delete[e].pc # "idle"
    BY <1>2, <1>4, DocumentSourcesAssumption DEF Forms
  <2>2. delete'[e].user = delete[e].user
    BY <2>1 DEF Moves, DeleteMoves
  <2> QED
    BY <1>2, <1>4, <2>2 DEF MetRequest
<1>5. CASE delete[d].pc = "prefs"
  BY <1>2, <1>5 DEF SelectionMoves
<1>6. CASE delete[d].pc = "store"
  <2>1. delete'[d].prefs = delete[d].prefs
    BY <1>6 DEF SelectionMoves
  <2>2. CASE MetRequest(d)
    BY <1>3, <1>4, <2>2 DEF MetRequest
  <2>3. CASE delete[d].prefs = selected[delete[d].user] \ {delete[d].name} /\ selected'[delete[d].user] = selected[delete[d].user]
    BY <1>2, <2>1, <2>3
  <2>4. CASE selected'[delete[d].user] # selected[delete[d].user]
    <3>1. ASSUME NEW c \in Choices, choice[c].pc = "store", choice[c].user = delete[d].user
          PROVE  MetRequest(d)'
      <4>1. <<d, c>> \in overlap
        BY <1>6, <3>1 DEF Overlapping, Running, Busy, Others, Deleting
      <4> QED
        BY <1>3, <3>1, <4>1
    <3>2. ASSUME NEW e \in Deletes, delete[e].pc = "store", delete'[e].pc = "done",
                 delete[e].user = delete[d].user
          PROVE  MetRequest(d)'
      <4>1. <<d, e>> \in overlap
        BY <1>6, <3>2 DEF Overlapping, Running, Busy, Others, Deleting
      <4> QED
        BY <1>4, <3>2, <4>1
    <3> QED
      BY <1>2, <2>4, <3>1, <3>2 DEF SelectionMoves
  <2> QED
    BY <1>6, <2>2, <2>3, <2>4 DEF FreshPrefs
<1> QED
  BY <1>1, <1>5, <1>6

LEMMA InvStep == IInv /\ [Next]_vars => IInv'
<1> SUFFICES ASSUME IInv, [Next]_vars PROVE IInv'
  OBVIOUS
<1>1. /\ TypeOK /\ Forms /\ Overlapping /\ FromLate /\ Indexed /\ SavedAccounted /\ SavedListed
      /\ FinalStatus /\ FreshPrefs
  BY DEF IInv
<1>2. Moves /\ SelectionMoves /\ TypeOK' /\ Forms' /\ overlap \subseteq overlap' /\ Overlapping'
  BY <1>1, StepMoves, StepMovesSelections, FormsStep, OverlappingStep
<1> QED
  BY <1>1, <1>2, FromLateStep, IndexedStep, SavedAccountedStep, SavedListedStep, FinalStatusStep,
     FreshPrefsStep DEF IInv

LEMMA Inductive == Spec => []IInv
BY InitIInv, InvStep, PTL DEF Spec

-------------------------------------------------------------------------------
\* Every task, row, chunk, request and selection is well formed (what the background task
\* and the handlers of main.py read back from each other), with any number of pods and faults.
THEOREM TypeCorrect == Spec => []TypeOK
<1>1. IInv => TypeOK
  BY DEF IInv
<1> QED
  BY <1>1, Inductive, PTL

\* A row of an upload that loaded its file has the file's chunks in Milvus, except when a
\* delete of the same source by the same user met the upload: add_documents comes before
\* add_document_source, and delete_document_source before delete_documents_by_source.
THEOREM RowsHaveChunks == Spec => []RowHasItsChunks
<1>1. IInv => RowHasItsChunks
  BY DEF IInv, Indexed, Met, RowHasItsChunks
<1> QED
  BY <1>1, Inductive, PTL

\* The chunks of an upload that ended well are never left without a row of their user, a
\* delete that has yet to remove them or broke, or another user's upload of the same name.
THEOREM ChunksAreAccounted == Spec => []ChunksAccounted
<1>1. IInv => ChunksAccounted
  <2> SUFFICES ASSUME IInv, NEW n \in Names, NEW t \in Uploads, <<n, t>> \in chunks, upload[t].pc = "done"
               PROVE  Accounted(n, t)
    BY DEF ChunksAccounted, Accounted
  <2>1. n \in Saved(t)
    BY DEF IInv, FromLate, Forms, Saved
  <2> QED
    BY <2>1 DEF IInv, SavedAccounted
<1> QED
  BY <1>1, Inductive, PTL

\* When the polling of DocumentIngestion.tsx reads completed, every file of the upload has
\* a row unless someone deleted it, and when it reads failed the task did fail.
THEOREM ListedIsTrue == Spec => []ListedWhenTold
<1>1. IInv => ListedWhenTold
  <2> SUFFICES ASSUME IInv, NEW t \in Uploads
               PROVE  /\ told[t] = "completed" =>
                           \A n \in upload[t].files : row[n] # None \/ \E d \in Deletes : Removed(d, n)
                      /\ told[t] = "failed" => upload[t].pc = "failed"
    BY DEF ListedWhenTold
  <2>1. /\ told[t] = "completed" => upload[t].pc = "done"
        /\ told[t] = "failed" => upload[t].pc = "failed"
    BY DEF IInv, FinalStatus
  <2>2. upload[t].pc = "done" => upload[t].left = {}
    BY DEF IInv, Forms
  <2>3. upload[t].files \subseteq Names
    BY DEF IInv, TypeOK, Upload
  <2>4. \A n \in Names : n \in Saved(t) => row[n] # None \/ \E d \in Deletes : Removed(d, n)
    BY DEF IInv, SavedListed
  <2> QED
    BY <2>1, <2>2, <2>3, <2>4 DEF Saved
<1> QED
  BY <1>1, Inductive, PTL

\* A selection becomes what its user chose or loses the one source that is being deleted,
\* unless another request of the user met the delete between its read of the preferences
\* and its write (delete_source).
THEOREM SelectionsAreChosen == Spec => SelectionIsChosen
<1> DEFINE Chosen(u) ==
          \/ \E c \in Choices : choice[c].pc = "store" /\ choice'[c].pc = "done"
                                /\ choice[c].user = u /\ selected'[u] = choice[c].filtered
          \/ \E d \in Deletes :
                /\ delete[d].pc = "store" /\ delete'[d].pc = "done" /\ delete[d].user = u
                /\ \/ selected'[u] = selected[u] \ {delete[d].name}
                   \/ \E c \in Choices : choice[c].user = u /\ <<d, c>> \in overlap
                   \/ \E e \in Deletes : e # d /\ delete[e].user = u /\ <<d, e>> \in overlap
<1>1. ASSUME IInv, [Next]_vars, NEW u \in Users, selected'[u] # selected[u] PROVE Chosen(u)
  <2>1. SelectionMoves
    BY <1>1, StepMovesSelections DEF IInv
  <2>2. ASSUME NEW d \in Deletes, delete[d].pc = "store", delete'[d].pc = "done", delete[d].user = u,
               selected'[u] = delete[d].prefs
        PROVE  Chosen(u)
    <3>1. delete[d].prefs = selected[u] \ {delete[d].name} \/ MetRequest(d)
      BY <1>1, <2>2 DEF IInv, FreshPrefs
    <3> QED
      BY <2>2, <3>1 DEF MetRequest
  <2> QED
    BY <1>1, <2>1, <2>2 DEF SelectionMoves
<1>2. IInv /\ [Next]_vars => [\A u \in Users : selected'[u] # selected[u] => Chosen(u)]_vars
  BY <1>1
<1> QED
  BY <1>2, Inductive, PTL DEF Spec, SelectionIsChosen

-------------------------------------------------------------------------------
\* What indexing_tasks may say of a task that is at pc.
Says(pc) ==
    CASE pc = "queued" -> "queued"
      [] pc = "loading" -> "loading_documents"
      [] pc \in {"indexing", "rows"} -> "indexing_documents"
      [] pc = "done" -> "completed"
      [] pc = "failed" -> "failed"
      [] OTHER -> "absent"

\* What a pod still says of a task is where the task is: nothing is left "loading" that
\* nobody loads.  EveryUploadSettles needs that besides fairness.
StatusFollowsTask == \A t \in Uploads : status[t] \in {"absent", Says(upload[t].pc)}

\* Every step takes a status along with its task, or leaves both.
StatusMoves(t) ==
    \/ status'[t] = "absent"
    \/ status'[t] = status[t] /\ upload'[t].pc = upload[t].pc
    \/ status'[t] = status[t] /\ upload[t].pc = "indexing" /\ upload'[t].pc = "rows"
    \/ status'[t] = Says(upload'[t].pc)

LEMMA StepMovesStatus == ASSUME TypeOK, [Next]_vars PROVE \A t \in Uploads : StatusMoves(t)
<1>0. /\ upload \in [Uploads -> Upload] /\ status \in [Uploads -> Statuses]
  BY DEF TypeOK
<1>1. ASSUME NEW x \in Uploads, NEW pc, NEW s, upload' = [upload EXCEPT ![x] = [upload[x] EXCEPT !.pc = pc]],
             Report(x, s), s = Says(pc)
      PROVE  \A t \in Uploads : StatusMoves(t)
  BY <1>0, <1>1 DEF StatusMoves, Report, Upload
<1>2. ASSUME NEW x \in Uploads, NEW u \in Users, NEW vis \in {"public", "private"},
             NEW files \in SUBSET Names, NEW p \in Pods, Ingest(x, u, vis, files, p)
      PROVE  \A t \in Uploads : StatusMoves(t)
  <2>1. PICK evicted \in SUBSET Stale(p) :
          status' = [t \in Uploads |-> IF t = x THEN "queued" ELSE
                                       IF t \in evicted THEN "absent" ELSE status[t]]
    BY <1>2 DEF Ingest
  <2>2. upload'[x].pc = "queued" /\ \A t \in Uploads \ {x} : upload'[t] = upload[t]
    BY <1>0, <1>2 DEF Ingest
  <2> QED
    BY <2>1, <2>2 DEF StatusMoves, Says
<1>3. ASSUME NEW x \in Uploads, StartLoading(x) \/ Complete(x) \/ FailIngest(x)
      PROVE  \A t \in Uploads : StatusMoves(t)
  <2>1. Says("loading") = "loading_documents" /\ Says("done") = "completed" /\ Says("failed") = "failed"
    BY DEF Says
  <2> QED
    BY <1>1, <1>3, <2>1 DEF StartLoading, Complete, FailIngest
<1>4. ASSUME NEW x \in Uploads, NEW got \in SUBSET Names, Loaded(x, got) PROVE \A t \in Uploads : StatusMoves(t)
  <2>1. upload'[x].pc = "indexing" /\ \A t \in Uploads \ {x} : upload'[t] = upload[t]
    BY <1>0, <1>4 DEF Loaded, Upload
  <2> QED
    BY <1>0, <1>4, <2>1 DEF Loaded, Report, StatusMoves, Says
<1>5. ASSUME NEW x \in Uploads, Index(x) PROVE \A t \in Uploads : StatusMoves(t)
  <2>1. /\ upload[x].pc = "indexing" /\ upload'[x].pc = "rows" /\ UNCHANGED status
        /\ \A t \in Uploads \ {x} : upload'[t] = upload[t]
    BY <1>0, <1>5 DEF Index, Upload
  <2> QED
    BY <2>1 DEF StatusMoves
<1>6. ASSUME NEW x \in Uploads, NEW n \in Names, SaveRow(x, n) PROVE \A t \in Uploads : StatusMoves(t)
  <2>1. UNCHANGED status /\ \A t \in Uploads : upload'[t].pc = upload[t].pc
    BY <1>0, <1>6 DEF SaveRow, Upload
  <2> QED
    BY <2>1 DEF StatusMoves
<1>7. ASSUME NEW x \in Uploads, Poll(x) \/ GiveUp(x) PROVE \A t \in Uploads : StatusMoves(t)
  BY <1>7 DEF Poll, GiveUp, StatusMoves
<1>8. ASSUME NEW p \in Pods, Restart(p) PROVE \A t \in Uploads : StatusMoves(t)
  <2> SUFFICES ASSUME NEW t \in Uploads PROVE StatusMoves(t)
    OBVIOUS
  <2>1. CASE upload[t].pod = p
    BY <1>8, <2>1 DEF Restart, StatusMoves
  <2>2. CASE upload[t].pod # p
    BY <1>8, <2>2 DEF Restart, StatusMoves
  <2> QED
    BY <2>1, <2>2
<1>9. UNCHANGED <<upload, status>> => \A t \in Uploads : StatusMoves(t)
  BY DEF StatusMoves
<1>10. CASE \/ \E d \in Deletes, u \in Users, n \in Names, p \in Pods : DeleteRow(d, u, n, p)
            \/ \E d \in Deletes : DeleteVectors(d) \/ ReadPrefs(d) \/ StorePrefs(d) \/ FailDelete(d)
            \/ \E c \in Choices, u \in Users, wanted \in SUBSET Names, p \in Pods : Choose(c, u, wanted, p)
            \/ \E c \in Choices : StoreChoice(c)
  <2>1. UNCHANGED <<upload, status>>
    BY <1>10 DEF DeleteRow, DeleteVectors, ReadPrefs, StorePrefs, FailDelete, Choose, StoreChoice, tasks
  <2> QED
    BY <1>9, <2>1
<1>11. CASE UNCHANGED vars
  BY <1>9, <1>11 DEF vars, tasks
<1>12. ASSUME NEW x \in Uploads, TaskStep(x) \/ FailIngest(x) \/ Poll(x) \/ GiveUp(x)
       PROVE  \A t \in Uploads : StatusMoves(t)
  BY <1>3, <1>4, <1>5, <1>6, <1>7, <1>12 DEF TaskStep
<1> QED
  BY <1>2, <1>8, <1>10, <1>11, <1>12 DEF Next, Step

LEMMA StatusStep == ASSUME TypeOK, StatusFollowsTask, [Next]_vars PROVE StatusFollowsTask'
<1>1. Says("indexing") = Says("rows")
  BY DEF Says
<1> QED
  BY <1>1, StepMovesStatus DEF StatusMoves, StatusFollowsTask

\* For any uploads, failures, restarts and evictions, an entry of indexing_tasks that is
\* still there tells where the background task is (utils.py), so a client that polls its
\* pod never waits for the end of a task that has none.
THEOREM StatusIsTrue == Spec => []StatusFollowsTask
<1>1. Init => StatusFollowsTask
  BY DEF Init, StatusFollowsTask
<1>2. TypeOK /\ StatusFollowsTask /\ [Next]_vars => StatusFollowsTask'
  BY StatusStep
<1> QED
  BY <1>1, <1>2, TypeCorrect, PTL DEF Spec
===============================================================================
