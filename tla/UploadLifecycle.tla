-------------------------- MODULE UploadLifecycle --------------------------
(***************************************************************************)
(* The life of an uploaded file in the API: a row of the nodes table, an   *)
(* object in the bucket, the signed URL that lets the browser write the    *)
(* object, the requests that change them (upload intent, commit, move,     *)
(* delete a file, delete a folder) and the sweep that expires abandoned    *)
(* reservations and retries refused deletions.                             *)
(*                                                                         *)
(* One step of a request is one call to Postgres or to the storage         *)
(* provider: what a request read before an await may be stale after it.    *)
(* Postgres runs READ COMMITTED: every statement sees the latest rows.     *)
(*                                                                         *)
(* A file stands for its row and for its object: the storage key is        *)
(* <room>/<node id>, fixed when the row is inserted and never reused.      *)
(***************************************************************************)
EXTENDS Naturals, FiniteSets

CONSTANTS
    Files,           \* the node ids reservations can be given
    Folders,         \* the folders of one Data Room when the behaviour starts
    Root,            \* its root folder, which cannot be deleted
    Anc,             \* Anc[d]: the ids in the path of a child of d, d included
    Requests,        \* HTTP requests in progress at one time
    None,            \* what an idle request is about
    UrlTtl,          \* UPLOAD_URL_TTL_SECONDS, in ticks of the model's clock
    ReservationTtl,  \* UPLOAD_RESERVATION_TTL_SECONDS, in ticks
    SweepBatch,      \* SWEEP_BATCH
    MaxFaults        \* bound: crashes, refused storage calls, failed requests

ASSUME TreeAssumption ==
    /\ Root \in Folders
    /\ Anc \in [Folders -> SUBSET Folders]
    /\ \A d \in Folders : d \in Anc[d]

ASSUME BoundsAssumption ==
    /\ UrlTtl \in Nat
    /\ ReservationTtl \in Nat
    /\ SweepBatch \in Nat \ {0}
    /\ MaxFaults \in Nat

VARIABLES
    uploadState,  \* uploadState[f]: "unused" before its insert, "gone" after its delete
    parent,       \* parent[f]: the folder the row hangs off
    age,          \* age[f]: ticks since createdAt
    folders,      \* folders whose row still exists
    object,       \* object[f]: what the bucket holds under the key of f
    signed,       \* files whose upload URL was handed out
    putting,      \* files with a PUT the provider has accepted and not finished
    pc,           \* pc[r]: the next call request r makes
    target,       \* target[r]: the file or the folder r is about
    keys,         \* keys[r]: keys r has read and not released yet
    sweepPc,      \* the sweep's next call; "idle" is running = false
    stale,        \* ids its scan returned and it has not looked at yet
    sweepKeys,    \* keys it has taken on and not released yet
    queue,        \* BlobReleaseQueue: keys whose deletion storage refused
    faults,       \* how many faults happened, bounded by MaxFaults
    mishap        \* history: the steps at which the code lost track of f's key

rowVars     == <<uploadState, parent, age, folders>>
storageVars == <<object, signed, putting>>
requestVars == <<pc, target, keys>>
sweepVars   == <<sweepPc, stale, sweepKeys>>
vars == <<rowVars, storageVars, requestVars, sweepVars, queue, faults, mishap>>

UploadState == {"unused", "PENDING", "READY", "gone"}

\* What commit can find under a key: nothing, a PDF, an object that fails on
\* its stat (too large, or served as another type), or one whose first bytes
\* are not a PDF's.
Content == {"absent", "pdf", "badStat", "badHead"}

FileStep  == {"sign", "discard", "stat", "head", "mark", "confirm"}
Step      == FileStep \cup {"idle", "delete", "release"}
SweepStep == {"idle", "expire", "release", "retry"}
Mishap    == {"lostCommit", "movedOut", "missedKey", "latePut", "forgotten"}

MaxAge == (IF UrlTtl > ReservationTtl THEN UrlTtl ELSE ReservationTtl) + 1

TypeOK ==
    /\ uploadState \in [Files -> UploadState]
    /\ parent \in [Files -> Folders]
    /\ age \in [Files -> 0 .. MaxAge]
    /\ folders \subseteq Folders
    /\ object \in [Files -> Content]
    /\ signed \subseteq Files
    /\ putting \subseteq Files
    /\ pc \in [Requests -> Step]
    /\ target \in [Requests -> Files \cup Folders \cup {None}]
    /\ \A r \in Requests : /\ pc[r] \in FileStep => target[r] \in Files
                           /\ pc[r] = "delete" => target[r] \in Folders
    /\ keys \in [Requests -> SUBSET Files]
    /\ sweepPc \in SweepStep
    /\ stale \subseteq Files
    /\ sweepKeys \subseteq Files
    /\ queue \subseteq Files
    /\ faults \in 0 .. MaxFaults
    /\ mishap \in [Files -> SUBSET Mishap]

Init ==
    /\ uploadState = [f \in Files |-> "unused"]
    /\ parent = [f \in Files |-> Root]
    /\ age = [f \in Files |-> 0]
    /\ folders = Folders
    /\ object = [f \in Files |-> "absent"]
    /\ signed = {}
    /\ putting = {}
    /\ pc = [r \in Requests |-> "idle"]
    /\ target = [r \in Requests |-> None]
    /\ keys = [r \in Requests |-> {}]
    /\ sweepPc = "idle"
    /\ stale = {}
    /\ sweepKeys = {}
    /\ queue = {}
    /\ faults = 0
    /\ mishap = [f \in Files |-> {}]

HasRow(f) == uploadState[f] \in {"PENDING", "READY"}

Expired(f) == age[f] > ReservationTtl

UrlLive(f) == f \in signed /\ age[f] <= UrlTtl

\* The rows "path LIKE prefix%" matches for the folder d.
Subtree(d) == {f \in Files : HasRow(f) /\ d \in Anc[parent[f]]}

\* The keys somebody still means to delete from the bucket.
Held == {f \in Files : \/ f \in queue
                      \/ f \in sweepKeys
                      \/ \E r \in Requests : pc[r] = "release" /\ f \in keys[r]}

\* Ghost: the step made the code lose track of the keys in S.
Befall(S, what) ==
    mishap' = [f \in Files |-> IF f \in S THEN mishap[f] \cup {what} ELSE mishap[f]]

Fault == faults < MaxFaults /\ faults' = faults + 1

----------------------------------------------------------------------------
(* Requests: how one goes on.                                              *)

Goto(r, step) == pc' = [pc EXCEPT ![r] = step] /\ UNCHANGED <<target, keys>>

Start(r, step, on) ==
    /\ pc[r] = "idle"
    /\ pc' = [pc EXCEPT ![r] = step]
    /\ target' = [target EXCEPT ![r] = on]
    /\ UNCHANGED keys

Answer(r) ==
    /\ pc' = [pc EXCEPT ![r] = "idle"]
    /\ target' = [target EXCEPT ![r] = None]
    /\ UNCHANGED keys

\* The metadata change is committed: go on to release the keys S, or answer.
ReleaseAll(r, S) ==
    /\ pc' = [pc EXCEPT ![r] = IF S = {} THEN "idle" ELSE "release"]
    /\ target' = [target EXCEPT ![r] = None]
    /\ keys' = [keys EXCEPT ![r] = S]

RemoveRows(S) ==
    uploadState' = [f \in Files |-> IF f \in S THEN "gone" ELSE uploadState[f]]

----------------------------------------------------------------------------
(* Upload intent: the insert that reserves the name, then the signed URL.  *)

\* The foreign key on parent_id refuses a folder deleted since it was read.
ReserveFile(r, f, d) ==
    /\ uploadState[f] = "unused"
    /\ d \in folders
    /\ Start(r, "sign", f)
    /\ uploadState' = [uploadState EXCEPT ![f] = "PENDING"]
    /\ parent' = [parent EXCEPT ![f] = d]
    /\ UNCHANGED <<age, folders, storageVars, sweepVars, queue, faults, mishap>>

CreateUploadUrl(r) ==
    /\ pc[r] = "sign"
    /\ signed' = signed \cup {target[r]}
    /\ Answer(r)
    /\ UNCHANGED <<rowVars, object, putting, sweepVars, queue, faults, mishap>>

CreateUploadUrlFails(r) ==
    /\ pc[r] = "sign"
    /\ Fault
    /\ Goto(r, "discard")
    /\ UNCHANGED <<rowVars, storageVars, sweepVars, queue, mishap>>

\* Mutant: deletes the object without asking whether this call removed the row.
DiscardUnchecked(r) ==
    /\ pc[r] = "discard"
    /\ RemoveRows({f \in {target[r]} : uploadState[f] = "PENDING"})
    /\ ReleaseAll(r, {target[r]})
    /\ UNCHANGED <<parent, age, folders, storageVars, sweepVars, queue, faults, mishap>>

\* deleteReservation: only while the row is PENDING, and the object goes only
\* if this call is the one that removed the row.
DiscardReservation(r) ==
    /\ pc[r] = "discard"
    /\ IF uploadState[target[r]] = "PENDING"
         THEN RemoveRows({target[r]}) /\ ReleaseAll(r, {target[r]})
         ELSE UNCHANGED uploadState /\ Answer(r)
    /\ UNCHANGED <<parent, age, folders, storageVars, sweepVars, queue, faults, mishap>>

----------------------------------------------------------------------------
(* The browser and the provider: a URL is bound to a key and an expiry, not *)
(* to a single use, so a PUT may start at any time while it is live.        *)

StartPut(f) ==
    /\ UrlLive(f)
    /\ putting' = putting \cup {f}
    /\ UNCHANGED <<rowVars, object, signed, requestVars, sweepVars, queue, faults, mishap>>

FinishPut(f, c) ==
    /\ f \in putting
    /\ putting' = putting \ {f}
    /\ object' = [object EXCEPT ![f] = c]
    /\ Befall({f} \ ({g \in Files : HasRow(g)} \cup Held), "latePut")
    /\ UNCHANGED <<rowVars, signed, requestVars, sweepVars, queue, faults>>

AbortPut(f) ==
    /\ f \in putting
    /\ putting' = putting \ {f}
    /\ UNCHANGED <<rowVars, object, signed, requestVars, sweepVars, queue, faults, mishap>>

----------------------------------------------------------------------------
(* Commit: find the reservation, stat, read the first bytes, promote.      *)

StartCommit(r, f) ==
    /\ uploadState[f] = "PENDING"
    /\ Start(r, IF Expired(f) THEN "discard" ELSE "stat", f)
    /\ UNCHANGED <<rowVars, storageVars, sweepVars, queue, faults, mishap>>

StatObject(r) ==
    /\ pc[r] = "stat"
    /\ Goto(r, IF object[target[r]] \in {"absent", "badStat"} THEN "discard" ELSE "head")
    /\ UNCHANGED <<rowVars, storageVars, sweepVars, queue, faults, mishap>>

\* The object may have been replaced or removed since the stat.
ReadRange(r) ==
    /\ pc[r] = "head"
    /\ Goto(r, IF object[target[r]] \in {"absent", "badHead"} THEN "discard" ELSE "mark")
    /\ UNCHANGED <<rowVars, storageVars, sweepVars, queue, faults, mishap>>

\* updateMany where id and PENDING; on zero rows the service releases the
\* object, whatever the reason the row is not PENDING any more.
MarkReady(r) ==
    /\ pc[r] = "mark"
    /\ IF uploadState[target[r]] = "PENDING"
         THEN /\ uploadState' = [uploadState EXCEPT ![target[r]] = "READY"]
              /\ Goto(r, "confirm")
              /\ UNCHANGED mishap
         ELSE /\ UNCHANGED uploadState
              /\ ReleaseAll(r, {target[r]})
              /\ Befall({f \in {target[r]} : HasRow(f)}, "lostCommit")
    /\ UNCHANGED <<parent, age, folders, storageVars, sweepVars, queue, faults>>

\* markReady's findUnique: no row means it was deleted since the update, and
\* the service cannot tell that from an expired reservation.
ConfirmReady(r) ==
    /\ pc[r] = "confirm"
    /\ IF HasRow(target[r]) THEN Answer(r) ELSE ReleaseAll(r, {target[r]})
    /\ UNCHANGED <<rowVars, storageVars, sweepVars, queue, faults, mishap>>

----------------------------------------------------------------------------
(* The owner's changes to committed files and to folders.                  *)

\* Mutant: no foreign key on parent_id.
MoveAnywhere(f, d) ==
    /\ uploadState[f] = "READY"
    /\ parent' = [parent EXCEPT ![f] = d]
    /\ UNCHANGED <<uploadState, age, folders, storageVars, requestVars, sweepVars,
                   queue, faults, mishap>>

\* The rows moveFile read (the file, its destination) can only have been
\* deleted since, which its update and the foreign key both refuse: the read
\* and the update act as one step.
MoveFile(f, d) ==
    /\ uploadState[f] = "READY"
    /\ d \in folders
    /\ parent' = [parent EXCEPT ![f] = d]
    /\ UNCHANGED <<uploadState, age, folders, storageVars, requestVars, sweepVars,
                   queue, faults, mishap>>

DeleteFile(r, f) ==
    /\ pc[r] = "idle"
    /\ uploadState[f] = "READY"
    /\ RemoveRows({f})
    /\ ReleaseAll(r, {f})
    /\ UNCHANGED <<parent, age, folders, storageVars, sweepVars, queue, faults, mishap>>

\* deleteSubtree's first statement: the keys of every file below d, PENDING
\* ones included.
SelectSubtreeKeys(r, d) ==
    /\ pc[r] = "idle"
    /\ d \in folders \ {Root}
    /\ pc' = [pc EXCEPT ![r] = "delete"]
    /\ target' = [target EXCEPT ![r] = d]
    /\ keys' = [keys EXCEPT ![r] = Subtree(d)]
    /\ UNCHANGED <<rowVars, storageVars, sweepVars, queue, faults, mishap>>

\* Its second statement, a later snapshot, and the commit.
DeleteSubtree(r) ==
    LET doomed == Subtree(target[r]) IN
    /\ pc[r] = "delete"
    /\ RemoveRows(doomed)
    /\ folders' = {d \in folders : target[r] \notin Anc[d]}
    /\ ReleaseAll(r, keys[r])
    /\ mishap' = [f \in Files |-> mishap[f]
                    \cup {m \in {"missedKey"} : f \in doomed \ keys[r]}
                    \cup {m \in {"movedOut"} : HasRow(f) /\ f \in keys[r] \ doomed}]
    /\ UNCHANGED <<parent, age, storageVars, sweepVars, queue, faults>>

----------------------------------------------------------------------------
(* BlobReleaseService: delete one object, or park its key on the queue.    *)

\* Mutant: the error is swallowed and the key is not parked.
DeleteObjectSwallowed(k) ==
    /\ Fault
    /\ UNCHANGED queue
    /\ object' \in {object, [object EXCEPT ![k] = "absent"]}

\* A refused deletion may still have happened: the answer can be lost.
DeleteObject(k) ==
    /\ object' = [object EXCEPT ![k] = "absent"]
    /\ UNCHANGED <<queue, faults>>

DeleteObjectRefused(k) ==
    /\ Fault
    /\ queue' = queue \cup {k}
    /\ object' \in {object, [object EXCEPT ![k] = "absent"]}

Release(r, k) ==
    /\ pc[r] = "release"
    /\ k \in keys[r]
    /\ DeleteObject(k) \/ DeleteObjectRefused(k)
    /\ keys' = [keys EXCEPT ![r] = @ \ {k}]
    /\ pc' = [pc EXCEPT ![r] = IF keys[r] = {k} THEN "idle" ELSE "release"]
    /\ UNCHANGED <<rowVars, signed, putting, target, sweepVars, mishap>>

----------------------------------------------------------------------------
(* UploadSweepService.sweep, one run at a time.                            *)

ExpiredReservations == {f \in Files : uploadState[f] = "PENDING" /\ Expired(f)}

SweepScan ==
    /\ sweepPc = "idle"
    /\ \E S \in SUBSET ExpiredReservations :
          /\ \/ S = ExpiredReservations /\ Cardinality(S) <= SweepBatch
             \/ S # ExpiredReservations /\ Cardinality(S) = SweepBatch
          /\ stale' = S
    /\ sweepPc' = "expire"
    /\ UNCHANGED <<rowVars, storageVars, requestVars, sweepKeys, queue, faults, mishap>>

\* Mutant: the sweep deletes by id, without the PENDING clause.
SweepExpireById(f) ==
    /\ sweepPc = "expire"
    /\ f \in stale
    /\ stale' = stale \ {f}
    /\ IF HasRow(f)
         THEN RemoveRows({f}) /\ sweepKeys' = {f} /\ sweepPc' = "release"
         ELSE UNCHANGED <<uploadState, sweepKeys, sweepPc>>
    /\ UNCHANGED <<parent, age, folders, storageVars, requestVars, queue, faults, mishap>>

\* Mutant: a batch delete, whose count does not say which rows it removed.
SweepExpireBatch(f) ==
    /\ sweepPc = "expire"
    /\ f \in stale
    /\ stale' = stale \ {f}
    /\ RemoveRows({g \in {f} : uploadState[g] = "PENDING"})
    /\ sweepKeys' = {f}
    /\ sweepPc' = "release"
    /\ UNCHANGED <<parent, age, folders, storageVars, requestVars, queue, faults, mishap>>

\* deleteReservation again: a row that raced to READY is skipped.
SweepExpire(f) ==
    /\ sweepPc = "expire"
    /\ f \in stale
    /\ stale' = stale \ {f}
    /\ IF uploadState[f] = "PENDING"
         THEN RemoveRows({f}) /\ sweepKeys' = {f} /\ sweepPc' = "release"
         ELSE UNCHANGED <<uploadState, sweepKeys, sweepPc>>
    /\ UNCHANGED <<parent, age, folders, storageVars, requestVars, queue, faults, mishap>>

\* Mutant: the sweep expires reservations and never retries the queue.
SweepWithoutRetry ==
    /\ sweepPc = "expire"
    /\ stale = {}
    /\ sweepPc' = "idle"
    /\ UNCHANGED <<rowVars, storageVars, requestVars, stale, sweepKeys, queue, faults, mishap>>

SweepDrain ==
    /\ sweepPc = "expire"
    /\ stale = {}
    /\ sweepKeys' = queue
    /\ queue' = {}
    /\ sweepPc' = IF queue = {} THEN "idle" ELSE "retry"
    /\ UNCHANGED <<rowVars, storageVars, requestVars, stale, faults, mishap>>

SweepRelease(k) ==
    /\ sweepPc \in {"release", "retry"}
    /\ k \in sweepKeys
    /\ DeleteObject(k) \/ DeleteObjectRefused(k)
    /\ sweepKeys' = sweepKeys \ {k}
    /\ sweepPc' = IF sweepPc = "release" THEN "expire"
                  ELSE IF sweepKeys = {k} THEN "idle" ELSE "retry"
    /\ UNCHANGED <<rowVars, signed, putting, requestVars, stale, mishap>>

----------------------------------------------------------------------------
(* Faults and time.                                                        *)

\* A Postgres or storage call throws: the request answers 500 and stops.  An
\* open deletion rolls back; a release never throws.
RequestFails(r) ==
    /\ pc[r] \in {"discard", "stat", "head", "mark", "confirm", "delete"}
    /\ Fault
    /\ Answer(r)
    /\ UNCHANGED <<rowVars, storageVars, sweepVars, queue, mishap>>

\* Mutant: running is not reset in a finally.
SweepFailsRunning ==
    /\ sweepPc = "expire"
    /\ Fault
    /\ sweepPc' = "retry"
    /\ stale' = {}
    /\ UNCHANGED <<rowVars, storageVars, requestVars, sweepKeys, queue, mishap>>

SweepFails ==
    /\ sweepPc = "expire"
    /\ Fault
    /\ sweepPc' = "idle"
    /\ stale' = {}
    /\ UNCHANGED <<rowVars, storageVars, requestVars, sweepKeys, queue, mishap>>

\* The process restarts: rows and objects stay, everything in memory is lost.
Crash ==
    /\ Fault
    /\ pc' = [r \in Requests |-> "idle"]
    /\ target' = [r \in Requests |-> None]
    /\ keys' = [r \in Requests |-> {}]
    /\ sweepPc' = "idle"
    /\ stale' = {}
    /\ sweepKeys' = {}
    /\ queue' = {}
    /\ Befall(Held, "forgotten")
    /\ UNCHANGED <<rowVars, storageVars>>

\* One tick for f.  Signing takes less than a tick, so that the URL's life and
\* the reservation's are counted from the same moment.
Tick(f) ==
    /\ uploadState[f] # "unused"
    /\ age[f] < MaxAge
    /\ \A r \in Requests : pc[r] = "sign" => target[r] # f
    /\ age' = [age EXCEPT ![f] = @ + 1]
    /\ UNCHANGED <<uploadState, parent, folders, storageVars, requestVars, sweepVars,
                   queue, faults, mishap>>

----------------------------------------------------------------------------
RequestStep(r) ==
    \/ CreateUploadUrl(r)
    \/ DiscardReservation(r)
    \/ StatObject(r)
    \/ ReadRange(r)
    \/ MarkReady(r)
    \/ ConfirmReady(r)
    \/ DeleteSubtree(r)
    \/ \E k \in Files : Release(r, k)

NewRequest(r) ==
    \/ \E f \in Files, d \in Folders : ReserveFile(r, f, d)
    \/ \E f \in Files : StartCommit(r, f)
    \/ \E f \in Files : DeleteFile(r, f)
    \/ \E d \in Folders : SelectSubtreeKeys(r, d)

SweepStepTaken ==
    \/ SweepScan
    \/ SweepDrain
    \/ \E f \in Files : SweepExpire(f)
    \/ \E k \in Files : SweepRelease(k)

PutEnds(f) ==
    \/ \E c \in Content \ {"absent"} : FinishPut(f, c)
    \/ AbortPut(f)

Next ==
    \/ \E r \in Requests : RequestStep(r)
    \/ \E r \in Requests : NewRequest(r)
    \/ \E r \in Requests : CreateUploadUrlFails(r)
    \/ \E r \in Requests : RequestFails(r)
    \/ \E f \in Files, d \in Folders : MoveFile(f, d)
    \/ \E f \in Files : StartPut(f)
    \/ \E f \in Files : PutEnds(f)
    \/ \E f \in Files : Tick(f)
    \/ SweepStepTaken
    \/ SweepFails
    \/ Crash

Spec == Init /\ [][Next]_vars

\* A request in progress makes its next call, the sweep's timer keeps firing,
\* time passes, and a PUT ends one way or the other.  Nothing says that a
\* client commits, that a user deletes anything, or that a fault happens.
Fairness ==
    /\ \A r \in Requests : WF_vars(RequestStep(r))
    /\ WF_vars(SweepStepTaken)
    /\ \A f \in Files : WF_vars(Tick(f)) /\ WF_vars(PutEnds(f))

FairSpec == Spec /\ Fairness

----------------------------------------------------------------------------
(* Safety.                                                                 *)

\* A committed file has its bytes: nothing a request, the sweep or a restart
\* does takes the object of a READY row away, except at the two steps the
\* history names - a commit that lost to another commit of the same file and
\* releases its object (files.service.ts commitUpload), and a folder deletion
\* that releases a key it read before the file was moved out of the folder
\* (folders.repository.ts deleteSubtree).
ReadyHasObject ==
    \A f \in Files :
        uploadState[f] = "READY" /\ object[f] = "absent"
            => mishap[f] \cap {"lostCommit", "movedOut"} # {}

\* A key somebody is about to delete belongs to no row: not to one that was
\* reserved, and to a committed one only after one of those two steps.  This
\* is the row-before-object order of discardReservation and the sweep.
HeldKeysAreUnreferenced ==
    \A f \in Held :
        \/ ~HasRow(f)
        \/ uploadState[f] = "READY" /\ mishap[f] \cap {"lostCommit", "movedOut"} # {}

\* An object without a row is on somebody's list to be deleted, or the step
\* that lost it is one of three: a PUT that finished after its row and its
\* object were deleted, a restart that emptied the in-memory queue, and a row
\* that entered a folder between the two statements of its deletion.
OrphansAreTracked ==
    \A f \in Files :
        object[f] # "absent" /\ ~HasRow(f)
            => \/ f \in Held
               \/ mishap[f] \cap {"missedKey", "latePut", "forgotten"} # {}

\* Every row hangs off a folder that exists: neither a reservation nor a move
\* survives the deletion of its folder.
ParentsExist == \A f \in Files : HasRow(f) => parent[f] \in folders

\* "It never touches a READY node" (upload-sweep.service.ts): a committed file
\* disappears only in a step of a deletion the owner asked for, never of the
\* sweep, of a commit or of a discarded reservation; and that deletion has
\* its key in hand unless the history says it missed it.
CommittedFilesLeaveByDeletion ==
    [][\A f \in Files :
          uploadState[f] = "READY" /\ uploadState'[f] # "READY"
              => /\ uploadState'[f] = "gone"
                 /\ UNCHANGED sweepVars
                 /\ \E r \in Requests : pc[r] \in {"idle", "delete"} /\ pc'[r] # pc[r]
                 /\ f \in Held' \/ "missedKey" \in mishap'[f]
      ]_vars

(* The inductive invariant behind them.                                    *)

\* Nothing has happened to an id that is not in the table yet.
FreshIds ==
    \A f \in Files :
        uploadState[f] = "unused"
            => /\ object[f] = "absent"
               /\ f \notin signed /\ f \notin putting /\ f \notin Held
               /\ \A r \in Requests :
                     /\ pc[r] \in FileStep => target[r] # f
                     /\ pc[r] = "delete" => f \notin keys[r]

\* A commit past its stat still has the bytes while its row is PENDING:
\* whoever deletes the object has removed the row first.
CheckedBytesStay ==
    \A r \in Requests :
        pc[r] \in {"head", "mark"} /\ uploadState[target[r]] = "PENDING"
            => object[target[r]] # "absent"

\* Between the two statements of a folder deletion a selected reservation
\* stays below the folder: only a committed file can have moved.
SelectedReservationsStay ==
    \A r \in Requests : \A f \in Files :
        pc[r] = "delete" /\ f \in keys[r] /\ uploadState[f] = "PENDING"
            => target[r] \in Anc[parent[f]]

SweepKeysMatchStep ==
    /\ sweepPc \in {"idle", "expire"} => sweepKeys = {}
    /\ sweepPc = "release" => \A k, l \in sweepKeys : k = l

IInv ==
    /\ TypeOK
    /\ FreshIds
    /\ HeldKeysAreUnreferenced
    /\ ReadyHasObject
    /\ CheckedBytesStay
    /\ SelectedReservationsStay
    /\ SweepKeysMatchStep
    /\ OrphansAreTracked
    /\ ParentsExist

(* What the repository says and the code does not do.                      *)

\* files.service.ts: a call that did not remove the reservation "must not
\* delete bytes a READY row may point at".  A commit that finds its file
\* already committed does.
LostCommitSparesReadyObject ==
    \A f \in Files :
        uploadState[f] = "READY" /\ object[f] = "absent" => "movedOut" \in mishap[f]

\* folders.repository.ts: deleteSubtree hands back "the storage keys of the
\* files removed".  A key it read is released although its file, moved out
\* before the delete statement, was not removed.
OnlyRemovedFilesAreReleased ==
    \A f \in Files :
        uploadState[f] = "READY" /\ object[f] = "absent" => "lostCommit" \in mishap[f]

(* Liveness.                                                               *)

\* A reservation ends: it is committed, discarded, or swept once its window
\* has passed, whatever the client does (file-storage spec, "Abandoned upload
\* disappears").
ReservationsEnd ==
    \A f \in Files : uploadState[f] = "PENDING" ~> uploadState[f] # "PENDING"

\* An object that lost its row is collected, storage outages included, unless
\* its key was lost track of (blob-release.queue.ts, "the sweep retries it").
OrphansAreCollected ==
    \A f \in Files :
        object[f] # "absent" /\ ~HasRow(f) ~> object[f] = "absent" \/ mishap[f] # {}

=============================================================================
