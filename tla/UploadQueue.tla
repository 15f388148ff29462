---------------------------- MODULE UploadQueue ----------------------------
(***************************************************************************)
(* The browser's upload queue (createUploadQueue): rows the user sees,     *)
(* runs that take a row through reserve, send and commit, and the user who *)
(* enqueues, cancels, retries and dismisses.                               *)
(*                                                                         *)
(* JavaScript is single-threaded: one action is what the code does between *)
(* two awaits, or one call of the queue's interface.  A run is one call of *)
(* run(id); after a cancel and a retry the old run and the new one of the  *)
(* same row can be alive together: an aborted call may reject late, when   *)
(* the API client is waiting for a session refresh.                        *)
(***************************************************************************)
EXTENDS Naturals, FiniteSets

CONSTANTS
    MaxItems,     \* bound: rows ever enqueued; a row is its place in the list
    Concurrency,  \* options.concurrency
    HonoursAbort, \* whether an aborted call can no longer succeed (see Settles)
    Handled,      \* bound: rows the user cancels, retries or dismisses one by one
    Runs,         \* names for the calls of run() in progress
    None          \* null

ASSUME BoundsAssumption ==
    /\ MaxItems \in Nat
    /\ Concurrency \in Nat \ {0}
    /\ HonoursAbort \in BOOLEAN
    /\ Handled \subseteq 1 .. MaxItems
    /\ None \notin Runs \cup 1 .. MaxItems

Items == 1 .. MaxItems

VARIABLES
    status,      \* status[i]: "none" before it is enqueued, "gone" once dismissed
    cancelled,   \* rows whose Runtime has cancelled = true
    controller,  \* controller[i]: the run whose AbortController the Runtime holds
    run,         \* run[r]: the row a run is for and what it awaits
    aborted,     \* runs whose signal is aborted, where their calls look at it
    running,     \* the queue's counter
    ready        \* rows that know of a READY node on the server, or have a run
                 \*   that has yet to hear of it

vars == <<status, cancelled, controller, run, aborted, running, ready>>

Active == {"queued", "reserving", "sending", "committing"}
Status == Active \cup {"none", "done", "failed", "cancelled", "gone"}

\* What a run awaits: "reserve2" and "send2" are the second reservation taken
\* when the signed URL expired, "committed" a commit the server has applied.
Await == {"reserve", "send", "reserve2", "send2", "commit", "committed"}
Idle == [item |-> None, step |-> "idle"]
Alive == [item : Items, step : Await]

TypeOK ==
    /\ status \in [Items -> Status]
    /\ cancelled \subseteq Items
    /\ controller \in [Items -> Runs \cup {None}]
    /\ run \in [Runs -> Alive \cup {Idle}]
    /\ aborted \subseteq Runs
    /\ running \in Nat
    /\ ready \subseteq Items

Init ==
    /\ status = [i \in Items |-> "none"]
    /\ cancelled = {}
    /\ controller = [i \in Items |-> None]
    /\ run = [r \in Runs |-> Idle]
    /\ aborted = {}
    /\ running = 0
    /\ ready = {}

-----------------------------------------------------------------------------
(* Rows and slots *)

HasRow(i) == status[i] \notin {"none", "gone"}
IsActive(i) == status[i] \in Active
RunsOf(i) == {r \in Runs : run[r].item = i}
Busy == {r \in Runs : run[r] # Idle}

\* patch: a row that was dismissed is not written.
Patched(i, s) == IF HasRow(i) THEN [status EXCEPT ![i] = s] ELSE status

\* patchRunning: silent while the row is cancelled.
RunPatched(i, s) == IF i \in cancelled THEN status ELSE Patched(i, s)

\* pump, over the rows st when n runs hold a slot: the first queued rows, as
\* many as there are slots left.
Picked(st, n) ==
    LET Queued == {i \in Items : st[i] = "queued"} IN
    {i \in Queued : n + Cardinality({j \in Queued : j < i}) < Concurrency}

\* The rest of pump: each picked row is reserving and has a run.  rn, ctl and
\* n are run, controller and running as its caller leaves them.
Pump(st, rn, ctl, n) ==
    LET next == Picked(st, n) IN
    \E slot \in [next -> {r \in Runs : rn[r] = Idle}] :
      /\ \A i, j \in next : slot[i] = slot[j] => i = j
      /\ status' = [i \in Items |-> IF i \in next THEN "reserving" ELSE st[i]]
      /\ run' = [r \in Runs |->
                   IF \E i \in next : slot[i] = r
                   THEN [item |-> CHOOSE i \in next : slot[i] = r,
                         step |-> "reserve"]
                   ELSE rn[r]]
      /\ controller' = [i \in Items |-> IF i \in next THEN slot[i] ELSE ctl[i]]
      /\ running' = n + Cardinality(next)

\* mutant: finally gives the slot back and does not pump
FinishWithoutPump(r, s) ==
    LET i == run[r].item IN
    /\ status' = Patched(i, s)
    /\ run' = [run EXCEPT ![r] = Idle]
    /\ controller' = [controller EXCEPT ![i] = None]
    /\ running' = running - 1
    /\ aborted' = aborted \ {r}
    /\ UNCHANGED cancelled

\* mutant: only an ended transfer gives its slot back, not a failed one
FinishKeepsSlot(r, s) ==
    LET i == run[r].item IN
    /\ Pump(Patched(i, s), [run EXCEPT ![r] = Idle],
            [controller EXCEPT ![i] = None],
            IF s = "failed" THEN running ELSE running - 1)
    /\ aborted' = aborted \ {r}
    /\ UNCHANGED cancelled

\* run's last turn: the row's outcome, then finally.
Finish(r, s) ==
    LET i == run[r].item IN
    /\ Pump(Patched(i, s), [run EXCEPT ![r] = Idle],
            [controller EXCEPT ![i] = None], running - 1)
    /\ aborted' = aborted \ {r}
    /\ UNCHANGED cancelled

-----------------------------------------------------------------------------
(* A run *)

\* The run goes on to its next await.
Continue(r, step, st) ==
    /\ run' = [run EXCEPT ![r].step = step]
    /\ status' = st
    /\ UNCHANGED <<cancelled, controller, aborted, running>>

\* Whether the call r awaits may succeed.  The browser's pipeline rejects an
\* aborted call; the queue's contract does not ask that of a pipeline, and its
\* tests settle a call "already past the point of no return".
Settles(r) == HonoursAbort => r \notin aborted

\* The reservation answers and the transfer starts in the same turn.
Reserved(r) ==
    /\ Settles(r)
    /\ \/ run[r].step = "reserve" /\ Continue(r, "send", RunPatched(run[r].item, "sending"))
       \/ run[r].step = "reserve2" /\ Continue(r, "send2", RunPatched(run[r].item, "sending"))
    /\ UNCHANGED ready

\* mutant: patch instead of patchRunning, a cancel silences nothing
SentAloud(r) ==
    /\ run[r].step \in {"send", "send2"} /\ Settles(r)
    /\ Continue(r, "commit", Patched(run[r].item, "committing"))
    /\ UNCHANGED ready

\* Storage has the bytes and the commit is asked for.
Sent(r) ==
    /\ run[r].step \in {"send", "send2"} /\ Settles(r)
    /\ Continue(r, "commit", RunPatched(run[r].item, "committing"))
    /\ UNCHANGED ready

\* The signed URL expired: one fresh reservation, unless the row is cancelled.
SendExpires(r) ==
    /\ run[r].step = "send" /\ Settles(r)
    /\ run[r].item \notin cancelled
    /\ Continue(r, "reserve2", status)
    /\ UNCHANGED ready

\* The server marks the node READY before its answer arrives.
ServerCommits(r) ==
    /\ run[r].step = "commit"
    /\ ready' = ready \cup {run[r].item}
    /\ Continue(r, "committed", status)

\* The commit answers: done, unless the row is cancelled.
Committed(r) ==
    /\ run[r].step = "committed" /\ Settles(r)
    /\ Finish(r, IF run[r].item \in cancelled THEN status[run[r].item] ELSE "done")
    /\ UNCHANGED ready

\* mutant: an error in the commit is not caught, only the slot is given back
FailsSilently(r) ==
    /\ run[r] # Idle
    /\ Finish(r, IF run[r].step = "committed" THEN status[run[r].item]
                 ELSE IF run[r].item \in cancelled THEN "cancelled" ELSE "failed")
    /\ UNCHANGED ready

\* Any call can fail with an error that is not an abort.
Fails(r) ==
    /\ run[r] # Idle
    /\ Finish(r, IF run[r].item \in cancelled THEN "cancelled" ELSE "failed")
    /\ UNCHANGED ready

\* An AbortError reaches the catch, whoever raised it: that of a call the user
\* cancelled, now or much later, or one the browser aborted by itself.
Aborts(r) ==
    /\ run[r] # Idle
    /\ Finish(r, "cancelled")
    /\ UNCHANGED ready

-----------------------------------------------------------------------------
(* The user *)

\* enqueue: n rows at the end of the list, then pump.
Enqueue(n) ==
    LET fresh == {i \in Items : status[i] = "none"}
        new == {i \in fresh : Cardinality({j \in fresh : j < i}) < n} IN
    /\ n <= Cardinality(fresh)
    /\ Pump([i \in Items |-> IF i \in new THEN "queued" ELSE status[i]],
            run, controller, running)
    /\ UNCHANGED <<cancelled, aborted, ready>>

Cancel(i) ==
    /\ IsActive(i)
    /\ cancelled' = cancelled \cup {i}
    /\ status' = [status EXCEPT ![i] = "cancelled"]
    /\ aborted' = IF HonoursAbort THEN aborted \cup ({controller[i]} \ {None})
                  ELSE aborted
    /\ UNCHANGED <<controller, run, running, ready>>

\* The rows of S forget their nodes (nodeId: null); an old run that is still to
\* hear of its commit does not.
Forgotten(S) == {i \in S : \A r \in RunsOf(i) : run[r].step # "committed"}

\* mutant: retry leaves the row queued for somebody else to pump
RetryWithoutPump(i) ==
    /\ status[i] \in {"failed", "cancelled"}
    /\ cancelled' = cancelled \ {i}
    /\ status' = [status EXCEPT ![i] = "queued"]
    /\ controller' = [controller EXCEPT ![i] = None]
    /\ ready' = ready \ Forgotten({i})
    /\ UNCHANGED <<run, aborted, running>>

Retry(i) ==
    /\ status[i] \in {"failed", "cancelled"}
    /\ cancelled' = cancelled \ {i}
    /\ Pump([status EXCEPT ![i] = "queued"], run,
            [controller EXCEPT ![i] = None], running)
    /\ ready' = ready \ Forgotten({i})
    /\ UNCHANGED aborted

\* dismiss, and clearFinished for every finished row at once: the row and its
\* Runtime go; a run that holds the Runtime keeps it.
Drop(gone) ==
    /\ gone # {}
    /\ status' = [i \in Items |-> IF i \in gone THEN "gone" ELSE status[i]]
    /\ ready' = ready \ Forgotten(gone)
    /\ UNCHANGED <<cancelled, controller, run, aborted, running>>

Finished == {i \in Items : HasRow(i) /\ ~IsActive(i)}

Dismiss(i) == i \in Finished /\ Drop({i})
ClearFinished == Drop(Finished)

-----------------------------------------------------------------------------

RunStep(r) ==
    \/ Reserved(r)
    \/ Sent(r)
    \/ SendExpires(r)
    \/ ServerCommits(r)
    \/ Committed(r)
    \/ Fails(r)
    \/ Aborts(r)

UserStep ==
    \/ \E n \in 1 .. MaxItems : Enqueue(n)
    \/ \E i \in Handled : Cancel(i) \/ Retry(i) \/ Dismiss(i)
    \/ ClearFinished

Next ==
    \/ \E r \in Runs : RunStep(r)
    \/ UserStep

Spec == Init /\ [][Next]_vars

\* Every call a run awaits settles; the user need not do anything.
FairSpec == Spec /\ \A r \in Runs : WF_vars(RunStep(r))

-----------------------------------------------------------------------------
(* Properties *)

\* The counter that admits runs is the number of runs, through cancels,
\* retries over a run that is still unwinding, failures and dismissals, and
\* it never exceeds the concurrency.
RunningCountsRuns ==
    /\ running = Cardinality(Busy)
    /\ running <= Concurrency

\* Between two turns no row waits while a slot is free.
NoIdleSlot ==
    running < Concurrency => \A i \in Items : status[i] # "queued"

\* A row the user stopped says cancelled whatever its run does afterwards: no
\* late progress, success or failure is written over it, whether or not its
\* pipeline honours the abort.
StoppedRowsStayStopped ==
    \A i \in cancelled : HasRow(i) => status[i] = "cancelled"

\* A row shows what happened: a transfer has a run behind it, so nothing spins
\* for ever, and a row that says done has a READY node on the server.
RowsTellTheTruth ==
    \A i \in Items :
      /\ status[i] \in {"reserving", "sending", "committing"} => RunsOf(i) # {}
      /\ status[i] = "done" => i \in ready

\* The Runtime's AbortController belongs to a run of that row, and only runs in
\* progress can be aborted.
ControllersAreLive ==
    /\ \A i \in Items : controller[i] # None => run[controller[i]].item = i
    /\ aborted \subseteq Busy

\* The node of a commit the server has applied is READY.
AppliedCommitsAreReady ==
    \A r \in Runs : run[r].step = "committed" => run[r].item \in ready

\* The inductive invariant.  A row that was never enqueued has no history, and
\* the runs in progress are finitely many whatever Runs is.
IInv ==
    /\ TypeOK
    /\ IsFiniteSet(Busy)
    /\ \A i \in cancelled : status[i] # "none"
    /\ ControllersAreLive
    /\ AppliedCommitsAreReady
    /\ RunningCountsRuns
    /\ NoIdleSlot
    /\ StoppedRowsStayStopped
    /\ RowsTellTheTruth

\* A row that failed or was cancelled is taken up again.
Restarts(j) == status[j] \in {"failed", "cancelled"} /\ status'[j] \in Active

\* A row whose turn has come ends: it is done, or it failed or was cancelled and
\* can be retried.  Slots go to the first queued row of the list, so what is
\* assumed of the user is that no row above it is retried for ever; rows below
\* it, and new ones, never hold it up.
UploadsEnd ==
    \A i \in Items :
      (\A j \in 1 .. i - 1 : <>[][~Restarts(j)]_vars)
        => (IsActive(i) ~> ~IsActive(i))
=============================================================================
