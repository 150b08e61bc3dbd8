------------------------------ MODULE GitWorkers ------------------------------
(***************************************************************************)
(* The life cycle of git sources and of the workers that poll them         *)
(* (internal/gitsync/service.go, worker.go), with the HTTP handlers that   *)
(* create, update and delete a source and the program's shutdown.          *)
(*                                                                         *)
(* A request runs in a goroutine of its own; it alternates statements of   *)
(* the database with sections of s.mu, and each one is an action.  A       *)
(* worker is named after who started it: the source itself if Start did,   *)
(* else the request.  What a sync does is modelled in GitSync.             *)
(*                                                                         *)
(* Intervals are positive.  CreateGitSource replaces 0 only (store.go:73): *)
(* a negative one makes rand.Int63n panic when the worker sets its timer   *)
(* (worker.go:41), which ends the server, and is not modelled.             *)
(***************************************************************************)
EXTENDS FiniteSets, Naturals

CONSTANTS
    Sources,    \* ids of git sources; an id is never used again
    Initial,    \* those the database holds when the program starts
    Requests,   \* create, update and delete requests, each one sent at most once
    Intervals,  \* poll intervals, all positive
    None,       \* nil
    Failures    \* may a statement of the database fail?

ASSUME WorkersAssumption ==
    /\ Initial \subseteq Sources
    /\ Sources \cap Requests = {}
    /\ None \notin Sources \cup Requests \cup Intervals
    /\ Intervals # {}
    /\ Failures \in BOOLEAN

Workers == Initial \cup Requests

VARIABLES
    row,       \* git_sources: the poll interval of a source, or None
    used,      \* ids that were given out
    workers,   \* Service.workers
    \* the workers
    wpc,       \* where the goroutine is
    interval,  \* its poll interval: that of w.gs, and from the first select on a
               \* variable of run that nothing changes
    stopped,   \* those whose stopCh is closed
    \* the requests
    rpc, target,
    snapshot,  \* the interval it will write
    held,      \* the worker that stopWorker took from the map and has not closed yet
    service    \* new, running, stopping (in Stop), stopped

table   == <<row, used>>
polling == <<wpc, interval>>
vars    == <<table, workers, polling, stopped, rpc, target, snapshot, held, service>>

\* none: not started; first, load: about to read its source, for the first time or
\* again; sync: inside runSync; wait: in the select; done: ended.
WorkerPC  == {"none", "first", "load", "sync", "wait", "done"}
RequestPC == {"idle", "insert", "write", "take", "close", "start",
              "takeLast", "closeLast", "delete", "done"}

SourceOf(w) == IF w \in Initial THEN w ELSE target[w]
Live(w)     == wpc[w] \in {"first", "load", "sync", "wait"}

TypeOK ==
    /\ row \in [Sources -> Intervals \cup {None}]
    /\ used \in SUBSET Sources
    /\ workers \in [Sources -> Workers \cup {None}]
    /\ wpc \in [Workers -> WorkerPC]
    /\ interval \in [Workers -> Intervals \cup {None}]
    /\ stopped \in SUBSET Workers
    /\ rpc \in [Requests -> RequestPC]
    /\ target \in [Requests -> Sources \cup {None}]
    /\ snapshot \in [Requests -> Intervals \cup {None}]
    /\ held \in [Requests -> Workers \cup {None}]
    /\ service \in {"new", "running", "stopping", "stopped"}

Init ==
    /\ row \in {f \in [Sources -> Intervals \cup {None}] :
                  \A src \in Sources : f[src] # None <=> src \in Initial}
    /\ used = Initial
    /\ workers = [src \in Sources |-> None]
    /\ wpc = [w \in Workers |-> "none"] /\ interval = [w \in Workers |-> None]
    /\ stopped = {}
    /\ rpc = [r \in Requests |-> "idle"] /\ target = [r \in Requests |-> None]
    /\ snapshot = [r \in Requests |-> None] /\ held = [r \in Requests |-> None]
    /\ service = "new"

------------------------------------------------------------------------------
(* The service. *)

\* Start runs before the API server does: a worker for every stored source.
Start ==
    /\ service = "new"
    /\ service' = "running"
    /\ workers' = [src \in Sources |-> IF src \in Initial THEN src ELSE None]
    /\ wpc' = [w \in Workers |-> IF w \in Initial THEN "first" ELSE "none"]
    /\ interval' = [w \in Workers |-> IF w \in Initial THEN row[w] ELSE None]
    /\ UNCHANGED <<table, stopped, rpc, target, snapshot, held>>

\* main stops the API server first, which takes no more requests and waits ten
\* seconds at most for those it has; then Stop cancels the context of Start.
BeginStop ==
    /\ service = "running"
    /\ service' = "stopping"
    /\ UNCHANGED <<table, workers, polling, stopped, rpc, target, snapshot, held>>

\* wg.Wait: every worker that was started has ended.
EndStop ==
    /\ service = "stopping"
    /\ \A w \in Workers : ~Live(w)
    /\ service' = "stopped"
    /\ UNCHANGED <<table, workers, polling, stopped, rpc, target, snapshot, held>>

------------------------------------------------------------------------------
(* Requests *)

\* HandleCreateSource and CreateSource: a new id, a row, a worker.
CreateSource(r, src, i) ==
    /\ service = "running" /\ rpc[r] = "idle"
    /\ src \notin used
    /\ used' = used \cup {src}
    /\ target' = [target EXCEPT ![r] = src]
    /\ snapshot' = [snapshot EXCEPT ![r] = i]
    /\ rpc' = [rpc EXCEPT ![r] = "insert"]
    /\ UNCHANGED <<row, workers, polling, stopped, held, service>>

\* HandleUpdateSource reads the source first and keeps the stored interval if the
\* request names none.
UpdateSource(r, src, i) ==
    /\ service = "running" /\ rpc[r] = "idle"
    /\ row[src] # None
    /\ target' = [target EXCEPT ![r] = src]
    /\ snapshot' = [snapshot EXCEPT ![r] = IF i = None THEN row[src] ELSE i]
    /\ rpc' = [rpc EXCEPT ![r] = "write"]
    /\ UNCHANGED <<table, workers, polling, stopped, held, service>>

\* HandleDeleteSource reads the source first too.
DeleteSource(r, src) ==
    /\ service = "running" /\ rpc[r] = "idle"
    /\ row[src] # None
    /\ target' = [target EXCEPT ![r] = src]
    /\ rpc' = [rpc EXCEPT ![r] = "takeLast"]
    /\ UNCHANGED <<table, workers, polling, stopped, snapshot, held, service>>

\* The statement of a request fails: it gives up where it is.
Fail(r) ==
    /\ Failures
    /\ rpc[r] \in {"insert", "write", "delete"}
    /\ rpc' = [rpc EXCEPT ![r] = "done"]
    /\ UNCHANGED <<table, workers, polling, stopped, target, snapshot, held, service>>

\* store.Create
InsertRow(r) ==
    /\ rpc[r] = "insert"
    /\ row' = [row EXCEPT ![target[r]] = snapshot[r]]
    /\ rpc' = [rpc EXCEPT ![r] = "start"]
    /\ UNCHANGED <<used, workers, polling, stopped, target, snapshot, held, service>>

\* store.Update: a row that is gone stays gone, which is no error.
WriteRow(r) ==
    /\ rpc[r] = "write"
    /\ row' = [row EXCEPT ![target[r]] = IF @ = None THEN None ELSE snapshot[r]]
    /\ rpc' = [rpc EXCEPT ![r] = "take"]
    /\ UNCHANGED <<used, workers, polling, stopped, target, snapshot, held, service>>

\* store.Delete
DeleteRow(r) ==
    /\ rpc[r] = "delete"
    /\ row' = [row EXCEPT ![target[r]] = None]
    /\ rpc' = [rpc EXCEPT ![r] = "done"]
    /\ UNCHANGED <<used, workers, polling, stopped, target, snapshot, held, service>>

AfterStop(r) == IF rpc[r] \in {"takeLast", "closeLast"} THEN "delete" ELSE "start"

\* stopWorker leaves the worker in the map.
BugTakeKeepsEntry(r) ==
    /\ rpc[r] \in {"take", "takeLast"}
    /\ held' = [held EXCEPT ![r] = workers[target[r]]]
    /\ rpc' = [rpc EXCEPT ![r] = IF workers[target[r]] = None THEN AfterStop(r)
                                 ELSE IF @ = "take" THEN "close" ELSE "closeLast"]
    /\ UNCHANGED <<table, workers, polling, stopped, target, snapshot, service>>

\* stopWorker does not look whether there is a worker.
BugTakeUnchecked(r) ==
    /\ rpc[r] \in {"take", "takeLast"}
    /\ held' = [held EXCEPT ![r] = workers[target[r]]]
    /\ workers' = [workers EXCEPT ![target[r]] = None]
    /\ rpc' = [rpc EXCEPT ![r] = IF @ = "take" THEN "close" ELSE "closeLast"]
    /\ UNCHANGED <<table, polling, stopped, target, snapshot, service>>

\* stopWorker, under s.mu: the worker leaves the map...
TakeWorker(r) ==
    /\ rpc[r] \in {"take", "takeLast"}
    /\ held' = [held EXCEPT ![r] = workers[target[r]]]
    /\ workers' = [workers EXCEPT ![target[r]] = None]
    /\ rpc' = [rpc EXCEPT ![r] = IF workers[target[r]] = None THEN AfterStop(r)
                                 ELSE IF @ = "take" THEN "close" ELSE "closeLast"]
    /\ UNCHANGED <<table, polling, stopped, target, snapshot, service>>

\* ... and then its channel is closed.
CloseWorker(r) ==
    /\ rpc[r] \in {"close", "closeLast"}
    /\ stopped' = stopped \cup {held[r]}
    /\ held' = [held EXCEPT ![r] = None]
    /\ rpc' = [rpc EXCEPT ![r] = AfterStop(r)]
    /\ UNCHANGED <<table, workers, polling, target, snapshot, service>>

\* startWorker does not look for a worker that is running already.
BugStartReplaces(r) ==
    /\ rpc[r] = "start"
    /\ rpc' = [rpc EXCEPT ![r] = "done"]
    /\ workers' = [workers EXCEPT ![target[r]] = r]
    /\ wpc' = [wpc EXCEPT ![r] = "first"]
    /\ interval' = [interval EXCEPT ![r] = snapshot[r]]
    /\ UNCHANGED <<table, stopped, target, snapshot, held, service>>

\* startWorker, under s.mu: unless another request has started one since.
StartWorker(r) ==
    /\ rpc[r] = "start"
    /\ rpc' = [rpc EXCEPT ![r] = "done"]
    /\ IF workers[target[r]] # None
       THEN UNCHANGED <<workers, polling>>
       ELSE /\ workers' = [workers EXCEPT ![target[r]] = r]
            /\ wpc' = [wpc EXCEPT ![r] = "first"]
            /\ interval' = [interval EXCEPT ![r] = snapshot[r]]
    /\ UNCHANGED <<table, stopped, target, snapshot, held, service>>

------------------------------------------------------------------------------
(* Workers *)

\* Only the workers that Start started run on the context that Stop cancels.
cancelled(w) == w \in Initial /\ service \in {"stopping", "stopped"}

\* doSync uses the source the worker was started with.
BugLoadKeepsCopy(w, failed) ==
    /\ wpc[w] \in {"first", "load"}
    /\ failed => Failures \/ cancelled(w)
    /\ wpc' = [wpc EXCEPT ![w] = IF failed \/ row[SourceOf(w)] = None THEN "wait" ELSE "sync"]
    /\ UNCHANGED <<table, interval, workers, stopped, rpc, target, snapshot, held, service>>

\* doSync reads the source anew.  If that fails, or the source is gone, there is
\* nothing to sync; if not, the first time decides on the interval.
LoadSource(w, failed) ==
    /\ wpc[w] \in {"first", "load"}
    /\ failed => Failures \/ cancelled(w)
    /\ LET stored == row[SourceOf(w)]
       IN IF failed \/ stored = None
          THEN wpc' = [wpc EXCEPT ![w] = "wait"] /\ UNCHANGED interval
          ELSE /\ wpc' = [wpc EXCEPT ![w] = "sync"]
               /\ interval' = [interval EXCEPT ![w] = IF wpc[w] = "first" THEN stored ELSE @]
    /\ UNCHANGED <<table, workers, stopped, rpc, target, snapshot, held, service>>

EndSync(w) ==
    /\ wpc[w] = "sync"
    /\ wpc' = [wpc EXCEPT ![w] = "wait"]
    /\ UNCHANGED <<table, workers, interval, stopped, rpc, target, snapshot, held, service>>

\* The select: its timer...
Tick(w) ==
    /\ wpc[w] = "wait"
    /\ wpc' = [wpc EXCEPT ![w] = "load"]
    /\ UNCHANGED <<table, workers, interval, stopped, rpc, target, snapshot, held, service>>

\* run selects on the context and the timer only.
BugSignalledByContext(w) == cancelled(w)

\* run selects on its channel and the timer only.
BugSignalledByChannel(w) == w \in stopped

signalled(w) == cancelled(w) \/ w \in stopped

\* ... its context or its channel.
EndWorker(w) ==
    /\ wpc[w] = "wait"
    /\ signalled(w)
    /\ wpc' = [wpc EXCEPT ![w] = "done"]
    /\ UNCHANGED <<table, workers, interval, stopped, rpc, target, snapshot, held, service>>

------------------------------------------------------------------------------
RequestStep(r) ==
    \/ Fail(r) \/ InsertRow(r) \/ WriteRow(r) \/ DeleteRow(r)
    \/ TakeWorker(r) \/ CloseWorker(r) \/ StartWorker(r)

WorkerStep(w) ==
    \/ \E failed \in BOOLEAN : LoadSource(w, failed)
    \/ EndSync(w)
    \/ Tick(w)
    \/ EndWorker(w)

Next ==
    \/ Start \/ BeginStop \/ EndStop
    \/ \E r \in Requests :
           \/ \E src \in Sources, i \in Intervals : CreateSource(r, src, i)
           \/ \E src \in Sources, i \in Intervals \cup {None} : UpdateSource(r, src, i)
           \/ \E src \in Sources : DeleteSource(r, src)
           \/ RequestStep(r)
    \/ \E w \in Workers : WorkerStep(w)

Spec == Init /\ [][Next]_vars

\* Goroutines run, a sync ends (its context does after five minutes), timers fire, and
\* a select that finds several channels ready again and again takes each of them.
Fairness ==
    /\ WF_vars(EndStop)
    /\ \A r \in Requests : WF_vars(RequestStep(r))
    /\ \A w \in Workers : WF_vars(WorkerStep(w)) /\ SF_vars(EndWorker(w))

FairSpec == Spec /\ Fairness

------------------------------------------------------------------------------
(* Properties *)

\* No polling goroutine is lost: one that nobody stopped is the worker the map holds
\* for its source, or a request has just taken it from there to stop it (service.go:331-359).
NoOrphans ==
    \A w \in Workers : Live(w) /\ w \notin stopped =>
        workers[SourceOf(w)] = w \/ \E r \in Requests : held[r] = w

\* stopWorker never closes a channel that is closed (service.go:348-359), which would panic:
\* the worker a request is about to stop is stopped by no other.
StopOnce ==
    \A r \in Requests : held[r] # None =>
        /\ held[r] \notin stopped
        /\ \A q \in Requests : held[q] = held[r] => q = r

Settled == service = "running" /\ \A r \in Requests : rpc[r] \in {"idle", "done"}

\* If no statement fails, then after any updates and deletes at once every stored
\* source has a worker that keeps polling (service.go:121-139).
EverySourcePolled ==
    Settled => \A src \in Sources : row[src] # None =>
        workers[src] # None /\ Live(workers[src]) /\ workers[src] \notin stopped

\* UpdateSource "restarts the poller with new settings" (service.go:120): whichever of two
\* updates was stored last, the worker polls at the interval that is stored.
PollsAsStored ==
    Settled => \A src \in Sources :
        row[src] # None /\ workers[src] # None =>
            wpc[workers[src]] = "first" \/ interval[workers[src]] = row[src]

\* A stopped worker ends, be it in the middle of a sync (worker.go:44-56).
StoppedWorkersEnd == \A w \in Workers : w \in stopped ~> wpc[w] = "done"

\* Stop returns, unless a worker is running that a request started (service.go:84-90).
StopsOwnWorkers ==
    service = "stopping" ~> service = "stopped" \/ \E w \in Requests : Live(w)

------------------------------------------------------------------------------
(* What the comments say *)

\* "Stop gracefully shuts down all pollers" (service.go:84), because "the stopAll cancel
\* will still fire" for those that a request started (service.go:369).
StopReturns == service = "stopping" ~> service = "stopped"

==============================================================================
