--------------------------- MODULE GitWorkersProofs ---------------------------
(***************************************************************************)
(* Proofs about the pollers of git sources, for any sources and requests:  *)
(* no worker is lost and none is stopped twice, whatever creates, updates, *)
(* deletes and failing statements interleave.                              *)
(***************************************************************************)
EXTENDS GitWorkers, TLAPS

\* A worker that was not started is nowhere, and one named after a request is not
\* started before the request's last step.
Fresh ==
    /\ \A w \in Workers : wpc[w] = "none" =>
          /\ w \notin stopped
          /\ \A src \in Sources : workers[src] # w
          /\ \A r \in Requests : held[r] # w
    /\ \A r \in Requests : rpc[r] # "done" => wpc[r] = "none"

\* The map holds, for a source, a worker of that source that nobody has stopped.
Registered ==
    \A src \in Sources : workers[src] # None =>
        SourceOf(workers[src]) = src /\ workers[src] \notin stopped

\* Between the two halves of stopWorker a request holds a worker of its source, which
\* the map does not.
Holding ==
    \A r \in Requests :
        /\ rpc[r] # "idle" => target[r] \in Sources
        /\ held[r] # None <=> rpc[r] \in {"close", "closeLast"}
        /\ held[r] # None => \A src \in Sources : workers[src] # held[r]

BeforeStart ==
    service = "new" =>
        /\ \A r \in Requests : rpc[r] = "idle"
        /\ \A w \in Workers : wpc[w] = "none"

WorkersInv ==
    /\ TypeOK
    /\ Fresh
    /\ Registered
    /\ Holding
    /\ BeforeStart
    /\ StopOnce
    /\ NoOrphans

\* What holds besides if no statement fails.  An id is given to one request...
NewIds ==
    /\ Initial \subseteq used
    /\ \A src \in Sources : src \notin used =>
          /\ row[src] = None /\ workers[src] = None
          /\ \A r \in Requests : target[r] # src
    /\ \A r \in Requests : rpc[r] = "insert" =>
          /\ target[r] \in used
          /\ row[target[r]] = None /\ workers[target[r]] = None
          /\ \A q \in Requests : target[q] = target[r] => q = r

\* ... a worker ends for a reason...
EndsSignalled == \A w \in Workers : wpc[w] = "done" => signalled(w)

\* ... a stored source without a worker is about to get one, or to be deleted...
Restarting ==
    service = "running" => \A src \in Sources : row[src] # None /\ workers[src] = None =>
        \E r \in Requests :
            target[r] = src /\ rpc[r] \in {"start", "close", "closeLast", "delete"}

\* ... and a worker with an interval that is not the stored one is about to be stopped.
Reloading ==
    service = "running" => \A src \in Sources :
        row[src] # None /\ workers[src] # None =>
            \/ wpc[workers[src]] = "first"
            \/ interval[workers[src]] = row[src]
            \/ \E r \in Requests : target[r] = src /\ rpc[r] = "take"

StoredBeforeStart == service = "new" => \A src \in Sources : row[src] # None => src \in Initial

PollingInv == NewIds /\ EndsSignalled /\ Restarting /\ Reloading /\ StoredBeforeStart

------------------------------------------------------------------------------
\* A step of the system is one of these.
LEMMA WorkersSteps ==
    ASSUME [Next]_vars
    PROVE  \/ Start \/ BeginStop \/ EndStop
           \/ \E r \in Requests, src \in Sources, i \in Intervals : CreateSource(r, src, i)
           \/ \E r \in Requests, src \in Sources, i \in Intervals \cup {None} :
                 UpdateSource(r, src, i)
           \/ \E r \in Requests, src \in Sources : DeleteSource(r, src)
           \/ \E r \in Requests : Fail(r) \/ InsertRow(r) \/ WriteRow(r) \/ DeleteRow(r)
           \/ \E r \in Requests : TakeWorker(r)
           \/ \E r \in Requests : CloseWorker(r)
           \/ \E r \in Requests : StartWorker(r)
           \/ \E w \in Workers, failed \in BOOLEAN : LoadSource(w, failed)
           \/ \E w \in Workers : EndSync(w) \/ Tick(w) \/ EndWorker(w)
           \/ UNCHANGED vars
BY DEF Next, RequestStep, WorkerStep

LEMMA InitWorkersInv == Init => WorkersInv
BY WorkersAssumption DEF Init, WorkersInv, TypeOK, Fresh, Registered, Holding, BeforeStart,
   StopOnce, NoOrphans, Live, WorkerPC, RequestPC, Workers

LEMMA NextTypeOK ==
    ASSUME WorkersInv, [Next]_vars
    PROVE  TypeOK'
<1> USE WorkersAssumption DEF WorkersInv, TypeOK, WorkerPC, RequestPC, Workers, Holding,
        BeforeStart, table, polling
<1>1. CASE Start
    BY <1>1 DEF Start
<1>2. CASE BeginStop \/ EndStop
    BY <1>2 DEF BeginStop, EndStop
<1>3. ASSUME NEW r \in Requests, NEW src \in Sources, NEW i \in Intervals, CreateSource(r, src, i)
      PROVE  TypeOK'
    BY <1>3 DEF CreateSource
<1>4. ASSUME NEW r \in Requests, NEW src \in Sources, NEW i \in Intervals \cup {None},
            UpdateSource(r, src, i)
      PROVE  TypeOK'
    BY <1>4 DEF UpdateSource
<1>5. ASSUME NEW r \in Requests, NEW src \in Sources, DeleteSource(r, src)
      PROVE  TypeOK'
    BY <1>5 DEF DeleteSource
<1>6. ASSUME NEW r \in Requests, Fail(r) \/ InsertRow(r) \/ WriteRow(r) \/ DeleteRow(r)
      PROVE  TypeOK'
    BY <1>6 DEF Fail, InsertRow, WriteRow, DeleteRow
<1>7. ASSUME NEW r \in Requests, TakeWorker(r)
      PROVE  TypeOK'
    BY <1>7 DEF TakeWorker, AfterStop
<1>8. ASSUME NEW r \in Requests, CloseWorker(r)
      PROVE  TypeOK'
    BY <1>8 DEF CloseWorker, AfterStop
<1>9. ASSUME NEW r \in Requests, StartWorker(r)
      PROVE  TypeOK'
    BY <1>9 DEF StartWorker
<1>10. ASSUME NEW w \in Workers, NEW failed \in BOOLEAN, LoadSource(w, failed)
      PROVE  TypeOK'
    <2>1. SourceOf(w) \in Sources
        BY <1>10 DEF LoadSource, SourceOf, Fresh
    <2> QED
        BY <1>10, <2>1 DEF LoadSource
<1>11. ASSUME NEW w \in Workers, EndSync(w) \/ Tick(w) \/ EndWorker(w)
      PROVE  TypeOK'
    BY <1>11 DEF EndSync, Tick, EndWorker
<1>12. CASE UNCHANGED vars
    BY <1>12 DEF vars
<1> HIDE DEF TypeOK
<1> QED
    BY <1>1, <1>2, <1>3, <1>4, <1>5, <1>6, <1>7, <1>8, <1>9, <1>10, <1>11, <1>12, WorkersSteps

LEMMA NextFresh ==
    ASSUME WorkersInv, [Next]_vars
    PROVE  Fresh' /\ BeforeStart'
<1> USE WorkersAssumption DEF WorkersInv, TypeOK, WorkerPC, Workers, Fresh, Holding,
        BeforeStart, table, polling
<1>1. CASE Start
    BY <1>1 DEF Start
<1>2. CASE BeginStop \/ EndStop
    BY <1>2 DEF BeginStop, EndStop
<1>3. ASSUME NEW r \in Requests, NEW src \in Sources, NEW i \in Intervals, CreateSource(r, src, i)
      PROVE  Fresh' /\ BeforeStart'
    BY <1>3 DEF CreateSource
<1>4. ASSUME NEW r \in Requests, NEW src \in Sources, NEW i \in Intervals \cup {None},
            UpdateSource(r, src, i)
      PROVE  Fresh' /\ BeforeStart'
    BY <1>4 DEF UpdateSource
<1>5. ASSUME NEW r \in Requests, NEW src \in Sources, DeleteSource(r, src)
      PROVE  Fresh' /\ BeforeStart'
    BY <1>5 DEF DeleteSource
<1>6. ASSUME NEW r \in Requests, Fail(r) \/ InsertRow(r) \/ WriteRow(r) \/ DeleteRow(r)
      PROVE  Fresh' /\ BeforeStart'
    BY <1>6 DEF Fail, InsertRow, WriteRow, DeleteRow
<1>7. ASSUME NEW r \in Requests, TakeWorker(r)
      PROVE  Fresh' /\ BeforeStart'
    BY <1>7 DEF TakeWorker, AfterStop
<1>8. ASSUME NEW r \in Requests, CloseWorker(r)
      PROVE  Fresh' /\ BeforeStart'
    BY <1>8 DEF CloseWorker, AfterStop
<1>9. ASSUME NEW r \in Requests, StartWorker(r)
      PROVE  Fresh' /\ BeforeStart'
    BY <1>9 DEF StartWorker
<1>10. ASSUME NEW w \in Workers, NEW failed \in BOOLEAN, LoadSource(w, failed)
      PROVE  Fresh' /\ BeforeStart'
    BY <1>10 DEF LoadSource
<1>11. ASSUME NEW w \in Workers, EndSync(w) \/ Tick(w) \/ EndWorker(w)
      PROVE  Fresh' /\ BeforeStart'
    BY <1>11 DEF EndSync, Tick, EndWorker
<1>12. CASE UNCHANGED vars
    BY <1>12 DEF vars
<1> QED
    BY <1>1, <1>2, <1>3, <1>4, <1>5, <1>6, <1>7, <1>8, <1>9, <1>10, <1>11, <1>12, WorkersSteps

LEMMA NextHolding ==
    ASSUME WorkersInv, [Next]_vars
    PROVE  Holding'
<1> USE WorkersAssumption DEF WorkersInv, TypeOK, RequestPC, Workers, Fresh, Holding,
        BeforeStart, StopOnce, table, polling
<1>1. CASE Start
    BY <1>1 DEF Start
<1>2. CASE BeginStop \/ EndStop
    BY <1>2 DEF BeginStop, EndStop
<1>3. ASSUME NEW r \in Requests, NEW src \in Sources, NEW i \in Intervals, CreateSource(r, src, i)
      PROVE  Holding'
    BY <1>3 DEF CreateSource
<1>4. ASSUME NEW r \in Requests, NEW src \in Sources, NEW i \in Intervals \cup {None},
            UpdateSource(r, src, i)
      PROVE  Holding'
    BY <1>4 DEF UpdateSource
<1>5. ASSUME NEW r \in Requests, NEW src \in Sources, DeleteSource(r, src)
      PROVE  Holding'
    BY <1>5 DEF DeleteSource
<1>6. ASSUME NEW r \in Requests, Fail(r) \/ InsertRow(r) \/ WriteRow(r) \/ DeleteRow(r)
      PROVE  Holding'
    BY <1>6 DEF Fail, InsertRow, WriteRow, DeleteRow
<1>7. ASSUME NEW r \in Requests, TakeWorker(r)
      PROVE  Holding'
    BY <1>7 DEF TakeWorker, AfterStop, Registered
<1>8. ASSUME NEW r \in Requests, CloseWorker(r)
      PROVE  Holding'
    BY <1>8 DEF CloseWorker, AfterStop
<1>9. ASSUME NEW r \in Requests, StartWorker(r)
      PROVE  Holding'
    BY <1>9 DEF StartWorker
<1>10. ASSUME NEW w \in Workers, NEW failed \in BOOLEAN, LoadSource(w, failed)
      PROVE  Holding'
    BY <1>10 DEF LoadSource
<1>11. ASSUME NEW w \in Workers, EndSync(w) \/ Tick(w) \/ EndWorker(w)
      PROVE  Holding'
    BY <1>11 DEF EndSync, Tick, EndWorker
<1>12. CASE UNCHANGED vars
    BY <1>12 DEF vars
<1> QED
    BY <1>1, <1>2, <1>3, <1>4, <1>5, <1>6, <1>7, <1>8, <1>9, <1>10, <1>11, <1>12, WorkersSteps

LEMMA NextRegistered ==
    ASSUME WorkersInv, [Next]_vars
    PROVE  Registered' /\ StopOnce'
<1> USE WorkersAssumption DEF WorkersInv, TypeOK, Workers, SourceOf, Fresh, Registered,
        Holding, BeforeStart, StopOnce, table, polling
<1>1. CASE Start
    BY <1>1 DEF Start
<1>2. CASE BeginStop \/ EndStop
    BY <1>2 DEF BeginStop, EndStop
<1>3. ASSUME NEW r \in Requests, NEW src \in Sources, NEW i \in Intervals, CreateSource(r, src, i)
      PROVE  Registered' /\ StopOnce'
    BY <1>3 DEF CreateSource
<1>4. ASSUME NEW r \in Requests, NEW src \in Sources, NEW i \in Intervals \cup {None},
            UpdateSource(r, src, i)
      PROVE  Registered' /\ StopOnce'
    BY <1>4 DEF UpdateSource
<1>5. ASSUME NEW r \in Requests, NEW src \in Sources, DeleteSource(r, src)
      PROVE  Registered' /\ StopOnce'
    BY <1>5 DEF DeleteSource
<1>6. ASSUME NEW r \in Requests, Fail(r) \/ InsertRow(r) \/ WriteRow(r) \/ DeleteRow(r)
      PROVE  Registered' /\ StopOnce'
    BY <1>6 DEF Fail, InsertRow, WriteRow, DeleteRow
<1>7. ASSUME NEW r \in Requests, TakeWorker(r)
      PROVE  Registered' /\ StopOnce'
    BY <1>7 DEF TakeWorker, AfterStop
<1>8. ASSUME NEW r \in Requests, CloseWorker(r)
      PROVE  Registered' /\ StopOnce'
    BY <1>8 DEF CloseWorker, AfterStop
<1>9. ASSUME NEW r \in Requests, StartWorker(r)
      PROVE  Registered' /\ StopOnce'
    BY <1>9 DEF StartWorker
<1>10. ASSUME NEW w \in Workers, NEW failed \in BOOLEAN, LoadSource(w, failed)
      PROVE  Registered' /\ StopOnce'
    BY <1>10 DEF LoadSource
<1>11. ASSUME NEW w \in Workers, EndSync(w) \/ Tick(w) \/ EndWorker(w)
      PROVE  Registered' /\ StopOnce'
    BY <1>11 DEF EndSync, Tick, EndWorker
<1>12. CASE UNCHANGED vars
    BY <1>12 DEF vars
<1> QED
    BY <1>1, <1>2, <1>3, <1>4, <1>5, <1>6, <1>7, <1>8, <1>9, <1>10, <1>11, <1>12, WorkersSteps

LEMMA NextNoOrphans ==
    ASSUME WorkersInv, [Next]_vars
    PROVE  NoOrphans'
<1> USE WorkersAssumption DEF WorkersInv, TypeOK, Workers, SourceOf, Live, Fresh,
        Registered, Holding, BeforeStart, NoOrphans, table, polling
<1>1. CASE Start
    BY <1>1 DEF Start
<1>2. CASE BeginStop \/ EndStop
    BY <1>2 DEF BeginStop, EndStop
<1>3. ASSUME NEW r \in Requests, NEW src \in Sources, NEW i \in Intervals, CreateSource(r, src, i)
      PROVE  NoOrphans'
    BY <1>3 DEF CreateSource
<1>4. ASSUME NEW r \in Requests, NEW src \in Sources, NEW i \in Intervals \cup {None},
            UpdateSource(r, src, i)
      PROVE  NoOrphans'
    BY <1>4 DEF UpdateSource
<1>5. ASSUME NEW r \in Requests, NEW src \in Sources, DeleteSource(r, src)
      PROVE  NoOrphans'
    BY <1>5 DEF DeleteSource
<1>6. ASSUME NEW r \in Requests, Fail(r) \/ InsertRow(r) \/ WriteRow(r) \/ DeleteRow(r)
      PROVE  NoOrphans'
    BY <1>6 DEF Fail, InsertRow, WriteRow, DeleteRow
<1>7. ASSUME NEW r \in Requests, TakeWorker(r)
      PROVE  NoOrphans'
    BY <1>7 DEF TakeWorker, AfterStop
<1>8. ASSUME NEW r \in Requests, CloseWorker(r)
      PROVE  NoOrphans'
    BY <1>8 DEF CloseWorker, AfterStop
<1>9. ASSUME NEW r \in Requests, StartWorker(r)
      PROVE  NoOrphans'
    BY <1>9 DEF StartWorker
<1>10. ASSUME NEW w \in Workers, NEW failed \in BOOLEAN, LoadSource(w, failed)
      PROVE  NoOrphans'
    BY <1>10 DEF LoadSource
<1>11. ASSUME NEW w \in Workers, EndSync(w) \/ Tick(w) \/ EndWorker(w)
      PROVE  NoOrphans'
    BY <1>11 DEF EndSync, Tick, EndWorker
<1>12. CASE UNCHANGED vars
    BY <1>12 DEF vars
<1> QED
    BY <1>1, <1>2, <1>3, <1>4, <1>5, <1>6, <1>7, <1>8, <1>9, <1>10, <1>11, <1>12, WorkersSteps

LEMMA NextWorkersInv == WorkersInv /\ [Next]_vars => WorkersInv'
BY NextTypeOK, NextFresh, NextHolding, NextRegistered, NextNoOrphans DEF WorkersInv

\* The strengthened invariant of the pollers.
THEOREM WorkersInvariant == Spec => []WorkersInv
BY InitWorkersInv, NextWorkersInv, PTL DEF Spec

\* Every variable keeps its type: in particular the worker a request closes is one.
THEOREM WorkersTypeCorrect == Spec => []TypeOK
<1>1. WorkersInv => TypeOK
    BY DEF WorkersInv
<1> QED
    BY <1>1, WorkersInvariant, PTL

\* A poller that nobody stopped can still be stopped (service.go:331-359).
THEOREM NoWorkerLost == Spec => []NoOrphans
<1>1. WorkersInv => NoOrphans
    BY DEF WorkersInv
<1> QED
    BY <1>1, WorkersInvariant, PTL

\* No worker's channel is closed twice (service.go:348-359).
THEOREM NoDoubleClose == Spec => []StopOnce
<1>1. WorkersInv => StopOnce
    BY DEF WorkersInv
<1> QED
    BY <1>1, WorkersInvariant, PTL
------------------------------------------------------------------------------
(* If no statement fails. *)

LEMMA InitPollingInv == Init => PollingInv
BY WorkersAssumption DEF Init, PollingInv, NewIds, EndsSignalled, Restarting, Reloading,
   StoredBeforeStart, Workers

LEMMA NextNewIds ==
    ASSUME ~Failures, WorkersInv, PollingInv, [Next]_vars
    PROVE  NewIds' /\ EndsSignalled' /\ StoredBeforeStart'
<1> USE WorkersAssumption DEF WorkersInv, TypeOK, Workers, SourceOf, Fresh, Registered,
        Holding, BeforeStart, table, polling, NewIds, EndsSignalled, StoredBeforeStart,
        signalled, cancelled, PollingInv
<1>1. CASE Start
    BY <1>1 DEF Start
<1>2. CASE BeginStop \/ EndStop
    BY <1>2 DEF BeginStop, EndStop
<1>3. ASSUME NEW r \in Requests, NEW src \in Sources, NEW i \in Intervals, CreateSource(r, src, i)
      PROVE  NewIds' /\ EndsSignalled' /\ StoredBeforeStart'
    BY <1>3 DEF CreateSource
<1>4. ASSUME NEW r \in Requests, NEW src \in Sources, NEW i \in Intervals \cup {None},
            UpdateSource(r, src, i)
      PROVE  NewIds' /\ EndsSignalled' /\ StoredBeforeStart'
    BY <1>4 DEF UpdateSource
<1>5. ASSUME NEW r \in Requests, NEW src \in Sources, DeleteSource(r, src)
      PROVE  NewIds' /\ EndsSignalled' /\ StoredBeforeStart'
    BY <1>5 DEF DeleteSource
<1>6. ASSUME NEW r \in Requests, Fail(r) \/ InsertRow(r) \/ WriteRow(r) \/ DeleteRow(r)
      PROVE  NewIds' /\ EndsSignalled' /\ StoredBeforeStart'
    BY <1>6 DEF Fail, InsertRow, WriteRow, DeleteRow
<1>7. ASSUME NEW r \in Requests, TakeWorker(r)
      PROVE  NewIds' /\ EndsSignalled' /\ StoredBeforeStart'
    BY <1>7 DEF TakeWorker, AfterStop
<1>8. ASSUME NEW r \in Requests, CloseWorker(r)
      PROVE  NewIds' /\ EndsSignalled' /\ StoredBeforeStart'
    BY <1>8 DEF CloseWorker, AfterStop
<1>9. ASSUME NEW r \in Requests, StartWorker(r)
      PROVE  NewIds' /\ EndsSignalled' /\ StoredBeforeStart'
    BY <1>9 DEF StartWorker
<1>10. ASSUME NEW w \in Workers, NEW failed \in BOOLEAN, LoadSource(w, failed)
      PROVE  NewIds' /\ EndsSignalled' /\ StoredBeforeStart'
    BY <1>10 DEF LoadSource
<1>11. ASSUME NEW w \in Workers, EndSync(w) \/ Tick(w) \/ EndWorker(w)
      PROVE  NewIds' /\ EndsSignalled' /\ StoredBeforeStart'
    BY <1>11 DEF EndSync, Tick, EndWorker
<1>12. CASE UNCHANGED vars
    BY <1>12 DEF vars
<1> QED
    BY <1>1, <1>2, <1>3, <1>4, <1>5, <1>6, <1>7, <1>8, <1>9, <1>10, <1>11, <1>12, WorkersSteps

LEMMA NextRestarting ==
    ASSUME ~Failures, WorkersInv, PollingInv, [Next]_vars
    PROVE  Restarting'
<1> USE WorkersAssumption DEF WorkersInv, TypeOK, Workers, SourceOf, Fresh, Registered,
        Holding, BeforeStart, table, polling, NewIds, Restarting, StoredBeforeStart,
        PollingInv
<1>1. CASE Start
    BY <1>1 DEF Start
<1>2. CASE BeginStop \/ EndStop
    BY <1>2 DEF BeginStop, EndStop
<1>3. ASSUME NEW r \in Requests, NEW src \in Sources, NEW i \in Intervals, CreateSource(r, src, i)
      PROVE  Restarting'
    BY <1>3 DEF CreateSource
<1>4. ASSUME NEW r \in Requests, NEW src \in Sources, NEW i \in Intervals \cup {None},
            UpdateSource(r, src, i)
      PROVE  Restarting'
    BY <1>4 DEF UpdateSource
<1>5. ASSUME NEW r \in Requests, NEW src \in Sources, DeleteSource(r, src)
      PROVE  Restarting'
    BY <1>5 DEF DeleteSource
<1>6. ASSUME NEW r \in Requests, Fail(r) \/ InsertRow(r) \/ WriteRow(r) \/ DeleteRow(r)
      PROVE  Restarting'
    BY <1>6 DEF Fail, InsertRow, WriteRow, DeleteRow
<1>7. ASSUME NEW r \in Requests, TakeWorker(r)
      PROVE  Restarting'
    BY <1>7 DEF TakeWorker, AfterStop
<1>8. ASSUME NEW r \in Requests, CloseWorker(r)
      PROVE  Restarting'
    BY <1>8 DEF CloseWorker, AfterStop
<1>9. ASSUME NEW r \in Requests, StartWorker(r)
      PROVE  Restarting'
    BY <1>9 DEF StartWorker
<1>10. ASSUME NEW w \in Workers, NEW failed \in BOOLEAN, LoadSource(w, failed)
      PROVE  Restarting'
    BY <1>10 DEF LoadSource
<1>11. ASSUME NEW w \in Workers, EndSync(w) \/ Tick(w) \/ EndWorker(w)
      PROVE  Restarting'
    BY <1>11 DEF EndSync, Tick, EndWorker
<1>12. CASE UNCHANGED vars
    BY <1>12 DEF vars
<1> QED
    BY <1>1, <1>2, <1>3, <1>4, <1>5, <1>6, <1>7, <1>8, <1>9, <1>10, <1>11, <1>12, WorkersSteps

LEMMA NextReloading ==
    ASSUME ~Failures, WorkersInv, PollingInv, [Next]_vars
    PROVE  Reloading'
<1> USE WorkersAssumption DEF WorkersInv, TypeOK, Workers, SourceOf, Fresh, Registered,
        Holding, BeforeStart, table, polling, NewIds, Reloading, cancelled, PollingInv
<1>1. CASE Start
    BY <1>1 DEF Start
<1>2. CASE BeginStop \/ EndStop
    BY <1>2 DEF BeginStop, EndStop
<1>3. ASSUME NEW r \in Requests, NEW src \in Sources, NEW i \in Intervals, CreateSource(r, src, i)
      PROVE  Reloading'
    BY <1>3 DEF CreateSource
<1>4. ASSUME NEW r \in Requests, NEW src \in Sources, NEW i \in Intervals \cup {None},
            UpdateSource(r, src, i)
      PROVE  Reloading'
    BY <1>4 DEF UpdateSource
<1>5. ASSUME NEW r \in Requests, NEW src \in Sources, DeleteSource(r, src)
      PROVE  Reloading'
    BY <1>5 DEF DeleteSource
<1>6. ASSUME NEW r \in Requests, Fail(r) \/ InsertRow(r) \/ WriteRow(r) \/ DeleteRow(r)
      PROVE  Reloading'
    BY <1>6 DEF Fail, InsertRow, WriteRow, DeleteRow
<1>7. ASSUME NEW r \in Requests, TakeWorker(r)
      PROVE  Reloading'
    BY <1>7 DEF TakeWorker, AfterStop
<1>8. ASSUME NEW r \in Requests, CloseWorker(r)
      PROVE  Reloading'
    BY <1>8 DEF CloseWorker, AfterStop
<1>9. ASSUME NEW r \in Requests, StartWorker(r)
      PROVE  Reloading'
    BY <1>9 DEF StartWorker
<1>10. ASSUME NEW w \in Workers, NEW failed \in BOOLEAN, LoadSource(w, failed)
      PROVE  Reloading'
    BY <1>10 DEF LoadSource
<1>11. ASSUME NEW w \in Workers, EndSync(w) \/ Tick(w) \/ EndWorker(w)
      PROVE  Reloading'
    BY <1>11 DEF EndSync, Tick, EndWorker
<1>12. CASE UNCHANGED vars
    BY <1>12 DEF vars
<1> QED
    BY <1>1, <1>2, <1>3, <1>4, <1>5, <1>6, <1>7, <1>8, <1>9, <1>10, <1>11, <1>12, WorkersSteps

\* The strengthened invariant for statements that do not fail.
THEOREM PollingInvariant == ASSUME ~Failures PROVE Spec => []PollingInv
<1>1. WorkersInv /\ PollingInv /\ [Next]_vars => PollingInv'
    BY NextNewIds, NextRestarting, NextReloading DEF PollingInv
<1> QED
    BY InitPollingInv, WorkersInvariant, <1>1, PTL DEF Spec

\* If no statement fails, then whatever requests interleave, once they have settled every
\* stored source has a running worker (service.go:121-139).
THEOREM SourcesPolled == ASSUME ~Failures PROVE Spec => []EverySourcePolled
<1>1. WorkersInv /\ PollingInv => EverySourcePolled
    <2> SUFFICES ASSUME WorkersInv, PollingInv, Settled,
                        NEW src \in Sources, row[src] # None
                 PROVE  workers[src] # None /\ Live(workers[src]) /\ workers[src] \notin stopped
        BY DEF EverySourcePolled
    <2>1. workers[src] # None
        BY DEF PollingInv, Restarting, Settled
    <2>2. workers[src] \in Workers /\ workers[src] \notin stopped
        BY <2>1 DEF WorkersInv, TypeOK, Registered
    <2>3. wpc[workers[src]] \notin {"none", "done"}
        BY <2>1, <2>2 DEF WorkersInv, Fresh, PollingInv, EndsSignalled, signalled, cancelled, Settled
    <2> QED
        BY <2>1, <2>2, <2>3 DEF WorkersInv, TypeOK, WorkerPC, Live
<1> QED
    BY WorkersInvariant, PollingInvariant, <1>1, PTL

\* If no statement fails, a worker polls at the interval that was stored last, whichever
\* of several updates started it (service.go:120, worker.go:59-70).
THEOREM StoredIntervalUsed == ASSUME ~Failures PROVE Spec => []PollsAsStored
<1>1. PollingInv => PollsAsStored
    BY DEF PollingInv, Reloading, PollsAsStored, Settled
<1> QED
    BY PollingInvariant, <1>1, PTL
===============================================================================
