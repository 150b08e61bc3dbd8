---------------------------- MODULE GitSyncProofs ----------------------------
(***************************************************************************)
(* Proofs about the syncs of a git source, for any files, agents and       *)
(* commits.  If its syncs do not overlap and nothing fails, the commit of  *)
(* the last sync is recorded only once every agent has its files; if they  *)
(* do not overlap, a Sync Now that ends without an error has sent all it   *)
(* has listed.                                                             *)
(***************************************************************************)
EXTENDS GitSync, TLAPS

\* Syncs of the source do not overlap.
Alone ==
    \A s, q \in Syncs : sync[s].pc # "idle" /\ sync[q].pc # "idle" => s = q

\* Nothing has failed, and files are fetched by their hashes.
Healthy == provider = "github" /\ faults = 0

NoErrors == \A s \in Syncs : ~sync[s].expired /\ ~sync[s].errors

\* The commit a sync has seen lies between the one of the last sync and the latest...
SeenInOrder ==
    /\ lastSHA # None => lastSHA <= head
    /\ \A s \in Syncs : sync[s].pc \in {"list", "agents", "rules", "push"} =>
          /\ sync[s].seen \in Commits
          /\ sync[s].seen <= head
          /\ lastSHA # None => lastSHA <= sync[s].seen

\* ... and if it still is the latest, then the files are those that were listed.
ListedFiles ==
    \A s \in Syncs : sync[s].pc \in {"agents", "rules", "push"} =>
        /\ sync[s].seen = head => sync[s].entries = repo
        /\ sync[s].todo \subseteq {f \in Files : sync[s].entries[f] # None}

ListedAgents ==
    /\ Initial \subseteq known
    /\ \A s \in Syncs : sync[s].pc \in {"rules", "push"} => Initial \subseteq sync[s].agents

\* What is sent is the listed version of the file at hand, and whoever it has to be sent to
\* is in the queue or has it.
Pushing ==
    \A s \in Syncs : sync[s].pc = "push" =>
        /\ sync[s].file \in Files
        /\ sync[s].content = sync[s].entries[sync[s].file]
        /\ \A a \in Initial : Selects(sync[s].file, Labels[a]) /\ a \notin sync[s].queue =>
              got[a][sync[s].file] = sync[s].content

AtHand(f) == \E s \in Syncs : sync[s].pc = "push" /\ sync[s].file = f

\* The agents of a file have the version that is cached for it...
CachedIsGot ==
    \A f \in Files, a \in Initial :
        cache[f] # None /\ Selects(f, Labels[a]) /\ ~AtHand(f) => got[a][f] = cache[f]

\* ... which is the listed one for the files that a sync is done with.
DoneIsCached ==
    \A s \in Syncs : sync[s].pc \in {"agents", "rules", "push"} =>
        \A f \in Files \ sync[s].todo :
            IsRule(f) /\ sync[s].entries[f] # None /\ ~AtHand(f) =>
                cache[f] = sync[s].entries[f]

LastIsDelivered == lastSHA = head => Delivered(Initial)

HealthyInv ==
    /\ NoErrors
    /\ SeenInOrder
    /\ ListedFiles
    /\ ListedAgents
    /\ Pushing
    /\ CachedIsGot
    /\ DoneIsCached
    /\ LastIsDelivered

SyncInv == TypeOK /\ (Healthy => HealthyInv)

------------------------------------------------------------------------------
LEMMA InitSyncInv == Init => SyncInv /\ Alone
BY SyncAssumption DEF Init, Idle, SyncInv, TypeOK, Tree, Contents, Commits, SyncState, Alone,
   HealthyInv, NoErrors, SeenInOrder, ListedFiles, ListedAgents, Pushing, CachedIsGot,
   DoneIsCached, LastIsDelivered

\* What a step of a sync starts from.
LEMMA SyncTypes ==
    ASSUME TypeOK, NEW s \in Syncs
    PROVE  /\ sync[s] \in SyncState
           /\ sync[s].pc = "push" <=> sync[s].content # None
           /\ lastSHA \in Commits \cup {None} /\ repo \in Tree /\ known \in SUBSET Agents
           /\ None \in Contents
BY DEF TypeOK, Contents

\* One sync takes a step that makes its local variables r.
LEMMA SetSync ==
    ASSUME TypeOK, NEW s \in Syncs, NEW r \in SyncState,
           r.pc = "push" <=> r.content # None,
           sync' = [sync EXCEPT ![s] = r]
    PROVE  /\ sync' \in [Syncs -> SyncState]
           /\ \A q \in Syncs : sync'[q].pc = "push" <=> sync'[q].content # None
BY DEF TypeOK

LEMMA IdleType == Idle \in SyncState /\ Idle.pc = "idle" /\ Idle.content = None
BY DEF Idle, SyncState, Tree, Contents

LEMMA NextTypeOK ==
    ASSUME TypeOK, [Next]_vars
    PROVE  TypeOK'
<1>1. ASSUME NEW f \in Files, NEW b \in Contents, Commit(f, b)
      PROVE  TypeOK'
    BY <1>1, SyncAssumption DEF Commit, TypeOK, Tree, Commits
<1>2. ASSUME NEW a \in Agents, Join(a)
      PROVE  TypeOK'
    BY <1>2 DEF Join, TypeOK
<1>3. ASSUME NEW s \in Syncs, Expire(s)
      PROVE  TypeOK'
    <2> DEFINE r == [sync[s] EXCEPT !.expired = TRUE]
    <2>1. sync' = [sync EXCEPT ![s] = r]
        BY <1>3 DEF Expire
    <2>2. r \in SyncState /\ (r.pc = "push" <=> r.content # None)
        BY <1>3, SyncTypes DEF Expire, SyncState
    <2> HIDE DEF r
    <2>3. /\ sync' \in [Syncs -> SyncState]
          /\ \A q \in Syncs : sync'[q].pc = "push" <=> sync'[q].content # None
        BY <2>1, <2>2, SetSync
    <2> QED
        BY <1>3, <2>1, <2>2, <2>3, SyncAssumption
        DEF TypeOK, Expire, Fault
<1>4. ASSUME NEW s \in Syncs, Begin(s)
      PROVE  TypeOK'
    <2> DEFINE r == [sync[s] EXCEPT !.pc = "head", !.since = lastSHA]
    <2>1. sync' = [sync EXCEPT ![s] = r]
        BY <1>4 DEF Begin
    <2>2. r \in SyncState /\ (r.pc = "push" <=> r.content # None)
        BY <1>4, SyncTypes DEF Begin, SyncState
    <2> HIDE DEF r
    <2>3. /\ sync' \in [Syncs -> SyncState]
          /\ \A q \in Syncs : sync'[q].pc = "push" <=> sync'[q].content # None
        BY <2>1, <2>2, SetSync
    <2> QED
        BY <1>4, <2>1, <2>2, <2>3, SyncAssumption
        DEF TypeOK, Begin, CallSucceeds
<1>5. ASSUME NEW s \in Syncs, GiveUp(s)
      PROVE  TypeOK'
    <2> DEFINE r == Idle
    <2>1. sync' = [sync EXCEPT ![s] = r]
        BY <1>5 DEF GiveUp, end
    <2>2. r \in SyncState /\ (r.pc = "push" <=> r.content # None)
        BY IdleType
    <2> HIDE DEF r
    <2>3. /\ sync' \in [Syncs -> SyncState]
          /\ \A q \in Syncs : sync'[q].pc = "push" <=> sync'[q].content # None
        BY <2>1, <2>2, SetSync
    <2> QED
        BY <1>5, <2>1, <2>2, <2>3, SyncAssumption
        DEF TypeOK, GiveUp, CallFails, Fault, SyncState
<1>6. ASSUME NEW s \in Syncs, ReadHead(s)
      PROVE  TypeOK'
    <2> DEFINE r == IF shortCircuit(s) THEN Idle
                     ELSE [sync[s] EXCEPT !.pc = "list", !.seen = head]
    <2>1. sync' = [sync EXCEPT ![s] = r]
        BY <1>6 DEF ReadHead, end
    <2>2. r \in SyncState /\ (r.pc = "push" <=> r.content # None)
        BY <1>6, IdleType DEF TypeOK, ReadHead, SyncState
    <2> HIDE DEF r
    <2>3. /\ sync' \in [Syncs -> SyncState]
          /\ \A q \in Syncs : sync'[q].pc = "push" <=> sync'[q].content # None
        BY <2>1, <2>2, SetSync
    <2> QED
        BY <1>6, <2>1, <2>2, <2>3, SyncAssumption
        DEF TypeOK, ReadHead, CallSucceeds
<1>7. ASSUME NEW s \in Syncs, List(s)
      PROVE  TypeOK'
    <2> DEFINE r == [sync[s] EXCEPT !.pc = "agents", !.entries = repo,
                         !.todo = {f \in Files : repo[f] # None /\ IsRule(f)}]
    <2>1. sync' = [sync EXCEPT ![s] = r]
        BY <1>7 DEF List
    <2>2. r \in SyncState /\ (r.pc = "push" <=> r.content # None)
        BY <1>7, SyncTypes DEF List, SyncState
    <2> HIDE DEF r
    <2>3. /\ sync' \in [Syncs -> SyncState]
          /\ \A q \in Syncs : sync'[q].pc = "push" <=> sync'[q].content # None
        BY <2>1, <2>2, SetSync
    <2> QED
        BY <1>7, <2>1, <2>2, <2>3, SyncAssumption
        DEF TypeOK, List, CallSucceeds
<1>8. ASSUME NEW s \in Syncs, ListAgents(s)
      PROVE  TypeOK'
    <2> DEFINE r == [sync[s] EXCEPT !.pc = "rules", !.agents = known]
    <2>1. sync' = [sync EXCEPT ![s] = r]
        BY <1>8 DEF ListAgents
    <2>2. r \in SyncState /\ (r.pc = "push" <=> r.content # None)
        BY <1>8, SyncTypes DEF ListAgents, SyncState
    <2> HIDE DEF r
    <2>3. /\ sync' \in [Syncs -> SyncState]
          /\ \A q \in Syncs : sync'[q].pc = "push" <=> sync'[q].content # None
        BY <2>1, <2>2, SetSync
    <2> QED
        BY <1>8, <2>1, <2>2, <2>3, SyncAssumption
        DEF TypeOK, ListAgents, CallSucceeds
<1>9. ASSUME NEW s \in Syncs, NEW f \in Files, SkipFile(s, f)
      PROVE  TypeOK'
    <2> DEFINE r == [sync[s] EXCEPT !.todo = @ \ {f}]
    <2>1. sync' = [sync EXCEPT ![s] = r]
        BY <1>9 DEF SkipFile
    <2>2. r \in SyncState /\ (r.pc = "push" <=> r.content # None)
        BY <1>9, SyncTypes DEF SkipFile, SyncState
    <2> HIDE DEF r
    <2>3. /\ sync' \in [Syncs -> SyncState]
          /\ \A q \in Syncs : sync'[q].pc = "push" <=> sync'[q].content # None
        BY <2>1, <2>2, SetSync
    <2> QED
        BY <1>9, <2>1, <2>2, <2>3, SyncAssumption
        DEF TypeOK, SkipFile, CallSucceeds
<1>10. ASSUME NEW s \in Syncs, NEW f \in Files, FetchFile(s, f)
      PROVE  TypeOK'
    <2> DEFINE r == [sync[s] EXCEPT !.pc = "push", !.file = f, !.content = fetched(s, f),
                         !.todo = @ \ {f}, !.queue = MatchAgents(f, sync[s].agents)]
    <2>1. sync' = [sync EXCEPT ![s] = r]
        BY <1>10 DEF FetchFile
    <2>2. r \in SyncState /\ (r.pc = "push" <=> r.content # None)
        <3>1. fetched(s, f) \in Contents /\ fetched(s, f) # None
            BY <1>10 DEF TypeOK, FetchFile, fetched, SyncState, Tree
        <3>2. MatchAgents(f, sync[s].agents) \in SUBSET Agents
            BY DEF TypeOK, MatchAgents, SyncState
        <3> QED
            BY <3>1, <3>2 DEF TypeOK, SyncState
    <2> HIDE DEF r
    <2>3. /\ sync' \in [Syncs -> SyncState]
          /\ \A q \in Syncs : sync'[q].pc = "push" <=> sync'[q].content # None
        BY <2>1, <2>2, SetSync
    <2> QED
        BY <1>10, <2>1, <2>2, <2>3, SyncAssumption
        DEF TypeOK, FetchFile, CallSucceeds
<1>11. ASSUME NEW s \in Syncs, NEW f \in Files, FetchError(s, f)
      PROVE  TypeOK'
    <2> DEFINE r == [sync[s] EXCEPT !.todo = @ \ {f}, !.errors = TRUE]
    <2>1. sync' = [sync EXCEPT ![s] = r]
        BY <1>11 DEF FetchError
    <2>2. r \in SyncState /\ (r.pc = "push" <=> r.content # None)
        BY <1>11, SyncTypes DEF FetchError, SyncState
    <2> HIDE DEF r
    <2>3. /\ sync' \in [Syncs -> SyncState]
          /\ \A q \in Syncs : sync'[q].pc = "push" <=> sync'[q].content # None
        BY <2>1, <2>2, SetSync
    <2> QED
        BY <1>11, <2>1, <2>2, <2>3, SyncAssumption
        DEF TypeOK, FetchError, CallFails, CallSucceeds, Fault
<1>12. ASSUME NEW s \in Syncs, NEW a \in Agents, Push(s, a)
      PROVE  TypeOK'
    <2> DEFINE r == [sync[s] EXCEPT !.queue = @ \ {a}]
    <2>1. sync' = [sync EXCEPT ![s] = r]
        BY <1>12 DEF Push
    <2>2. r \in SyncState /\ (r.pc = "push" <=> r.content # None)
        BY <1>12, SyncTypes DEF Push, SyncState
    <2> HIDE DEF r
    <2>3. /\ sync' \in [Syncs -> SyncState]
          /\ \A q \in Syncs : sync'[q].pc = "push" <=> sync'[q].content # None
        BY <2>1, <2>2, SetSync
    <2> QED
        BY <1>12, <2>1, <2>2, <2>3, SyncAssumption
        DEF TypeOK, Push, Tree, SyncState
<1>13. ASSUME NEW s \in Syncs, NEW a \in Agents, PushError(s, a)
      PROVE  TypeOK'
    <2> DEFINE r == [sync[s] EXCEPT !.queue = @ \ {a}, !.errors = TRUE]
    <2>1. sync' = [sync EXCEPT ![s] = r]
        BY <1>13 DEF PushError
    <2>2. r \in SyncState /\ (r.pc = "push" <=> r.content # None)
        BY DEF TypeOK, SyncState
    <2> HIDE DEF r
    <2>3. /\ sync' \in [Syncs -> SyncState]
          /\ \A q \in Syncs : sync'[q].pc = "push" <=> sync'[q].content # None
        BY <2>1, <2>2, SetSync
    <2>4. got' \in [Agents -> Tree]
        <3>1. sync[s].content \in Contents
            BY DEF TypeOK, SyncState
        <3>2. [got EXCEPT ![a][sync[s].file] = sync[s].content] \in [Agents -> Tree]
            BY <3>1 DEF TypeOK, Tree
        <3> QED
            BY <1>13, <3>2 DEF TypeOK, PushError
    <2> QED
        BY <1>13, <2>1, <2>2, <2>3, <2>4, SyncAssumption DEF TypeOK, PushError, Fault
<1>14. ASSUME NEW s \in Syncs, CacheFile(s)
      PROVE  TypeOK'
    <2> DEFINE r == [sync[s] EXCEPT !.pc = "rules", !.file = None, !.content = None]
    <2>1. sync' = [sync EXCEPT ![s] = r]
        BY <1>14 DEF CacheFile
    <2>2. r \in SyncState /\ (r.pc = "push" <=> r.content # None)
        BY <1>14, SyncTypes DEF CacheFile, SyncState
    <2> HIDE DEF r
    <2>3. /\ sync' \in [Syncs -> SyncState]
          /\ \A q \in Syncs : sync'[q].pc = "push" <=> sync'[q].content # None
        BY <2>1, <2>2, SetSync
    <2> QED
        BY <1>14, <2>1, <2>2, <2>3, SyncAssumption
        DEF TypeOK, CacheFile, CallSucceeds, CallFails, Fault, Tree, SyncState
<1>15. ASSUME NEW s \in Syncs, Record(s)
      PROVE  TypeOK'
    <2> DEFINE r == Idle
    <2>1. sync' = [sync EXCEPT ![s] = r]
        BY <1>15 DEF Record, end
    <2>2. r \in SyncState /\ (r.pc = "push" <=> r.content # None)
        BY IdleType
    <2> HIDE DEF r
    <2>3. /\ sync' \in [Syncs -> SyncState]
          /\ \A q \in Syncs : sync'[q].pc = "push" <=> sync'[q].content # None
        BY <2>1, <2>2, SetSync
    <2> QED
        BY <1>15, <2>1, <2>2, <2>3, SyncAssumption
        DEF TypeOK, Record, CallFails, Fault, SyncState
<1>16. CASE UNCHANGED vars
    BY <1>16 DEF vars, TypeOK
<1> QED
    BY <1>1, <1>2, <1>3, <1>4, <1>5, <1>6, <1>7, <1>8, <1>9, <1>10, <1>11, <1>12, <1>13, <1>14, <1>15, <1>16 DEF Next, runSync

------------------------------------------------------------------------------
\* While one sync runs, the others are idle.
LEMMA OthersIdle ==
    ASSUME TypeOK, Alone, NEW s \in Syncs, sync[s].pc # "idle", NEW r,
           sync' = [sync EXCEPT ![s] = r]
    PROVE  /\ sync'[s] = r
           /\ \A q \in Syncs \ {s} : sync'[q] = sync[q] /\ sync[q].pc = "idle"
BY DEF TypeOK, Alone

LEMMA NextAlone ==
    ASSUME TypeOK, Alone, ~Overlap, [Next]_vars
    PROVE  Alone'
<1>1. ASSUME NEW s \in Syncs, Begin(s)
      PROVE  Alone'
    BY <1>1 DEF Begin, Alone, TypeOK
<1>2. ASSUME NEW s \in Syncs, sync[s].pc # "idle",
             \A q \in Syncs \ {s} : sync'[q] = sync[q]
      PROVE  Alone'
    BY <1>2 DEF Alone
<1>3. ASSUME NEW s \in Syncs, Expire(s)
      PROVE  Alone'
    BY <1>3, <1>2 DEF Expire, TypeOK
<1>4. ASSUME NEW s \in Syncs, runSync(s)
      PROVE  Alone'
    <2>1. sync[s].pc # "idle"
        BY <1>4 DEF runSync, GiveUp, ReadHead, List, ListAgents, SkipFile, FetchFile,
           FetchError, Push, PushError, CacheFile, Record
    <2>2. CASE GiveUp(s) \/ Record(s) \/ ReadHead(s)
        BY <1>2, <2>1, <2>2 DEF GiveUp, Record, ReadHead, end, TypeOK
    <2>3. CASE List(s) \/ ListAgents(s) \/ CacheFile(s)
        BY <1>2, <2>1, <2>3 DEF List, ListAgents, CacheFile, TypeOK
    <2>4. ASSUME NEW f \in Files, SkipFile(s, f) \/ FetchFile(s, f) \/ FetchError(s, f)
          PROVE  Alone'
        BY <1>2, <2>1, <2>4 DEF SkipFile, FetchFile, FetchError, TypeOK
    <2>5. ASSUME NEW a \in Agents, Push(s, a) \/ PushError(s, a)
          PROVE  Alone'
        BY <1>2, <2>1, <2>5 DEF Push, PushError, TypeOK
    <2> QED
        BY <1>4, <2>2, <2>3, <2>4, <2>5 DEF runSync
<1>5. CASE UNCHANGED sync
    BY <1>5 DEF Alone
<1> QED
    BY <1>1, <1>3, <1>4, <1>5 DEF Next, vars, Commit, Join

\* What has failed once stays so.
LEMMA StaysHealthy ==
    ASSUME TypeOK, [Next]_vars, Healthy'
    PROVE  Healthy
<1>1. CASE UNCHANGED vars
    BY <1>1 DEF vars, Healthy
<1>2. ASSUME NEW f \in Files, NEW b \in Contents, Commit(f, b)
      PROVE  Healthy
    BY <1>2 DEF Commit, Healthy
<1>3. ASSUME NEW a \in Agents, Join(a)
      PROVE  Healthy
    BY <1>3 DEF Join, Healthy
<1>4. ASSUME NEW s \in Syncs, Expire(s) \/ Begin(s) \/ runSync(s)
      PROVE  Healthy
    <2>1. UNCHANGED faults \/ Fault
        BY <1>4 DEF Expire, Begin, runSync, GiveUp, ReadHead, List, ListAgents, SkipFile,
           FetchFile, FetchError, Push, PushError, CacheFile, Record, CallFails, CallSucceeds
    <2>2. UNCHANGED provider
        BY <1>4 DEF Expire, Begin, runSync, GiveUp, ReadHead, List, ListAgents, SkipFile,
           FetchFile, FetchError, Push, PushError, CacheFile, Record
    <2> QED
        BY <2>1, <2>2, SyncAssumption DEF Fault, Healthy, TypeOK
<1> QED
    BY <1>1, <1>2, <1>3, <1>4 DEF Next

------------------------------------------------------------------------------
\* The steps of a healthy sync, one after the other.
LEMMA CommitHealthy ==
    ASSUME TypeOK, HealthyInv, NEW f \in Files, NEW b \in Contents, Commit(f, b)
    PROVE  HealthyInv'
BY SyncAssumption
DEF TypeOK, Commits, SyncState, Commit, HealthyInv, NoErrors, SeenInOrder, ListedFiles,
    ListedAgents, Pushing, CachedIsGot, AtHand, DoneIsCached, LastIsDelivered

LEMMA JoinHealthy ==
    ASSUME HealthyInv, NEW a \in Agents, Join(a)
    PROVE  HealthyInv'
BY DEF Join, HealthyInv, NoErrors, SeenInOrder, ListedFiles, ListedAgents, Pushing,
   CachedIsGot, AtHand, DoneIsCached, LastIsDelivered, Delivered

LEMMA BeginHealthy ==
    ASSUME TypeOK, Alone, HealthyInv, ~Overlap, NEW s \in Syncs, Begin(s)
    PROVE  HealthyInv'
<1>1. /\ sync'[s].pc = "head" /\ sync'[s].expired = sync[s].expired
      /\ sync'[s].errors = sync[s].errors
      /\ \A q \in Syncs \ {s} : sync'[q] = sync[q]
      /\ \A q \in Syncs : sync[q].pc = "idle"
    <2>1. sync' = [sync EXCEPT ![s] = [sync[s] EXCEPT !.pc = "head", !.since = lastSHA]]
        BY DEF Begin
    <2>2. \A q \in Syncs : sync[q].pc = "idle"
        BY DEF Begin
    <2> QED
        BY <2>1, <2>2 DEF TypeOK, SyncState
<1>2. NoErrors' /\ SeenInOrder'
    BY <1>1, SyncAssumption DEF Begin, HealthyInv, NoErrors, SeenInOrder, TypeOK, Commits
<1>3. ListedFiles' /\ ListedAgents'
    BY <1>1 DEF Begin, HealthyInv, ListedFiles, ListedAgents
<1>4. Pushing'
    BY <1>1 DEF Begin, HealthyInv, ListedAgents, Pushing
<1>5. CachedIsGot'
    BY <1>1 DEF Begin, HealthyInv, CachedIsGot, AtHand
<1>6. DoneIsCached'
    BY <1>1 DEF Begin, HealthyInv, DoneIsCached, AtHand
<1>7. LastIsDelivered'
    BY DEF Begin, HealthyInv, LastIsDelivered, Delivered
<1> QED
    BY <1>2, <1>3, <1>4, <1>5, <1>6, <1>7 DEF HealthyInv

LEMMA ReadHeadHealthy ==
    ASSUME TypeOK, Alone, HealthyInv, NEW s \in Syncs, ReadHead(s)
    PROVE  HealthyInv'
<1>1. /\ \/ sync'[s] = Idle
         \/ /\ sync'[s].pc = "list" /\ sync'[s].seen = head
            /\ sync'[s].expired = sync[s].expired /\ sync'[s].errors = sync[s].errors
      /\ \A q \in Syncs \ {s} : sync'[q] = sync[q] /\ sync[q].pc = "idle"
      /\ sync[s].pc = "head"
    <2>1. CASE shortCircuit(s)
        BY <2>1, OthersIdle DEF ReadHead, end
    <2>2. CASE ~shortCircuit(s)
        <3>1. sync' = [sync EXCEPT ![s] = [sync[s] EXCEPT !.pc = "list", !.seen = head]]
            BY <2>2 DEF ReadHead
        <3> QED
            BY <3>1 DEF ReadHead, TypeOK, SyncState, Alone
    <2> QED
        BY <2>1, <2>2
<1>2. NoErrors' /\ SeenInOrder'
    BY <1>1, SyncAssumption DEF ReadHead, Idle, HealthyInv, NoErrors, SeenInOrder, TypeOK, Commits
<1>3. ListedFiles' /\ ListedAgents'
    BY <1>1 DEF ReadHead, Idle, HealthyInv, ListedFiles, ListedAgents
<1>4. Pushing'
    BY <1>1 DEF ReadHead, Idle, HealthyInv, ListedAgents, Pushing
<1>5. CachedIsGot'
    BY <1>1 DEF ReadHead, Idle, HealthyInv, CachedIsGot, AtHand
<1>6. DoneIsCached'
    BY <1>1 DEF ReadHead, Idle, HealthyInv, DoneIsCached, AtHand
<1>7. LastIsDelivered'
    BY DEF ReadHead, HealthyInv, LastIsDelivered, Delivered
<1> QED
    BY <1>2, <1>3, <1>4, <1>5, <1>6, <1>7 DEF HealthyInv

LEMMA ListHealthy ==
    ASSUME TypeOK, Alone, HealthyInv, NEW s \in Syncs, List(s)
    PROVE  HealthyInv'
<1>1. /\ sync'[s].pc = "agents" /\ sync'[s].entries = repo
      /\ sync'[s].todo = {f \in Files : repo[f] # None /\ IsRule(f)}
      /\ sync'[s].seen = sync[s].seen
      /\ sync'[s].expired = sync[s].expired /\ sync'[s].errors = sync[s].errors
      /\ \A q \in Syncs \ {s} : sync'[q] = sync[q] /\ sync[q].pc = "idle"
      /\ sync[s].pc = "list"
    BY DEF List, TypeOK, SyncState, Alone
<1> QED
    BY <1>1
    DEF TypeOK, List, HealthyInv, NoErrors, SeenInOrder, ListedFiles, ListedAgents,
        Pushing, CachedIsGot, AtHand, DoneIsCached, LastIsDelivered, Delivered

LEMMA ListAgentsHealthy ==
    ASSUME TypeOK, Alone, HealthyInv, NEW s \in Syncs, ListAgents(s)
    PROVE  HealthyInv'
<1>1. /\ sync'[s].pc = "rules" /\ sync'[s].agents = known
      /\ sync'[s].entries = sync[s].entries /\ sync'[s].todo = sync[s].todo
      /\ sync'[s].seen = sync[s].seen
      /\ sync'[s].expired = sync[s].expired /\ sync'[s].errors = sync[s].errors
      /\ \A q \in Syncs \ {s} : sync'[q] = sync[q] /\ sync[q].pc = "idle"
      /\ sync[s].pc = "agents"
    BY DEF ListAgents, TypeOK, SyncState, Alone
<1> QED
    BY <1>1
    DEF TypeOK, ListAgents, HealthyInv, NoErrors, SeenInOrder, ListedFiles, ListedAgents,
        Pushing, CachedIsGot, AtHand, DoneIsCached, LastIsDelivered, Delivered

LEMMA SkipFileHealthy ==
    ASSUME TypeOK, Alone, HealthyInv, NEW s \in Syncs, NEW f \in Files, SkipFile(s, f)
    PROVE  HealthyInv'
<1>1. /\ sync'[s].pc = "rules" /\ sync'[s].agents = sync[s].agents
      /\ sync'[s].entries = sync[s].entries /\ sync'[s].todo = sync[s].todo \ {f}
      /\ sync'[s].seen = sync[s].seen
      /\ sync'[s].expired = sync[s].expired /\ sync'[s].errors = sync[s].errors
      /\ \A q \in Syncs \ {s} : sync'[q] = sync[q] /\ sync[q].pc = "idle"
      /\ sync[s].pc = "rules"
    BY DEF SkipFile, TypeOK, SyncState, Alone
<1> QED
    BY <1>1
    DEF TypeOK, SkipFile, unchanged, HealthyInv, NoErrors, SeenInOrder, ListedFiles,
        ListedAgents, Pushing, CachedIsGot, AtHand, DoneIsCached, LastIsDelivered, Delivered

LEMMA FetchFileHealthy ==
    ASSUME TypeOK, Alone, Healthy, HealthyInv, NEW s \in Syncs, NEW f \in Files, FetchFile(s, f)
    PROVE  HealthyInv'
<1>1. /\ sync'[s].pc = "push" /\ sync'[s].agents = sync[s].agents
      /\ sync'[s].entries = sync[s].entries /\ sync'[s].todo = sync[s].todo \ {f}
      /\ sync'[s].seen = sync[s].seen /\ sync'[s].file = f
      /\ sync'[s].content = sync[s].entries[f]
      /\ sync'[s].queue = MatchAgents(f, sync[s].agents)
      /\ sync'[s].expired = sync[s].expired /\ sync'[s].errors = sync[s].errors
      /\ \A q \in Syncs \ {s} : sync'[q] = sync[q] /\ sync[q].pc = "idle"
      /\ sync[s].pc = "rules"
      /\ UNCHANGED <<provider, repo, head, cache, lastSHA, known, got>>
    <2>1. fetched(s, f) = sync[s].entries[f]
        BY DEF Healthy, fetched
    <2>2. sync' = [sync EXCEPT ![s] =
                     [sync[s] EXCEPT !.pc = "push", !.file = f, !.content = sync[s].entries[f],
                                     !.todo = @ \ {f},
                                     !.queue = MatchAgents(f, sync[s].agents)]]
        BY <2>1 DEF FetchFile
    <2> QED
        BY <2>2 DEF FetchFile, TypeOK, SyncState, Alone
<1>2. NoErrors' /\ SeenInOrder'
    BY <1>1, SyncAssumption DEF HealthyInv, NoErrors, SeenInOrder, TypeOK, Commits
<1>3. ListedFiles' /\ ListedAgents'
    BY <1>1 DEF HealthyInv, ListedFiles, ListedAgents
<1>4. Pushing'
    BY <1>1 DEF MatchAgents, TypeOK, HealthyInv, ListedAgents, Pushing
<1>5. CachedIsGot'
    BY <1>1 DEF HealthyInv, CachedIsGot, AtHand
<1>6. DoneIsCached'
    BY <1>1 DEF HealthyInv, DoneIsCached, AtHand
<1>7. LastIsDelivered'
    BY <1>1 DEF HealthyInv, LastIsDelivered, Delivered
<1> QED
    BY <1>2, <1>3, <1>4, <1>5, <1>6, <1>7 DEF HealthyInv

LEMMA PushHealthy ==
    ASSUME TypeOK, Alone, HealthyInv, NEW s \in Syncs, NEW a \in Agents, Push(s, a)
    PROVE  HealthyInv'
<1> DEFINE f == sync[s].file
<1>1. /\ sync'[s].pc = "push" /\ sync'[s].agents = sync[s].agents
      /\ sync'[s].entries = sync[s].entries /\ sync'[s].todo = sync[s].todo
      /\ sync'[s].seen = sync[s].seen /\ sync'[s].file = f
      /\ sync'[s].content = sync[s].content
      /\ sync'[s].queue = sync[s].queue \ {a}
      /\ sync'[s].expired = sync[s].expired /\ sync'[s].errors = sync[s].errors
      /\ \A q \in Syncs \ {s} : sync'[q] = sync[q] /\ sync[q].pc = "idle"
      /\ sync[s].pc = "push"
      /\ UNCHANGED <<provider, repo, head, cache, lastSHA, known>>
    BY DEF Push, TypeOK, SyncState, Alone
<1>2. f \in Files /\ sync[s].content = sync[s].entries[f]
    BY <1>1 DEF HealthyInv, Pushing
<1>3. \A b \in Agents, g \in Files :
          got'[b][g] = IF b = a /\ g = f THEN sync[s].content ELSE got[b][g]
    BY <1>2 DEF Push, TypeOK, Tree
<1>4. NoErrors' /\ SeenInOrder'
    BY <1>1, SyncAssumption DEF HealthyInv, NoErrors, SeenInOrder, TypeOK, Commits
<1>5. ListedFiles' /\ ListedAgents'
    BY <1>1 DEF HealthyInv, ListedFiles, ListedAgents
<1>6. Pushing'
    BY <1>1, <1>2, <1>3, SyncAssumption DEF HealthyInv, Pushing
<1>7. CachedIsGot'
    BY <1>1, <1>3, SyncAssumption DEF HealthyInv, CachedIsGot, AtHand
<1>8. DoneIsCached'
    BY <1>1 DEF HealthyInv, DoneIsCached, AtHand
<1>9. LastIsDelivered'
    <2>1. lastSHA = head => sync[s].content = repo[f]
        BY <1>1, <1>2, SyncAssumption
        DEF HealthyInv, SeenInOrder, ListedFiles, TypeOK, Commits
    <2> QED
        BY <1>1, <1>3, <2>1, SyncAssumption DEF HealthyInv, LastIsDelivered, Delivered
<1> QED
    BY <1>4, <1>5, <1>6, <1>7, <1>8, <1>9 DEF HealthyInv

LEMMA CacheFileHealthy ==
    ASSUME TypeOK, Alone, Healthy', HealthyInv, NEW s \in Syncs, CacheFile(s)
    PROVE  HealthyInv'
<1> DEFINE f == sync[s].file
<1>1. /\ sync'[s].pc = "rules" /\ sync'[s].agents = sync[s].agents
      /\ sync'[s].entries = sync[s].entries /\ sync'[s].todo = sync[s].todo
      /\ sync'[s].seen = sync[s].seen
      /\ sync'[s].expired = sync[s].expired /\ sync'[s].errors = sync[s].errors
      /\ \A q \in Syncs \ {s} : sync'[q] = sync[q] /\ sync[q].pc = "idle"
      /\ sync[s].pc = "push" /\ sync[s].queue = {}
      /\ UNCHANGED <<provider, repo, head, lastSHA, known, got>>
    BY DEF CacheFile, TypeOK, SyncState, Alone
<1>2. f \in Files /\ sync[s].content = sync[s].entries[f]
    BY <1>1 DEF HealthyInv, Pushing
<1>3. cache' = [cache EXCEPT ![f] = sync[s].entries[f]]
    BY SyncAssumption
    DEF CacheFile, CallFails, Fault, Healthy, HealthyInv, NoErrors, TypeOK
<1>4. \A g \in Files : cache'[g] = IF g = f THEN sync[s].entries[f] ELSE cache[g]
    BY <1>2, <1>3 DEF TypeOK, Tree
<1>5. NoErrors' /\ SeenInOrder'
    BY <1>1, SyncAssumption DEF HealthyInv, NoErrors, SeenInOrder, TypeOK, Commits
<1>6. ListedFiles' /\ ListedAgents' /\ Pushing'
    BY <1>1 DEF HealthyInv, ListedFiles, ListedAgents, Pushing
<1>7. CachedIsGot'
    BY <1>1, <1>2, <1>4 DEF HealthyInv, CachedIsGot, AtHand, Pushing
<1>8. DoneIsCached'
    BY <1>1, <1>4 DEF HealthyInv, DoneIsCached, AtHand
<1>9. LastIsDelivered'
    BY <1>1 DEF HealthyInv, LastIsDelivered, Delivered
<1> QED
    BY <1>5, <1>6, <1>7, <1>8, <1>9 DEF HealthyInv

LEMMA RecordHealthy ==
    ASSUME TypeOK, Alone, Healthy', HealthyInv, NEW s \in Syncs, Record(s)
    PROVE  HealthyInv'
<1>1. /\ sync'[s] = Idle
      /\ \A q \in Syncs \ {s} : sync'[q] = sync[q] /\ sync[q].pc = "idle"
      /\ sync[s].pc = "rules" /\ sync[s].todo = {}
      /\ UNCHANGED <<provider, repo, head, cache, known, got>>
    BY DEF Record, end, TypeOK, Alone
<1>2. lastSHA' = sync[s].seen
    BY SyncAssumption DEF Record, CallFails, Fault, Healthy, HealthyInv, NoErrors, TypeOK
<1>3. NoErrors' /\ SeenInOrder'
    BY <1>1, <1>2, SyncAssumption DEF Idle, HealthyInv, NoErrors, SeenInOrder, TypeOK, Commits
<1>4. ListedFiles' /\ ListedAgents' /\ Pushing'
    BY <1>1 DEF Idle, HealthyInv, ListedFiles, ListedAgents, Pushing
<1>5. CachedIsGot'
    BY <1>1 DEF Idle, HealthyInv, CachedIsGot, AtHand
<1>6. DoneIsCached'
    BY <1>1 DEF Idle, HealthyInv, DoneIsCached, AtHand
<1>7. LastIsDelivered'
    <2> SUFFICES ASSUME sync[s].seen = head, NEW f \in Files, NEW a \in Initial,
                        repo[f] # None, Selects(f, Labels[a])
                 PROVE  got[a][f] = repo[f]
        BY <1>1, <1>2 DEF LastIsDelivered, Delivered
    <2>1. sync[s].entries = repo
        BY <1>1 DEF HealthyInv, ListedFiles
    <2>2. IsRule(f) /\ ~AtHand(f)
        BY <1>1 DEF Selects, AtHand
    <2>3. cache[f] = repo[f]
        BY <1>1, <2>1, <2>2 DEF HealthyInv, DoneIsCached
    <2> QED
        BY <2>2, <2>3 DEF HealthyInv, CachedIsGot
<1> QED
    BY <1>3, <1>4, <1>5, <1>6, <1>7 DEF HealthyInv

\* A step that counts a fault, or that only fails.
LEMMA FaultSteps ==
    ASSUME TypeOK, HealthyInv, Healthy, Healthy', NEW s \in Syncs
    PROVE  /\ ~Expire(s) /\ ~GiveUp(s)
           /\ \A f \in Files : ~FetchError(s, f)
           /\ \A a \in Agents : ~PushError(s, a)
<1>1. ~Expire(s) /\ ~GiveUp(s) /\ \A a \in Agents : ~PushError(s, a)
    BY SyncAssumption DEF Expire, GiveUp, PushError, CallFails, Fault, Healthy, HealthyInv, NoErrors
<1>2. ASSUME NEW f \in Files, FetchError(s, f)
      PROVE  FALSE
    BY <1>2, SyncAssumption
    DEF FetchError, fetched, CallFails, Fault, Healthy, HealthyInv, NoErrors, ListedFiles
<1> QED
    BY <1>1, <1>2

LEMMA NextHealthy ==
    ASSUME TypeOK, Alone, Healthy, Healthy', HealthyInv, ~Overlap, [Next]_vars
    PROVE  HealthyInv'
<1>1. ASSUME NEW s \in Syncs, runSync(s)
      PROVE  HealthyInv'
    BY <1>1, ReadHeadHealthy, ListHealthy, ListAgentsHealthy, SkipFileHealthy,
       FetchFileHealthy, PushHealthy, CacheFileHealthy, RecordHealthy, FaultSteps
    DEF runSync
<1>2. CASE UNCHANGED vars
    BY <1>2 DEF vars, HealthyInv, NoErrors, SeenInOrder, ListedFiles, ListedAgents, Pushing,
       CachedIsGot, AtHand, DoneIsCached, LastIsDelivered, Delivered
<1> QED
    BY <1>1, <1>2, CommitHealthy, JoinHealthy, BeginHealthy, FaultSteps DEF Next

------------------------------------------------------------------------------
(* Sync Now *)

\* What a sync fetches is what it has listed.
OnTime(s) == provider = "github" \/ head = sync[s].seen

\* The sync still has to send a file to an agent.
Awaits(s, f, a) ==
    \/ f \in sync[s].todo
    \/ sync[s].pc = "push" /\ f = sync[s].file /\ a \in sync[s].queue

\* An agent that a file is for has the version of it that was listed.
Has(s, f, a) ==
    sync[s].entries[f] # None /\ Selects(f, Labels[a]) => got[a][f] = sync[s].entries[f]

\* As long as a sync is on time and has met no error, the agents it has listed have
\* every file that it does not still have to send them.
Complete(s) ==
    /\ sync[s].pc \in {"list", "agents", "rules", "push"} =>
          sync[s].seen \in Commits /\ sync[s].seen <= head
    /\ sync[s].pc \in {"agents", "rules", "push"} /\ sync[s].seen = head => sync[s].entries = repo
    /\ sync[s].pc = "agents" =>
          \A f \in Files : sync[s].entries[f] # None /\ IsRule(f) => f \in sync[s].todo
    /\ ~sync[s].errors /\ OnTime(s) =>
          /\ sync[s].pc \in {"rules", "push"} =>
                \A f \in Files, a \in sync[s].agents : Awaits(s, f, a) \/ Has(s, f, a)
          /\ sync[s].pc = "push" =>
                sync[s].file \in Files /\ sync[s].content = sync[s].entries[sync[s].file]

SyncNowInv == \A s \in Forced : Complete(s)

\* The other syncs are idle, and so is one that has just begun or ended.
LEMMA IdleIsComplete ==
    ASSUME NEW s, sync[s].pc \in {"idle", "head"}
    PROVE  Complete(s)
BY DEF Complete

LEMMA OneComplete ==
    ASSUME TypeOK, Alone, NEW s \in Syncs, sync[s].pc # "idle", NEW r,
           sync' = [sync EXCEPT ![s] = r], s \in Forced => Complete(s)'
    PROVE  SyncNowInv'
<1>1. \A q \in Syncs \ {s} : sync'[q].pc = "idle"
    BY OthersIdle
<1>2. ASSUME NEW q \in Forced PROVE Complete(q)'
    <2>1. CASE q = s
        BY <1>2, <2>1
    <2>2. CASE q # s
        BY <1>1, <1>2, <2>2, SyncAssumption DEF Complete
    <2> QED
        BY <2>1, <2>2
<1> QED
    BY <1>2 DEF SyncNowInv

LEMMA WorldKeepsComplete ==
    ASSUME TypeOK, SyncNowInv,
           \/ \E f \in Files, b \in Contents : Commit(f, b)
           \/ \E a \in Agents : Join(a)
    PROVE  SyncNowInv'
<1> SUFFICES ASSUME NEW s \in Forced PROVE Complete(s)'
    BY DEF SyncNowInv
<1>1. /\ UNCHANGED <<provider, got, sync>> /\ Complete(s)
      /\ UNCHANGED <<head, repo>> \/ head' = head + 1
      /\ head \in Nat
    BY SyncAssumption DEF SyncNowInv, Commit, Join, TypeOK, Commits
<1>2. sync[s].pc \in {"list", "agents", "rules", "push"} =>
          /\ sync[s].seen \in Commits /\ sync[s].seen <= head'
          /\ sync[s].seen = head' => head' = head /\ repo' = repo
    BY <1>1, SyncAssumption DEF Complete, Commits
<1>3. sync[s].pc \in {"rules", "push"} /\ OnTime(s)' => OnTime(s)
    BY <1>1, <1>2 DEF OnTime
<1> QED
    BY <1>1, <1>2, <1>3 DEF Complete, Awaits, Has

LEMMA BeginComplete ==
    ASSUME TypeOK, SyncNowInv, ~Overlap, NEW s \in Syncs, Begin(s)
    PROVE  SyncNowInv'
BY SyncAssumption DEF Begin, SyncNowInv, Complete, TypeOK, SyncState

\* The steps of a run that change none of what the invariant is about, or end it.
LEMMA QuietComplete ==
    ASSUME TypeOK, Alone, SyncNowInv, NEW s \in Syncs,
           Expire(s) \/ GiveUp(s) \/ ReadHead(s) \/ Record(s)
    PROVE  SyncNowInv'
<1>1. CASE Expire(s)
    <2>1. /\ sync[s].pc # "idle" /\ sync' = [sync EXCEPT ![s].expired = TRUE]
          /\ UNCHANGED <<provider, repo, head, got>>
        BY <1>1 DEF Expire
    <2>2. s \in Forced => Complete(s)'
        BY <2>1 DEF SyncNowInv, Complete, OnTime, Awaits, Has, TypeOK, SyncState
    <2> QED
        BY <2>1, <2>2, OneComplete
<1>2. CASE GiveUp(s) \/ Record(s) \/ (ReadHead(s) /\ shortCircuit(s))
    <2>1. sync[s].pc # "idle" /\ sync' = [sync EXCEPT ![s] = Idle]
        BY <1>2 DEF GiveUp, Record, ReadHead, end
    <2>2. Complete(s)'
        BY <2>1, IdleType DEF Complete, TypeOK
    <2> QED
        BY <2>1, <2>2, OneComplete
<1>3. CASE ReadHead(s) /\ ~shortCircuit(s)
    <2>1. /\ sync[s].pc # "idle" /\ sync' = [sync EXCEPT ![s].pc = "list", ![s].seen = head]
          /\ UNCHANGED head
        BY <1>3 DEF ReadHead
    <2>2. sync'[s].pc = "list" /\ sync'[s].seen = head /\ head \in Commits
        BY <2>1 DEF TypeOK, SyncState
    <2>3. Complete(s)'
        BY <2>1, <2>2, SyncAssumption DEF Complete, Commits
    <2> QED
        BY <2>1, <2>3, OneComplete
<1> QED
    BY <1>1, <1>2, <1>3

LEMMA ListComplete ==
    ASSUME TypeOK, Alone, SyncNowInv, NEW s \in Syncs, List(s) \/ ListAgents(s)
    PROVE  SyncNowInv'
<1>1. CASE List(s)
    <2>1. /\ sync[s].pc = "list"
          /\ sync' = [sync EXCEPT ![s].pc = "agents", ![s].entries = repo,
                                  ![s].todo = {f \in Files : repo[f] # None /\ IsRule(f)}]
          /\ UNCHANGED <<provider, repo, head, got>>
        BY <1>1 DEF List
    <2>2. /\ sync'[s].pc = "agents" /\ sync'[s].entries = repo
          /\ sync'[s].todo = {f \in Files : repo[f] # None /\ IsRule(f)}
          /\ sync'[s].seen = sync[s].seen
        BY <2>1 DEF TypeOK, SyncState
    <2>3. s \in Forced => Complete(s)'
        BY <2>1, <2>2 DEF SyncNowInv, Complete
    <2> QED
        BY <2>1, <2>3, OneComplete
<1>2. CASE ListAgents(s)
    <2>1. /\ sync[s].pc = "agents"
          /\ sync' = [sync EXCEPT ![s].pc = "rules", ![s].agents = known]
          /\ UNCHANGED <<provider, repo, head, got>>
        BY <1>2 DEF ListAgents
    <2>2. /\ sync'[s].pc = "rules" /\ sync'[s].entries = sync[s].entries
          /\ sync'[s].todo = sync[s].todo /\ sync'[s].seen = sync[s].seen
        BY <2>1 DEF TypeOK, SyncState
    <2>3. ASSUME s \in Forced, NEW f \in Files, NEW a PROVE (Awaits(s, f, a) \/ Has(s, f, a))'
        BY <2>1, <2>2, <2>3 DEF SyncNowInv, Complete, Awaits, Has, Selects
    <2>4. s \in Forced => Complete(s)'
        BY <2>1, <2>2, <2>3 DEF SyncNowInv, Complete
    <2> QED
        BY <2>1, <2>4, OneComplete
<1> QED
    BY <1>1, <1>2

\* A file is passed over only by a sync that is not forced, or with an error.
LEMMA PassComplete ==
    ASSUME TypeOK, Alone, SyncNowInv, NEW s \in Syncs, NEW f \in Files,
           SkipFile(s, f) \/ FetchError(s, f)
    PROVE  SyncNowInv'
<1>1. CASE SkipFile(s, f)
    <2>1. sync[s].pc # "idle" /\ s \notin Forced
          /\ sync' = [sync EXCEPT ![s].todo = sync[s].todo \ {f}]
        BY <1>1 DEF SkipFile, unchanged
    <2> QED
        BY <2>1, OneComplete
<1>2. CASE FetchError(s, f)
    <2>1. /\ sync[s].pc = "rules" /\ UNCHANGED <<repo, head>>
          /\ sync' = [sync EXCEPT ![s].todo = sync[s].todo \ {f}, ![s].errors = TRUE]
        BY <1>2 DEF FetchError
    <2>2. /\ sync'[s].errors /\ sync'[s].pc = "rules" /\ sync'[s].seen = sync[s].seen
          /\ sync'[s].entries = sync[s].entries
        BY <2>1 DEF TypeOK, SyncState
    <2>3. s \in Forced => Complete(s)'
        BY <2>1, <2>2 DEF SyncNowInv, Complete
    <2> QED
        BY <2>1, <2>3, OneComplete
<1> QED
    BY <1>1, <1>2

LEMMA FetchComplete ==
    ASSUME TypeOK, Alone, SyncNowInv, NEW s \in Syncs, NEW f \in Files, FetchFile(s, f)
    PROVE  SyncNowInv'
<1>1. /\ sync[s].pc = "rules" /\ UNCHANGED <<provider, repo, head, got>>
      /\ sync' = [sync EXCEPT ![s].pc = "push", ![s].file = f, ![s].content = fetched(s, f),
                              ![s].todo = sync[s].todo \ {f},
                              ![s].queue = MatchAgents(f, sync[s].agents)]
    BY DEF FetchFile
<1>2. /\ sync'[s].pc = "push" /\ sync'[s].file = f /\ sync'[s].content = fetched(s, f)
      /\ sync'[s].todo = sync[s].todo \ {f}
      /\ sync'[s].queue = {a \in sync[s].agents : Selects(f, Labels[a])}
      /\ sync'[s].agents = sync[s].agents /\ sync'[s].entries = sync[s].entries
      /\ sync'[s].seen = sync[s].seen /\ sync'[s].errors = sync[s].errors
    BY <1>1 DEF TypeOK, SyncState, MatchAgents
<1>3. s \in Forced /\ OnTime(s) => fetched(s, f) = sync[s].entries[f]
    BY <1>1 DEF SyncNowInv, Complete, OnTime, fetched
<1>4. OnTime(s)' <=> OnTime(s)
    BY <1>1, <1>2 DEF OnTime
<1>5. ASSUME s \in Forced, ~sync[s].errors, OnTime(s), NEW g \in Files, NEW a \in sync[s].agents
      PROVE  (Awaits(s, g, a) \/ Has(s, g, a))'
    <2>1. g \in sync[s].todo \/ Has(s, g, a)
        BY <1>1, <1>5 DEF SyncNowInv, Complete, Awaits
    <2>2. CASE g = f
        BY <1>2, <1>5, <2>2 DEF Awaits, Has
    <2>3. CASE g # f
        BY <1>1, <1>2, <2>1, <2>3 DEF Awaits, Has
    <2> QED
        BY <2>2, <2>3
<1>6. s \in Forced => Complete(s)'
    BY <1>1, <1>2, <1>3, <1>4, <1>5 DEF SyncNowInv, Complete
<1> QED
    BY <1>1, <1>6, OneComplete

LEMMA PushComplete ==
    ASSUME TypeOK, Alone, SyncNowInv, NEW s \in Syncs, NEW a \in Agents, Push(s, a)
    PROVE  SyncNowInv'
<1> DEFINE f == sync[s].file
<1>1. /\ sync[s].pc = "push" /\ UNCHANGED <<provider, repo, head>>
      /\ sync' = [sync EXCEPT ![s].queue = sync[s].queue \ {a}]
      /\ got' = [got EXCEPT ![a][f] = sync[s].content]
    BY DEF Push
<1>2. /\ sync'[s].pc = "push" /\ sync'[s].file = f /\ sync'[s].content = sync[s].content
      /\ sync'[s].todo = sync[s].todo /\ sync'[s].queue = sync[s].queue \ {a}
      /\ sync'[s].agents = sync[s].agents /\ sync'[s].entries = sync[s].entries
      /\ sync'[s].seen = sync[s].seen /\ sync'[s].errors = sync[s].errors
    BY <1>1 DEF TypeOK, SyncState
<1>3. OnTime(s)' <=> OnTime(s)
    BY <1>1, <1>2 DEF OnTime
<1>4. ASSUME s \in Forced, ~sync[s].errors, OnTime(s)
      PROVE  /\ f \in Files /\ sync[s].content = sync[s].entries[f]
             /\ \A g \in Files, b \in sync[s].agents : (Awaits(s, g, b) \/ Has(s, g, b))'
    <2>1. f \in Files /\ sync[s].content = sync[s].entries[f]
        BY <1>1, <1>4 DEF SyncNowInv, Complete
    <2>2. \A b \in Agents, g \in Files :
              got'[b][g] = IF b = a /\ g = f THEN sync[s].content ELSE got[b][g]
        BY <1>1, <2>1 DEF TypeOK, Tree
    <2>3. ASSUME NEW g \in Files, NEW b \in sync[s].agents
          PROVE  (Awaits(s, g, b) \/ Has(s, g, b))'
        <3>1. b \in Agents /\ (Awaits(s, g, b) \/ Has(s, g, b))
            BY <1>1, <1>4 DEF SyncNowInv, Complete, TypeOK, SyncState
        <3>2. CASE b = a /\ g = f
            BY <1>2, <2>1, <2>2, <3>1, <3>2 DEF Has
        <3>3. CASE ~(b = a /\ g = f)
            BY <1>1, <1>2, <2>2, <3>1, <3>3 DEF Awaits, Has
        <3> QED
            BY <3>2, <3>3
    <2> QED
        BY <2>1, <2>3
<1>5. s \in Forced => Complete(s)'
    BY <1>1, <1>2, <1>3, <1>4 DEF SyncNowInv, Complete
<1> QED
    BY <1>1, <1>5, OneComplete

LEMMA EndPushComplete ==
    ASSUME TypeOK, Alone, SyncNowInv, NEW s \in Syncs,
           CacheFile(s) \/ \E a \in Agents : PushError(s, a)
    PROVE  SyncNowInv'
<1>1. CASE CacheFile(s)
    <2>1. /\ sync[s].pc = "push" /\ sync[s].queue = {} /\ UNCHANGED <<provider, repo, head, got>>
          /\ sync' = [sync EXCEPT ![s].pc = "rules", ![s].file = None, ![s].content = None]
        BY <1>1 DEF CacheFile
    <2>2. /\ sync'[s].pc = "rules" /\ sync'[s].todo = sync[s].todo
          /\ sync'[s].agents = sync[s].agents /\ sync'[s].entries = sync[s].entries
          /\ sync'[s].seen = sync[s].seen /\ sync'[s].errors = sync[s].errors
        BY <2>1 DEF TypeOK, SyncState
    <2>3. OnTime(s)' <=> OnTime(s)
        BY <2>1, <2>2 DEF OnTime
    <2>4. \A f \in Files : \A a : Awaits(s, f, a) \/ Has(s, f, a) => (Awaits(s, f, a) \/ Has(s, f, a))'
        BY <2>1, <2>2 DEF Awaits, Has
    <2>5. s \in Forced => Complete(s)'
        BY <2>1, <2>2, <2>3, <2>4 DEF SyncNowInv, Complete
    <2> QED
        BY <2>1, <2>5, OneComplete
<1>2. ASSUME NEW a \in Agents, PushError(s, a) PROVE SyncNowInv'
    <2>1. /\ sync[s].pc = "push" /\ UNCHANGED <<repo, head>>
          /\ sync' = [sync EXCEPT ![s].queue = sync[s].queue \ {a}, ![s].errors = TRUE]
        BY <1>2 DEF PushError
    <2>2. /\ sync'[s].errors /\ sync'[s].pc = "push" /\ sync'[s].seen = sync[s].seen
          /\ sync'[s].entries = sync[s].entries
        BY <2>1 DEF TypeOK, SyncState
    <2>3. s \in Forced => Complete(s)'
        BY <2>1, <2>2 DEF SyncNowInv, Complete
    <2> QED
        BY <2>1, <2>3, OneComplete
<1> QED
    BY <1>1, <1>2

LEMMA NextComplete ==
    ASSUME TypeOK, Alone, SyncNowInv, ~Overlap, [Next]_vars
    PROVE  SyncNowInv'
<1>1. ASSUME NEW s \in Syncs, runSync(s)
      PROVE  SyncNowInv'
    BY <1>1, QuietComplete, ListComplete, PassComplete, FetchComplete, PushComplete,
       EndPushComplete DEF runSync
<1>2. CASE UNCHANGED vars
    BY <1>2 DEF vars, SyncNowInv, Complete, OnTime, Awaits, Has
<1> QED
    BY <1>1, <1>2, WorldKeepsComplete, BeginComplete, QuietComplete DEF Next

------------------------------------------------------------------------------
\* Every variable of the syncs keeps its type; whether syncs overlap or calls fail, a sync
\* that is pushing a file has its content.
THEOREM SyncTypeCorrect == Spec => []TypeOK
<1>1. Init => TypeOK
    BY InitSyncInv DEF SyncInv
<1> QED
    BY <1>1, NextTypeOK, PTL DEF Spec

\* If the syncs of a source do not overlap, the short circuit of runSync (service.go:210)
\* leaves out no file as long as nothing fails, for any number of files, agents, commits
\* and goroutines that sync.
THEOREM ShortCircuitIsSafe == ~Overlap => (Spec => []ShortCircuitSafe)
<1> SUFFICES ASSUME ~Overlap PROVE Spec => []ShortCircuitSafe
    OBVIOUS
<1>1. Init => SyncInv /\ Alone
    BY InitSyncInv
<1>2. SyncInv /\ Alone /\ [Next]_vars => (SyncInv /\ Alone)'
    BY NextTypeOK, NextAlone, StaysHealthy, NextHealthy DEF SyncInv
<1>3. SyncInv => ShortCircuitSafe
    BY DEF SyncInv, Healthy, HealthyInv, LastIsDelivered, ShortCircuitSafe
<1> QED
    BY <1>1, <1>2, <1>3, PTL DEF Spec

\* If the syncs of a source do not overlap, a Sync Now that ends without an error has
\* sent every file it listed to every agent it listed, whatever failed before, whoever
\* commits or joins meanwhile (service.go:141, TriggerSync, and lines 228 to 300).
THEOREM SyncNowIsComplete == ~Overlap => (Spec => SyncNowComplete)
<1> SUFFICES ASSUME ~Overlap PROVE Spec => SyncNowComplete
    OBVIOUS
<1> DEFINE Inv == TypeOK /\ Alone /\ SyncNowInv
           Step == \A s \in Forced :
                     /\ Record(s) /\ ~sync[s].errors
                     /\ provider = "github" \/ head = sync[s].seen
                     =>
                     \A f \in Files, a \in sync[s].agents :
                         sync[s].entries[f] # None /\ Selects(f, Labels[a]) =>
                             got[a][f] = sync[s].entries[f]
<1>1. Init => Inv
    <2>1. Init => SyncNowInv
        BY SyncAssumption, IdleType DEF Init, SyncNowInv, Complete
    <2> QED
        BY <2>1, InitSyncInv DEF SyncInv
<1>2. Inv /\ [Next]_vars => Inv'
    BY NextTypeOK, NextAlone, NextComplete
<1>3. Inv => Step
    BY DEF SyncNowInv, Complete, OnTime, Awaits, Has, Record
<1>4. Inv /\ [Next]_vars => [Step]_vars
    BY <1>3
<1> QED
    BY <1>1, <1>2, <1>4, PTL DEF Spec, SyncNowComplete
==============================================================================
