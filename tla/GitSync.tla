-------------------------------- MODULE GitSync --------------------------------
(***************************************************************************)
(* How the configs of a git repository reach the agents: runSync           *)
(* (internal/gitsync/service.go), run by the poller of a source, by Sync   *)
(* Now and by the webhook, while commits are pushed to the repository.     *)
(*                                                                         *)
(* One source; each call of the provider, of the store and of the config   *)
(* sender is an action.  A blob stands for its hash and for its content.   *)
(***************************************************************************)
EXTENDS Naturals, PathRules

CONSTANTS
    Files,       \* paths below the config root
    Blobs,       \* contents of a file
    None,        \* no such file, nothing cached
    Agents,
    Initial,     \* the agents that are stored when the program starts
    Labels,      \* the labels of each agent
    Syncs,       \* goroutines that run syncs
    Forced,      \* those that call TriggerSync: Sync Now, the webhook
    Overlap,     \* may two syncs of the source run at once?  Nothing prevents it.
    Providers,   \* kinds of git provider
    MaxCommits,  \* bound on commits
    MaxFaults    \* bound on calls that fail

ASSUME SyncAssumption ==
    /\ \A f \in Files : f \in Seq(STRING)
    /\ None \notin Blobs \cup Nat
    /\ Initial \subseteq Agents
    /\ Forced \subseteq Syncs
    /\ Overlap \in BOOLEAN
    /\ Providers \subseteq {"github", "gitlab", "gitea"}
    /\ MaxCommits \in Nat /\ MaxFaults \in Nat

VARIABLES
    provider, \* of the source
    repo,     \* the repository: the blob of each file on the branch
    head,     \* its latest commit
    cache,    \* git_source_file_shas
    lastSHA,  \* git_sources.last_sync_sha: a commit, or None
    known,    \* the agents that are stored
    got,      \* the blob of each file that was last sent to each agent with success
    sync,     \* the local variables of each sync
    faults    \* how many calls have failed

vars == <<provider, repo, head, cache, lastSHA, known, got, sync, faults>>

Contents == Blobs \cup {None}
Tree     == [Files -> Contents]
Commits  == 0..MaxCommits

\* since: gs.LastSyncSHA as it was read at the start; seen: commitSHA; file, content
\* and queue: the rule at hand, and the matched agents it is still to be pushed to.
SyncState ==
    [pc : {"idle", "head", "list", "agents", "rules", "push"},
     since : Commits \cup {None}, seen : Commits \cup {None}, entries : Tree,
     todo : SUBSET Files, agents : SUBSET Agents,
     file : Files \cup {None}, content : Contents, queue : SUBSET Agents,
     errors : BOOLEAN, expired : BOOLEAN]

Idle ==
    [pc |-> "idle", since |-> None, seen |-> None, entries |-> [f \in Files |-> None],
     todo |-> {}, agents |-> {}, file |-> None, content |-> None, queue |-> {},
     errors |-> FALSE, expired |-> FALSE]

TypeOK ==
    /\ provider \in Providers
    /\ repo \in Tree /\ head \in Commits
    /\ cache \in Tree /\ lastSHA \in Commits \cup {None}
    /\ known \in SUBSET Agents
    /\ got \in [Agents -> Tree]
    /\ sync \in [Syncs -> SyncState]
    /\ \A s \in Syncs : sync[s].pc = "push" <=> sync[s].content # None
    /\ faults \in 0..MaxFaults

Init ==
    /\ provider \in Providers
    /\ repo \in Tree /\ head = 0
    /\ cache = [f \in Files |-> None] /\ lastSHA = None
    /\ known = Initial
    /\ got = [a \in Agents |-> [f \in Files |-> None]]
    /\ sync = [s \in Syncs |-> Idle]
    /\ faults = 0

MatchAgents(f, agents) == {a \in agents : Selects(f, Labels[a])}

------------------------------------------------------------------------------
(* The world *)

\* Someone pushes a commit that adds, changes or removes a file.
Commit(f, b) ==
    /\ head < MaxCommits
    /\ b # repo[f]
    /\ repo' = [repo EXCEPT ![f] = b]
    /\ head' = head + 1
    /\ UNCHANGED <<provider, cache, lastSHA, known, got, sync, faults>>

\* An agent connects for the first time.
Join(a) ==
    /\ a \notin known
    /\ known' = known \cup {a}
    /\ UNCHANGED <<provider, repo, head, cache, lastSHA, got, sync, faults>>

Fault == faults < MaxFaults /\ faults' = faults + 1

\* The context of a sync ends: five minutes have passed, or the request it belongs to
\* is over.
Expire(s) ==
    /\ sync[s].pc # "idle" /\ ~sync[s].expired
    /\ Fault
    /\ sync' = [sync EXCEPT ![s].expired = TRUE]
    /\ UNCHANGED <<provider, repo, head, cache, lastSHA, known, got>>

\* A call fails; once the context has ended, each one that takes it does.
CallFails(s) == IF sync[s].expired THEN UNCHANGED faults ELSE Fault

CallSucceeds(s) == ~sync[s].expired /\ UNCHANGED faults

------------------------------------------------------------------------------
(* runSync *)

end(s) == sync' = [sync EXCEPT ![s] = Idle]

\* The source is read, with the commit of its last sync.
Begin(s) ==
    /\ sync[s].pc = "idle"
    /\ Overlap \/ \A q \in Syncs : sync[q].pc = "idle"
    /\ sync' = [sync EXCEPT ![s].pc = "head", ![s].since = lastSHA]
    /\ UNCHANGED <<provider, repo, head, cache, lastSHA, known, got, faults>>

\* recordFailure of an early return writes back the commit the sync began with, if its
\* own statement succeeds.
GiveUp(s) ==
    /\ sync[s].pc \in {"head", "list", "agents"}
    /\ CallFails(s)
    /\ lastSHA' \in {lastSHA, sync[s].since}
    /\ end(s)
    /\ UNCHANGED <<provider, repo, head, cache, known, got>>

\* Mutant: Sync Now takes the short circuit too.
BugShortCircuitForced(s) == head = sync[s].since

shortCircuit(s) == s \notin Forced /\ head = sync[s].since

\* LatestCommitSHA
ReadHead(s) ==
    /\ sync[s].pc = "head"
    /\ CallSucceeds(s)
    /\ IF shortCircuit(s) THEN end(s)
       ELSE sync' = [sync EXCEPT ![s].pc = "list", ![s].seen = head]
    /\ UNCHANGED <<provider, repo, head, cache, lastSHA, known, got>>

\* ListFiles and ParseRules
List(s) ==
    /\ sync[s].pc = "list"
    /\ CallSucceeds(s)
    /\ sync' = [sync EXCEPT ![s].pc = "agents", ![s].entries = repo,
                            ![s].todo = {f \in Files : repo[f] # None /\ IsRule(f)}]
    /\ UNCHANGED <<provider, repo, head, cache, lastSHA, known, got>>

\* "List connected agents": all that are stored.
ListAgents(s) ==
    /\ sync[s].pc = "agents"
    /\ CallSucceeds(s)
    /\ sync' = [sync EXCEPT ![s].pc = "rules", ![s].agents = known]
    /\ UNCHANGED <<provider, repo, head, cache, lastSHA, known, got>>

\* Mutant: Sync Now skips the files that are cached.
BugUnchangedForced(s, f) == ~sync[s].expired /\ cache[f] = sync[s].entries[f]

\* Mutant: a file that is cached is skipped whatever its hash.
BugUnchangedIfCached(s, f) == s \notin Forced /\ ~sync[s].expired /\ cache[f] # None

\* A cache that cannot be read counts as empty.
unchanged(s, f) == s \notin Forced /\ ~sync[s].expired /\ cache[f] = sync[s].entries[f]

SkipFile(s, f) ==
    /\ sync[s].pc = "rules" /\ f \in sync[s].todo
    /\ unchanged(s, f)
    /\ sync' = [sync EXCEPT ![s].todo = @ \ {f}]
    /\ UNCHANGED <<provider, repo, head, cache, lastSHA, known, got, faults>>

\* GitHub's FetchFile fetches the blob by its hash, the others fetch the path as it is
\* now (on the default branch, which is taken to be the branch of the source).
fetched(s, f) == IF provider = "github" THEN sync[s].entries[f] ELSE repo[f]

\* Mutant: the status of the response is not checked.
BugFetchUnchecked(s, f) ==
    /\ sync[s].pc = "rules" /\ f \in sync[s].todo
    /\ ~unchanged(s, f)
    /\ CallSucceeds(s)
    /\ sync' = [sync EXCEPT ![s].pc = "push", ![s].file = f, ![s].content = fetched(s, f),
                            ![s].todo = @ \ {f},
                            ![s].queue = MatchAgents(f, sync[s].agents)]
    /\ UNCHANGED <<provider, repo, head, cache, lastSHA, known, got>>

FetchFile(s, f) ==
    /\ sync[s].pc = "rules" /\ f \in sync[s].todo
    /\ ~unchanged(s, f)
    /\ CallSucceeds(s)
    /\ fetched(s, f) # None
    /\ sync' = [sync EXCEPT ![s].pc = "push", ![s].file = f, ![s].content = fetched(s, f),
                            ![s].todo = @ \ {f},
                            ![s].queue = MatchAgents(f, sync[s].agents)]
    /\ UNCHANGED <<provider, repo, head, cache, lastSHA, known, got>>

\* The fetch fails, or the file is not there any more: the next file.
FetchError(s, f) ==
    /\ sync[s].pc = "rules" /\ f \in sync[s].todo
    /\ ~unchanged(s, f)
    /\ \/ CallFails(s)
       \/ fetched(s, f) = None /\ CallSucceeds(s)
    /\ sync' = [sync EXCEPT ![s].todo = @ \ {f}, ![s].errors = TRUE]
    /\ UNCHANGED <<provider, repo, head, cache, lastSHA, known, got>>

\* SendConfigToAgent takes no context: it outlives the sync's.
Push(s, a) ==
    /\ sync[s].pc = "push" /\ a \in sync[s].queue
    /\ sync' = [sync EXCEPT ![s].queue = @ \ {a}]
    /\ got' = [got EXCEPT ![a][sync[s].file] = sync[s].content]
    /\ UNCHANGED <<provider, repo, head, cache, lastSHA, known, faults>>

\* The agent is not connected, accepts no configs or does not answer in time; in the
\* last case it may have the config nevertheless.
PushError(s, a) ==
    /\ sync[s].pc = "push" /\ a \in sync[s].queue
    /\ Fault
    /\ sync' = [sync EXCEPT ![s].queue = @ \ {a}, ![s].errors = TRUE]
    /\ got' \in {got, [got EXCEPT ![a][sync[s].file] = sync[s].content]}
    /\ UNCHANGED <<provider, repo, head, cache, lastSHA, known>>

\* UpsertFileSHA, whether or not the pushes succeeded; its own error is dropped.
CacheFile(s) ==
    /\ sync[s].pc = "push" /\ sync[s].queue = {}
    /\ sync' = [sync EXCEPT ![s].pc = "rules", ![s].file = None, ![s].content = None]
    /\ \/ /\ CallSucceeds(s)
          /\ cache' = [cache EXCEPT ![sync[s].file] = sync[s].entries[sync[s].file]]
       \/ CallFails(s) /\ UNCHANGED cache
    /\ UNCHANGED <<provider, repo, head, lastSHA, known, got>>

\* Mutant: the latest commit is asked for again when the sync ends.
BugRecordsLatest(s) ==
    /\ sync[s].pc = "rules" /\ sync[s].todo = {}
    /\ end(s)
    /\ sync[s].errors \/ ~sync[s].expired
    /\ lastSHA' = head
    /\ UNCHANGED <<provider, repo, head, cache, known, got, faults>>

\* UpdateSyncState or recordFailure, which has a context of its own.
Record(s) ==
    /\ sync[s].pc = "rules" /\ sync[s].todo = {}
    /\ end(s)
    /\ \/ /\ sync[s].errors \/ ~sync[s].expired
          /\ lastSHA' = sync[s].seen
          /\ UNCHANGED faults
       \/ /\ IF sync[s].errors THEN Fault ELSE CallFails(s)
          /\ UNCHANGED lastSHA
    /\ UNCHANGED <<provider, repo, head, cache, known, got>>

runSync(s) ==
    \/ GiveUp(s) \/ ReadHead(s) \/ List(s) \/ ListAgents(s)
    \/ \E f \in Files : SkipFile(s, f) \/ FetchFile(s, f) \/ FetchError(s, f)
    \/ \E a \in Agents : Push(s, a) \/ PushError(s, a)
    \/ CacheFile(s)
    \/ Record(s)

Next ==
    \/ \E f \in Files, b \in Contents : Commit(f, b)
    \/ \E a \in Agents : Join(a)
    \/ \E s \in Syncs : Expire(s) \/ Begin(s) \/ runSync(s)

Spec == Init /\ [][Next]_vars

\* A sync that runs goes on, and pollers poll: their timers fire, also if other syncs
\* run in between.  Nobody has to press Sync Now.
FairSpec ==
    /\ Spec
    /\ \A s \in Syncs : WF_vars(runSync(s))
    /\ \A s \in Syncs \ Forced : SF_vars(Begin(s))

------------------------------------------------------------------------------
(* Properties *)

Delivered(agents) ==
    \A f \in Files, a \in agents :
        repo[f] # None /\ Selects(f, Labels[a]) => got[a][f] = repo[f]

\* The short circuit of line 210 is safe: if the commit of the last sync is the latest
\* one and nothing went wrong, then no agent is waiting for a file.  The commit is read
\* before the files, so that one that comes in between is not taken for distributed.
\* Where a file is not fetched by its hash, this does not hold.
ShortCircuitSafe ==
    /\ provider = "github" /\ faults = 0
    /\ lastSHA = head /\ \A s \in Syncs : sync[s].pc = "idle"
    => Delivered(Initial)

\* "otel-hive polls for changes and pushes them to matching agents automatically"
\* (README.md:154), as long as nothing goes wrong.
PollsDistribute == [](faults = 0) => <>[]Delivered(Initial)

\* The same for the sources whose files are fetched by their hashes.
Distributed == provider = "github" => PollsDistribute

\* Sync Now ignores both the commit and the file cache (service.go:141): when one ends
\* without an error, every agent it listed has every file it listed, whatever went wrong
\* before.  (The providers that fetch by path may have sent a newer version.)
SyncNowComplete ==
    [][\A s \in Forced :
          /\ Record(s) /\ ~sync[s].errors
          /\ provider = "github" \/ head = sync[s].seen
          =>
          \A f \in Files, a \in sync[s].agents :
              sync[s].entries[f] # None /\ Selects(f, Labels[a]) =>
                  got[a][f] = sync[s].entries[f]]_vars

\* Whoever keeps pressing Sync Now gets every file to every agent in the end, those
\* that joined late and those a push failed for included.
SyncNowRepairs ==
    (\A s \in Forced : []<>(sync[s].pc = "head")) /\ Forced # {} => <>[]Delivered(known)
================================================================================
