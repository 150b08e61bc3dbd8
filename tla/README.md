# A verification project for otel-hive

otel-hive is a management server for OpenTelemetry collectors: agents connect to it
over OpAMP (WebSocket), users push configurations to agents and groups through an HTTP
API, a git poller pushes configurations found in repositories, and a web console (React,
`ui/src`) does through the API what its users want.  This directory holds
TLA+ models of its logic, the TLC instances that check them, and proofs that TLAPS checks.

Source paths below are relative to the repository root; `PROJECT.json` maps every
definition of a module to the lines that it models.

## 1. Inventory of the system

| Component | Source | State | Operations | Hard behaviour |
|---|---|---|---|---|
| Agent registry and callbacks | `internal/opamp/agents.go`, `server.go` | `agentsById`, `connections`, `agents.mux`; the agent's `status` column | `FindOrCreateAgent`, `RemoveConnection`, `onMessage`, `onDisconnect` | one goroutine per connection; reconnection before the old connection is noticed dead; server restart |
| Agent object | `internal/opamp/agent_*.go`, `server.go` | `Status`, `GroupID`, `GroupName`, `CustomInstanceConfig`, `remoteConfig`, `statusUpdateWatchers` under `agent.mux` | `processAgentGrouping`, `UpdateStatus`, `SetCustomConfig`, `persistAgent` | handler and API requests interleave; reads outside the lock; sends after unlock; lost messages |
| Config sender | `internal/opamp/config_sender.go` | a notification channel per request | `SendConfigToAgent`, `SendConfigToAgentsInGroup`, restarts | 30 s timeout against a late answer |
| HTTP handlers | `internal/api/handlers` | none | store, then deliver | two steps without a transaction; delivery may fail after storage |
| Agent service | `internal/services/agent_service_impl.go` | none | `StoreConfigForAgent`, lookups | version numbers are read and written in two statements |
| Application store | `internal/storage/applicationstore` | agents, groups, configs tables (or maps) | CRUD, latest config | cascades; `foreign_keys` is set on one pooled connection |
| Git sync | `internal/gitsync` | sources, file SHA cache, worker map, wait group | `Start`, `Stop`, CRUD of sources, `runSync` | concurrent syncs; cache advanced on failure; contexts that are never cancelled |
| Git path rules | `internal/gitsync/matcher.go` | none | `ParseRules`, `MatchAgents` | pure |
| Authentication | `internal/auth` | users, refresh tokens, API keys | `Setup`, `Login`, `Refresh`, `Logout` | check-then-act; rotation races |
| Audit log | `internal/audit`, `internal/middleware/audit.go` | `audit_log` | one insert per write | table is created by no migration that runs |
| Metrics, configuration, main | `internal/metrics`, `internal/config`, `cmd/all-in-one` | counters; none | | shutdown order |
| Console: session | `ui/src/hooks/useAuth.tsx`, `api/base.ts`, `App.tsx` | tokens in `localStorage`, shared by tabs; status and refresh promise of a tab | `init`, `login`, `setup`, `logout`, `refreshTokens`, `simpleRequest` | several requests meet a 401; tabs rotate the same token; answers are lost |
| Console: list pages | `ui/src/pages/GitSources.tsx`, `Groups.tsx` | SWR's cache of the list; `useState` of the page | create, edit, delete, sync, refresh | polls, reloads and handlers overlap; errors replace the page |
| Console: configs | `ui/src/pages/Configs.tsx`, `components/configs` | list, text, group, address | edit, create, save | an editor that outlives a change of address; late loads |
| Console: drawers | `ui/src/components/AgentDetailsDrawer.tsx`, `GroupDetailsDrawer.tsx`, `agent-details/AgentConfigPipeline.tsx` | selected row, text under edit, messages | restart, send config | the row changes under an open drawer; the page takes the drawer away |
| Console: fleet | `ui/src/pages/Agents.tsx`, `Topology.tsx`, `components/topology` | answers, filter, order | refresh, sort, filter, open a drawer | several answers on one screen |
| Console: audit log, API keys | `ui/src/pages/AuditLog.tsx`, `ApiKeys.tsx` | page and filter; the key told once | turn, filter; create | pages that vanish; dialogs closed before an answer |
| Console: editor | `ui/src/hooks/useYaml*.ts`, `lib/validation`, `components/collector-pipeline` | text, verdict, markers, drawing | type, parse, validate, draw | two debounced hooks; text positions found by search |
| Console: telemetry, query page, widgets | `ui/src/components/lawrence-ql`, `shared/Telemetry*`, `components/ui` | none that matters | | |

How they interact: the OpAMP library calls `onMessage` and `onDisconnect` from one
goroutine per connection; both go through the registry and then, outside any lock, to the
store.  API requests run in goroutines of their own, store what the user wrote and call the
config sender, which finds the agent object in the registry, changes it under `agent.mux`,
sends on the object's connection and waits on a channel that the next `onMessage` of that
agent notifies.  The git poller reads agents from the store and calls the same sender.
The console calls the HTTP API only, every call through `simpleRequest`; what it reads is
kept by the SWR library, which polls, and which handlers ask for a list anew after a write.

What makes each component correct:

* registry: its two maps agree, nothing stays registered with a dead connection, the end
  of one connection never removes an agent of another, and whatever went wrong in an
  overlap is repaired by later messages;
* agent object: the remote config follows the custom config, is never read as nil, is
  chosen by priority, reaches the agent, and no waiting request is forgotten;
* config sender: an answer of success means that the agent has the config;
* git sync: a file that could not be pushed is pushed later, workers stop, no worker
  survives its source;
* config store: versions of one agent or group are distinct and the latest is the one last
  stored;
* authentication: one first administrator; a refresh token is exchanged at most once;
* session of the console: one refresh at a time per tab, nobody waits for one that is over,
  the stored token is one the server knows, every request ends;
* pages: a user sees what he did, a button that saves, sends or restarts is disabled while its
  handler runs and none stays disabled after it, what was typed for one object is never sent
  to another;
* editor: the verdict, the markers (if Monaco was there to set them) and the drawing are those
  of the text on screen.

`PROJECT.json` lists the hazards line by line, with the property that covers each one or
the reason why none does yet.

## 2. Modules

### AgentRegistry

One agent may use several connections in a row and several agents may share one.  A
connection's goroutine is a small program counter `pc[c]`; its message is `msg[c]`.

| Action | Code |
|---|---|
| `Connect`, `Report`, `Hangup` | the agents and the network; the server accepts every connection |
| `Receive` | `onMessage` up to `FindOrCreateAgent` (one section of `agents.mux`) |
| `LookupStored`, `CreateStored`, `UpdateStored` | the statements of `persistAgent` |
| `BeginDisconnect`, `MarkOffline`, `RemoveConnection` | `onDisconnect`: read the ids under the lock, one UPDATE per id, remove under the lock |
| `Restart` | the process dies; memory is lost, the store stays |

Two Boolean constants switch the environment.  `Overlap`: may an agent connect anew
before the server has cleaned up its last connection?  In reality it always may; the
instance without it shows what holds if it does not.  `Crashes`: may the server restart?

Actions are as small as the code's atomic sections (a mutex section or one statement of
the database), so the interleavings TLC explores are those of the goroutines.  Abstracted:
the content of a message except its health, `last_seen`, and database failures other
than the duplicate insert.

### Presence

What readers of the registry may rely on, without goroutines or locks: an agent is
registered with at most one connection that has not ended, and the end of a connection
removes exactly its agents at one instant.  `AgentRegistry!Implements` states the
refinement (`reg <- agentsById`, `ended <-` the connections with `pc = "closed"`).

### AgentSession

One agent, its object in the server, the goroutine of its connection inside `onMessage`,
the API requests that push configs, and the agent itself.

| Action | Code |
|---|---|
| `TakeMessage`, `PickConfig`, `InstallConfig` | `processAgentGrouping`: group, config read from the store without the lock, config installed under it |
| `UpdateStatus` | one section of `agent.mux`: status, remote config, offer, watchers |
| `FinishMessage` | `persistAgent` (row, group by name) and the answer |
| `StoreForAgent`; `StoreForGroup`, `SelectMember` | `HandleSendConfigToAgent`; `HandleAssignConfig` and `SendConfigToAgentsInGroup` |
| `FindAgent`, `SetCustomConfig`, `SendToAgent`, `WaitForStatus`, `Timeout` | `SendConfigToAgent` |
| `AgentSends`, `AgentReceives`, `Redescribe` | the OpAMP client of the agent |
| `Reconnect`, `CloseStale` | the connection is replaced, with the cleanup of the old one before or after the first message of the new one |

A config stands for its hash.  An agent describes its group by id, by name or not at all.
The statements of `persistAgent` are one action: only the goroutine of this agent writes
the row, and the group has one agent here.  The connection breaks between two messages,
never while one is handled.  A request whose object was replaced after it found it keeps
the old object, of which nothing is modelled but whether the request must wait.
`StoreForGroup` may or may not make the assigned config the group's latest: its version is one
more than that of the config it copies, while the store orders by version, so an older config
may stay first (`groups.go:201`, `sqlite.go:535`).  The instances have one config for requests
to push, with which the two are the same once one is stored; the proofs cover any number.

### GitWorkers

The life cycle of git sources.  A request (create, update, delete a source) runs in a
goroutine of its own; each of its statements and each section of `s.mu` is an action, so
that any requests interleave.  A worker is named after who started it.

| Action | Code |
|---|---|
| `Start`, `BeginStop`, `EndStop` | `Service.Start`; the cancellation and the wait of `Service.Stop` |
| `CreateSource`, `UpdateSource`, `DeleteSource` | the handlers up to the first statement of the service |
| `InsertRow`, `WriteRow`, `DeleteRow`, `Fail` | the statements of the store, and their failure |
| `TakeWorker`, `CloseWorker` | `stopWorker`: out of the map under the lock, closed after it |
| `StartWorker` | `startWorker` |
| `LoadSource`, `EndSync`, `Tick`, `EndWorker` | `worker.run` and `doSync` |

Of a source only its poll interval is kept, which is all that the workers copy, and only
intervals that are not negative: with a negative one `run` panics (section 3, disagreements).
What a sync does is the next module.

### GitSync and PathRules

One source and the goroutines that run its syncs: its poller, and the requests of Sync Now
and of the webhook (`Forced`).  Each call of the provider, the store and the config sender
is an action, between which commits are pushed, agents join and contexts end.

| Action | Code |
|---|---|
| `Commit`, `Join`, `Expire` | the repository, new agents, the end of a sync's context |
| `Begin` | `TriggerSync` and `doSync` up to `runSync`; the source is read once |
| `ReadHead`, `List`, `ListAgents`, `GiveUp` | steps 1, 2, 3 and 5 of `runSync` and their error returns |
| `SkipFile`, `FetchFile`, `FetchError` | one file: the cache, the fetch, the match |
| `Push`, `PushError` | `SendConfigToAgent` to one matched agent |
| `CacheFile` | `UpsertFileSHA`, whatever the pushes gave |
| `Record` | `UpdateSyncState` or `recordFailure` |

A blob stands for a file's hash and its content.  The provider of a source decides what a
fetch returns: GitHub the blob that was listed, GitLab and Gitea the file as it is by then.
`got[a][f]` is the version of a file that an agent was sent last; which of several files
an agent ends up running is not modelled.  `CallFails` counts failures, except those of a context
that has ended.  `Overlap` says whether two syncs of the source may run at once.  In the
code they may; the instance without it shows what the code gives if they do not, and
`gitsync_overlap_doc` what is lost.

`PathRules` is `ParseRules` and `labelsMatch`: a path is the sequence of its segments.

### AuthClient

The tabs of one browser.  An async function of a tab is a process with one request under
way at most; its frame (`Frame`) is the request's progress and what the function will do
next.  Code between two awaits is one action, and so is what microtasks run before the tab
takes up another answer.

| Action | Code |
|---|---|
| `Serve` and the answers it takes | `simpleRequest` at the server: `internal/middleware/auth.go`, `internal/api/handlers/auth.go`, `internal/auth/service.go` |
| `Run` | the continuation after an await: of `init`, `login`, `setup`, `logout`, `fetchMe`, `doRefresh` or a request for data |
| `User` | submits a form, signs out, has a page ask for data, loads a page anew |
| `Environment` | the server cannot be reached, an answer is lost, tokens age and expire, the database is reset, a tab is opened |

`routed` is whether requests to `/api/v1/api/auth/...`, which is where the console sends
them, reach the handlers of `/api/auth`: at this commit no route takes them, and both cases
are explored.  A pair of tokens is its number.  A handler of the server is one step, but
`Setup` and `Refresh` are two (`Look`, `Act`): they read first and write later, without a
transaction.

### ListPage, GitSourcesPage, GroupsPage

`ListPage` holds what pages with a table have in common: the table of the server with a
number for each write, what SWR holds (`cache`: the data, the error, which request is the
newest, the requests under way), and the handlers (`calls`), of which a request, the answer,
the reload of the list and its end are separate actions.  What SWR does is modelled from how
the pages rely on it and is marked external in the map.  `GitSourcesPage` and `GroupsPage`
add the `useState` of the page, the guards under which a button can be clicked, and what
each handler does to the page before and after its awaits.

### ConfigsPage

The same list, and the editor that is on the same component for two addresses: `Navigate`
changes `mode` and `configId`, `ConfigArrives` is the effect that fills the editor.  A text
is known by the config it was loaded from (`base`).  Rows are versions; `parent` is the row an
update was made from.

### Drawers

The drawer of an agent with the editor of its config, or of a group.  `HandleClick` opens it
for another row, `TopologyArrives` is its data, `ListFails` and `ListRecovers` are the page
around it, which takes the drawer out of the tree without closing it.  A text is known by the
agent it was typed for.

### FleetPages, AuditLogPage, ApiKeysPage

`FleetPages` is the agents page and the topology: `Listed`, `GroupCell`, `Nodes`, `Edges`,
`SidebarGroups` and `SidebarAgents` are what is on screen as functions of the answers,
coordinates included.  `AuditLogPage` has the page number and the filter while events are
recorded, `ApiKeysPage` the dialog in which a key is told once.

### CollectorConfig, YamlPosition, ConfigEditor

`CollectorConfig` is what the console computes from a text: the three validators, and the
nodes, edges and boxes of the drawing.  A text is what `yaml.load` makes of it: nothing, a
mapping, a scalar, an exception.  `YamlPosition` is the search for the line of a complaint
in the lines of the text, which a mapping may have in several layouts.  `MarksItsLine` holds
what the search finds against the nesting of the keys by the rules of YAML, which the search
does not know.  Where the items of a list are level with its key it is the key that has to be
marked, and not the item, because that is what the search gives (`yaml-position.ts:79`).  The two may differ where a setting of a processor is called `service`: if what
comes next is the service the search passes it over and line 1 is marked (`Overlooked`), if it
is the section `extensions` that is taken for the list of extensions (`Mistaken`).
`PositionAssumption` names what else would mislead it: components called like a key of the
service, pipelines called like a list.  The pipelines of a text have different names
(`Keyed`), because a key that is repeated is an exception of the parser.  `ConfigEditor` is
the text with its two debounced hooks and the badges.  Monaco mounts at some time
(`HandleEditorDidMount`), before or after the text was validated; until it has,
`PerformValidation` gives a verdict and sets no markers, as the guards in
`useYamlValidation.ts:46`, `50` and `80` have it, and nothing sets them later for the same text.
That a mounted editor has a model and that `window.monaco` is then there is taken from the loader
of Monaco.  `early` remembers that the text came before Monaco; only then may a text at rest have
no markers.

### MCConsole

The pages share the names of their variables, and the instance opens one of them: a run of
`console` explores every page.  `Fitting` is the assumptions of all pages about the constants
they are given.  The properties of the run are the conjunctions, over the
pages they are about, of the properties of those modules.

## 3. Runs

Every safety run explores its instance completely.  `QueueCap` bounds unread messages,
`Events` the reconnections and changes of description.

| Run | Instance | Shows |
|---|---|---|
| `registry_overlap` | 2 agents, 2 connections, overlap and crashes, fair | the registry's invariants and its refinement of Presence; registration and status repair themselves; every dead connection is cleaned up |
| `registry_sequential` | 2 agents, 3 connections, queue of 2, neither | the stored status never overstates presence; commands go to the connection in use |
| `session_safety` | 2 requests, 1 config besides the default and the empty one, 1 event | remote config never nil and never apart from the custom config; no lost wake-up |
| `session_converges` | 1 request, 1 config, 1 event, fair | the agent gets the wanted config, the server falls silent, waiters are notified |
| `workers_safety` | 2 sources, one of them stored at the start, 3 requests, 2 intervals | no poller lost; every stored source is polled, at the stored interval |
| `gitsync` | 1 file, 3 agents (2 that it selects, one of them new), a poller and a forced sync, 2 commits, 2 failures, fair, no overlap | the commit is recorded only when no agent waits; polls distribute every change if nothing fails; Sync Now repairs the rest |
| `workers_ends` | 2 sources, 2 requests, failing statements, fair | stopped pollers end; `Stop` returns if all pollers are its own |
| `auth_tabs` | 2 tabs, 2 requests each, 3 pairs of tokens, 2 actions of the user, 1 trouble | one refresh at a time, nobody waits for a past one, stored and live tokens agree |
| `auth_settles` | 1 tab, 2 requests, 3 pairs, 3 actions, 1 trouble, fair | every request ends unless the refresh awaits itself |
| `console` | each page: 2 rows, 2 handlers (1 on the configs page), 2 or 3 writes, 1 or 2 troubles; for the editor every text of `AllTexts` in every layout, and one change of it | what the pages promise, see above |

The bounds of the server's runs: two agents and two connections suffice for every pairwise
interference (an agent on the wrong connection, two agents on one connection, a reconnection while the old
connection is cleaned up); the sequential instance has a third connection to come back on.
Two requests are enough for one to overtake the other; one user config, the default and the
empty one are three distinct contents, so that a config can be overwritten by each kind of
writer.  Three requests on one source are an update, the one that overtakes it and a
delete.  Two commits are a change and its revert, and two failures a push that is lost and
the statement or context that could hide it; files are independent of each other in
`runSync` but for the recorded commit.  `CHECK_DEADLOCK FALSE` in the registry's runs: the connections of an instance are
finite and never reused, so it ends; the session's runs check deadlock.  The workers' runs
do not: the requests of an instance are finite and after the shutdown nothing is left to do;
nor do those of the console, whose users have a bounded number of actions.

The bounds of the console's runs: two tabs with two requests give a refresh by one, a second
request that joins it, and another tab that rotates the same token; a third pair of tokens
is one that a late answer can overwrite.  On a page two handlers are enough for one to
overtake the other, with the poll as a third reader; the trouble is a failed request, a
write by another user, or a page that is left.  The bound on troubles and writes (`fuel`,
`MaxRev`) limits their number and not their place.  The texts of the editor have up to two
pipelines with up to three components in a list, null pipelines, empty and scalar lists, names
that are a word of another name and names that differ only in their case; `Layouts` lays
each out with indented and level items, in brackets, with comments at the left edge, with the
service first or last, and with a setting called `service`, of processors alone so that it is
followed by the service, by `extensions` or by another section.

Fairness (`FairSpec`): goroutines run, which the Go scheduler and an unbounded number of
connections' goroutines give; a connection whose peer is gone eventually fails its read; a
connected agent sends heartbeats (OpAMP clients do by default; where agents share a
connection each gets its turn, which is why `Report` is strongly fair: the bounded queue of
the model would otherwise let one agent keep the other out) and reads.  No one has to
connect, push, reconnect or crash, and no timeout has to fire.  A poller's select takes a
channel that is ready again and again (strong fairness: Go chooses among the ready ones at
random), and a sync ends because its context does after five minutes.  The timer of a poller
fires again and again (`Begin`, strongly fair because another sync of the model may be in
its way); nobody has to press Sync Now, so `SyncNowRepairs` says what follows if somebody
keeps doing so.
The one fairness of `auth_settles` is that the server answers and that a tab takes an answer
up (`Serve` and `Run`, weakly fair together).  The user does nothing that he must do.

### Disagreements between the code and its comments

The `..._doc` runs state what a comment or the documentation says and find it violated by
the code.

* `workers_stop_doc` (`service.go:84`, `369`): `Stop` waits for pollers that requests
  started, whose context it does not cancel.
* `gitsync_overlap_doc` (`README.md:154`): a sync that listed the files before a commit
  pushes the old version after another one pushed the new version, and every later poll
  takes the short circuit.

Others were seen while modelling and have no run of their own.  At the server:

* an agent that reconnects before the server notices the end of its old connection stays
  tied to the old one (`FindOrCreateAgent` associates only new ids); after both are gone it
  can remain `online` (`server.go:145`);
* on the first message no config is chosen, because the capability is read from a status
  that is stored only afterwards; the agent is offered an empty config (`server.go:330`);
* a file that is fetched by path may be newer than the hash that is cached for it; if that
  commit is reverted, polls skip the file (`gitea.go:143`, `service.go:294`);
* an answer of success to a push only means that the agent sent any message since
  (`agent_config.go:11`);
* a push between reading and installing a config in `onMessage` is overwritten by the default
  (`server.go:380`);
* membership of a group by name is lost with the next description (`server.go:458`);
* a config that is assigned to a group is sent to its members, but need not become the group's
  latest: the version stored is one more than that of the config copied, whichever versions
  the group has (`groups.go:201`, `sqlite.go:535`);
* a negative poll interval is stored as it is, only 0 being replaced (`store.go:73`), and makes
  `rand.Int63n` panic in the poller (`worker.go:41`), which ends the process;
* the one file of an HTTP source lies directly below the config root
  (`providers/http.go:47`), where no rule of `matcher.go:49` finds it.

In the console:

* requests of `api/auth.ts` go below `/api/v1`, where the server has no such routes; neither
  has it one for `/topology`;
* a refresh that is itself answered 401 awaits its own promise (`base.ts:67`), with every
  request behind it; when `init` does so the page stays blank (`App.tsx:49`);
* after a 401 without a stored refresh token `refreshPromiseRef` keeps a promise of `null`
  for ever, because only the `try` has a `finally` (`useAuth.tsx:169-188`);
* a refresh that is answered after a sign-out stores its tokens again, and one that fails
  late removes the tokens of a newer sign-in (`useAuth.tsx:176`, `179`);
* a save that ends late closes the sheet of another source, or marks it with its error
  (`GitSources.tsx:158`); the create form of the groups has no flag against a second click;
* the page of the git sources keeps one id of a row that is syncing: Sync Now on another row
  enables the button of the first again, and the end of either sync frees the button of the
  other while its request is under way (`GitSources.tsx:187`); the Retry of the error pages is
  never disabled, and the first of two refreshes to end frees the button (`GitSources.tsx:123`);
* a text that was validated before Monaco had mounted has its badge and no markers until it
  changes (`useYamlValidation.ts:46`);
* where the items of a list are level with its key, a complaint about an item is marked on the
  key (`yaml-position.ts:79`);
* a config saved before it has been loaded into the editor is stored as a new one, with the
  text and group of the one before (`Configs.tsx:113`);
* pipelines without a section, or a null one, make the validators throw, after which an
  undefined component is shown as valid (`otel-pipeline-validator.ts:43`); a blank text, a
  comment or a scalar where a list belongs makes the drawing throw in an effect
  (`PipelineGenerator.tsx:72`, `202`);
* markers stay when a text becomes blank or unparsable (`useYamlValidation.ts:31`, `86`);
* a search for a line that comes upon a setting called `service` first marks the section
  `extensions`, or line 1, for an error in the service (`yaml-position.ts:43`);
* the list of API keys is read in a shape the server does not send, so that the table is
  always empty (`ApiKeys.tsx:67`).

## 4. Proofs

`AgentRegistryProofs` proves, for any agents and connections and without bound on queues,
every safety property of `registry_overlap` and `registry_sequential`.

* `RegistryInv` is the conjunction of type correctness, `RegistryConsistent`,
  `NoClosedRegistration`, `MarkingOwnAgents` and one fact no run states: a connection whose
  agent end is open is in its read loop or inside `onMessage`.  Only together are they
  inductive: `NoClosedRegistration` survives `RemoveConnection` because the removed ids are
  exactly those registered with the connection (`RegistryConsistent`), and
  `MarkingOwnAgents` survives `Receive` because ids that are being marked are registered
  and a registered id is never given to another connection.
* The action properties and the refinement follow from it: a `RemoveConnection` step is a
  `Presence!End`, a `Receive` that creates an object is a `Register`, `Restart` is a
  `Reset`, every other step stutters.  `NoEviction` needs the extra fact: an open
  connection is not being removed.
* `SequentialInv` (for `~Overlap`) adds that unread and current messages of a connection
  come from agents whose link it is, and that nothing is unread once cleanup has begun.
* `OnlineInv` (for `~Overlap` and `~Crashes`) adds that an agent stored as connected is
  registered, and still to be marked if its connection is in `onDisconnect`.

`AgentSessionProofs` proves what `session_safety` checks, for any number of requests and
configs and any number of messages under way.  `SessionInv` adds `RequestsInOrder`: a
request past its first step has a config to push, and is on no list of watchers before
`SetCustomConfig` put it there.  The first makes every remote config a config, the second
lets `UpdateStatus` hand the whole list over to `notified` without touching a request that
is not waiting yet.  What `Next` preserves is shown by
a lemma for each group of variables (`NextType`, `NextConfig`, `NextRequests`), with one
step per action.

`GitWorkersProofs` proves type correctness, `NoOrphans` and `StopOnce`, also for statements
that fail.  `WorkersInv` says where a
worker can be: not started (`Fresh`), in the map for its own source and not stopped
(`Registered`), held by exactly one request that took it from the map (`Holding`,
`StopOnce`), or stopped.  `NoOrphans` is preserved by `TakeWorker` because the worker that
leaves the map is held in the same step, and by `StartWorker` because it never replaces an
entry.

If no statement fails (`~Failures`), `PollingInv` holds too, and from it follow
`EverySourcePolled` and `PollsAsStored`: an id belongs to the one request that creates it
(`NewIds`), so that no worker and no other request can be in the way of an insert; a stored
source without a worker has a request between `TakeWorker` and `StartWorker` or before
`DeleteRow` (`Restarting`); a worker with an outdated interval has a request before
`TakeWorker` (`Reloading`).  Two updates that stop each other's workers preserve both
because a worker reads its source anew when it starts.

`GitSyncProofs` proves type correctness in general, and the two safety properties of the run
for syncs that do not overlap.  For `ShortCircuitSafe`, `HealthyInv`, which holds while
nothing has failed and files are fetched by hash, follows a file through a sync: the listed
version is the latest one as long as the commit that was seen is (`ListedFiles`), an agent
that is not in the queue has the file at hand (`Pushing`), what is cached is what the agents
have (`CachedIsGot`), and what is done is cached in the listed version (`DoneIsCached`).  At
`Record` these meet.  That a running sync does not disturb what is distributed already needs
`SeenInOrder`: the recorded commit is not newer than the one the sync saw.
`SyncNowComplete` is proved whatever fails: as long as a Sync Now has met no error and no
commit has outrun it at a provider that fetches by path (`OnTime`), an agent it has listed
has every file that it does not still have to send (`Complete`).  A push that fails sets
`errors`, a commit in the middle ends `OnTime` for good, and both only weaken what is left to
show; no other sync is under way that could send the agent an older version.

`AuthClientProofs` proves what `auth_tabs` checks, for any number of tabs and requests.
`SessionInv` joins `AwaitsARefresh` and `StoredTokenHonoured` with three facts: the frame of
a process is one that its function can be in, and no frame has a pair that was not issued
(`FramesInv`); while `init` runs, its tab does nothing else but the refresh that `init`'s own
requests may start (`InitInv`); and a pair that an answer brought and that was not taken up
is known to no other frame nor to the storage (`PendInv`).  The last one is why the rotation
of one tab cannot void what another stored: a live token that is not stored has one holder.
`SingleFlight` follows from `FramesInv` and `InitInv`.

`GitSourcesPageProofs` has in its first section what is true of the list of any page, stated
about `ListPage` alone: the invariant `Seen` says that the newest request is under way, and
if it has read the table it read it after the last write the page knows of; with none under
way the data themselves are new enough.  It is kept although answers come in any order,
because only the newest request's answer is taken and a write asks anew after it.  The pages
of the git sources, the configs, the groups and the fleet use these lemmas, and the first
three get `SeesOwnWrites` from them.  For `BusyIsTrue` of the git sources every action is
shown to be of one of four kinds: a handler begins, goes on, ends, or the page itself changes
(`CallSteps`), and each keeps `BusyInv`: the flag of the form has exactly one save, the row that
is marked as syncing has a sync of its own, the flag of a refresh has some refresh.  The last
two go one way only, see the disagreements in section 3.

`ConfigsProofs` proves `UpdatesItsOwn`, `BusyIsTrue`, `SeesOwnWrites` and type correctness
of the page of the configs.  `ConfigsInv` follows a text: a loaded config is in the editor with
its own text (`EditorInv`), a save carries what was true when it was clicked and, rows being
only added (`TableInv`), remains true (`CallsInv`).

Its second part is about the text of a config: `MarksOfText` says that every complaint of the
validators is marked where it should be, for any names that `PositionAssumption` admits, any
number of pipelines and lists of any length.  The argument forgets the text early and keeps a
numbering of its lines:

* every key that the service may have gets a number, in the order of the text (0 the service,
  1 its extensions, 2 its pipelines, 4u the pipeline u and 4u + k its k-th list), and an item
  of a list has the number of that list.  `LinesAre` says that the lines of every text in
  every layout are sections and, before or after them, a service whose numbers rise, and in which
  each key that the text has is found once (`Service`).  It is built up from lists, pipelines and
  their concatenation (`ListsBlock`, `PipelineBlock`, `PipelinesBlock`, `ServiceBlock`);
* from the numbers alone follows under which keys a line lies: the nearest line further left
  than that of 4u + k is that of 4u (`PathToService` and the lemmas after it), so that different
  places have different paths (`PathsDiffer`);
* the search is followed as the fold that it is: between two keys of a path it meets only
  lines that it passes by (`SearchReaches`), so that it arrives at the line of the place that
  the path names; in the sections before the service it either finds nothing or goes astray
  after a setting called `service`, and then `Astray` says where it ends (`AstrayMarks`);
* a complaint of a validator is about a place that the text has (`AboutKey`).

A key of a section that follows the service, or comes before it, is no obstacle because it
is further left than what is sought.  The attempt to prove the property without `Mistaken`
failed at exactly that point: the case had been missing from the model's idea of what the search
is meant to find, and from the texts of the run, which has it since.

`ConsoleProofs` proves the properties of the run `console` for the whole console and any sizes
of its parts.  It has an inductive invariant per page:

* drawers (`DrawerInv`): the text in the editor is that of the selected agent and a closed
  drawer has none (`EditorIsOwn`), which is what makes `SendsOwnText` true of the next agent;
  a button waits for exactly one handler, which is not one of an earlier drawer
  (`ButtonsWait`);
* API keys (`KeysInv`): at most one creation is under way; `KeyStays` follows, an action
  property;
* audit log (`AuditInv`): a page was chosen among those of an answer, and recorded events only
  grow, for every filter (`RecordedGrows`).  The number of events that match is a fold over a
  set, and the lemmas about it (`AdderAdds`, `SumIsBounded`, `SumGrows`) are proved without
  the theorems of induction: a set for which one fails has a least subset for which it fails
  (`LeastSubset`, from the well-foundedness of strict inclusion), and taking out one element
  gives a smaller one;
* editor (`EditorInv`): the hooks hold what the validators say of the text they ran on, and the
  markers are those of that text, or none if Monaco had not mounted when it came, so that at
  rest they are never those of another text than the one on screen; what the
  validators can say is bounded by `SevereIsUndefined` and `WarningIsEmptyList`, and where the
  markers lie is `MarksOfText`, which gives `MarkersAreRight` (`MarkersFit`);
* the drawing, which is a function of the text: `BoxesAreApart` says where boxes are.  A section
  is high enough for the longest of its columns (`SectionIsHigh`), so that a box stays in it
  (`BoxInSection`), the boxes of one section are apart (`BoxesOfSectionApart`), and a section
  ends before the next begins (`TopsAre`, `SectionsApart`).  `DrawingShowsTheFlow` says where
  arrows lead: the boxes of a pipeline are the receivers, the chain of its processors and the
  exporters (`PipelineIsChained`); what is behind a box of such a chain is reached
  (`ChainIsReached`), and a set that is closed under the arrows and does not hold a box shows
  that it is not (`ReachedWithin`), which gives `ExportersAreReached`, `NoWayAround` and
  `InOrder`.  Induction along a column, a chain or a list of pipelines is replaced by the least
  number for which a statement fails (`AllNumbers`);
* groups and fleet (`GroupsInv`, `FleetInv`): the list's `Seen`, the flags of the forms, that
  one drawer at most is open, and that the server keeps one row for an agent (`OneEach`).  The
  last makes the order of the list strict, also among agents last seen at the same time, and in
  a strict order of n rows the numbers of those before each are 0 to n - 1, every one taken
  once (`RanksRise`, `RanksAreTaken`, by counting).  So the list is whole and in order
  (`ListIsWhole`), and every agent has a place of its own on the canvas (`InstanceCanvas`,
  `PlacesAreClear`).

`ConsoleInv` says that the open page has its invariant.  A step of the console is a step of that
page (`OwnSteps`), and the rest of the variables stay, so `NextConsole` is one case per page.
The theorems about whole runs assume `Fitting` alone, which asks of the constants of the
console what each page asks of its own.  The modules of the pages are reached by `INSTANCE`, and
the definitions of two instances of one module differ for the prover: `SameGitSources`,
`SameConfigs`, `SameGroupsList`, `SameFleetList` and, for the texts and their marks,
`SameTexts`, `SameErrors`, `SameLines` and `SameMarks` show them equal.

The assumptions are those of the modules (`RegistryAssumption`, `SessionAssumption`,
`WorkersAssumption`, `SyncAssumption`, `AuthAssumption`, and the pages' in `Fitting`): bounds
are natural numbers, special values are no members of the sets, the ids of the agents that a page
orders are numbers, sets whose members are counted are finite, and names are not taken from
the keys of the service (`PositionAssumption`).

What stays with TLC:

* liveness (`RegistrationHeals`, `StatusHeals`, `ClosesEveryConnection`, `Converges`,
  `QuietAtLast`, `WaitersNotified`, `StoppedWorkersEnd`, `StopsOwnWorkers`, `Distributed`,
  `SyncNowRepairs`, `CallsSettle`): it needs fairness and ENABLED, which the prover does not
  handle.

Every safety property of the runs that expect to pass is a theorem, under the condition of its
run where it needs one (`~Overlap`, `~Crashes`, `~Failures`).  Where a definition is recursive
over numbers, or folds a sequence, induction is replaced by the least number for which a
statement fails (`AllNumbers`), because the library's theorems of induction have an operator
as a parameter, which none of the provers can instantiate.

## 5. Plan

1. done: AgentRegistry, Presence, AgentSession, GitWorkers, GitSync, and proofs about each.
2. done: the console: AuthClient, the pages, the drawers, the editor, and proofs about each.
3. done: every safety property of the runs that expect to pass is a theorem, under the
   conditions that section 4 names; the last was that the markers are right, for lines of any
   number.
4. AgentRegistry: database errors in `MarkOffline` and `UpdateStored`.
5. GitSync: several files in the order of the listing and the one config an agent runs,
   labels that change, sources edited during a sync, truncated responses.
6. ConfigStore: versions and latest config of agents and groups with concurrent pushes, of
   the console as well; group creation by name, deletion with and without cascade.
7. Deletion and insertion of `Refresh` at the server as steps of their own in AuthClient.
8. A composition of AgentSession and GitSync through the config sender; shutdown in
   the order of `cmd/all-in-one/main.go`.

## 6. Not modelled

At the server: the requests and encodings of the providers, metrics, health endpoints, JWT
cryptography, certificate requests and connection settings: input and output without state
that a property of the system would be about.  The rules of the store's tables (cascades,
missing foreign keys) are planned.  Poll intervals are not negative.

In the console: the views of telemetry and metrics, whose API modules are stubs
(`api/telemetry.ts`); the query page (`components/lawrence-ql`), to which no route leads; parts
that nothing mounts (`ConfigTarget*`, `ConfigValidation`, `PipelineNode`); the copied widget
library (`components/ui`), layout and theme; the sheet with the versions of a config, of
which a restored version counts as typed; the columns of markers; the fields of forms.  YAML
and SWR are libraries and appear as what the console relies on.
