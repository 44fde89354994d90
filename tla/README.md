# RayLine in TLA+

A verification project for RayLine (the `rayline` / `raydock` CLI, the `rld`
daemon and the crates they are built from). It models the parts of the program
whose correctness depends on the order in which processes, tasks and files
meet, checks them with TLC on small instances, and proves the most important
properties for every instance with TLAPS. Paths below are relative to `src/`.

## 1. The system

A `rayline` command starts a daemon (`rld serve`) on the user's machine. The
daemon owns a llama-server child and listens on several ports: an injector, an
adapter in front of the local model, a local router and, if asked, a TLS proxy.
Coding agents send their requests to these ports in one of three protocols
(Anthropic Messages, OpenAI Responses, OpenAI Chat Completions); the router
picks a target by the request's model and agent and translates between the
protocols. Everything that outlives a command is a file in a state directory.

| Component | State it keeps | Operations | Talks to | What is hard | What makes it correct |
|---|---|---|---|---|---|
| serve lifecycle, `crates/rayline-cli/src/router.rs` | pid file, meta file, advisory lock; the daemons themselves | start, stop, restart, superseding launch, readiness wait, metrics reconcile | processes by signal, `/healthz` by HTTP | stop and the clearing after a deadline do not take the lock; pids are reused; daemons die, hang, miss probes | one daemon, always recorded, with its own metadata; nobody signals a stranger; a reuse is a daemon of the asked configuration |
| proxy sidecar, same file | proxy pid and meta files | start, stop, take-over by a daemon that embeds the proxy | serve lifecycle (its port and lock) | shares a port with the daemon; its metadata is edited without the lock | one owner of the port; metadata describes the process |
| hybrid runtime, `crates/rayline-cli/src/hybrid.rs`, `crates/rayline-daemon/src/hybrid.rs` | supervisor.json, gateway-token, ready.json, runtime.lock; supervisor and core processes | start, status, stop; the supervisor's life; the core's life | files, signals, the gateway's HTTP | three processes create and remove three files; any of them may be killed between two steps | one supervisor; its files are there while it serves and gone when it is gone; stop tells the truth |
| metrics store, `crates/rayline-metrics/src/lib.rs` | active rows, recent records, totals (a lock each) | RequestStarted, RouteDecided, FirstToken, RemoteTokenUsage, RequestCompleted, RequestErrored, snapshot | called by proxy, router and adapter tasks | several tasks report one request id, in any order, and clients go away | each request counted once, rows closed, totals agree with the records |
| local router, `crates/rayline-local-router/src` | configuration, decision cache | select a route, translate the request, forward, translate the answer | endpoints, decision service, adapter, metrics | streams in pieces, upstreams that break off, three protocols with different shapes | nothing of an answer is lost, repeated or reordered; a broken answer does not look whole |
| proxy, `crates/rayline-proxy/src/lib.rs` | CA files and their lock, route status file, open streams | intercept, route, forward, redirect to the adapter, report | router, Anthropic, adapter, metrics | concurrent responses write one status file; several processes create one CA | a CA pair that matches; the status of the newest response |
| authentication cache, `crates/rayline-authcache/src/lib.rs` | at most 512 header sets | stash, evict, take | injector, proxy (write), adapter (read) | bounded; evicts what may be needed | a stashed set is found by the usage update it is for |
| adapter, `crates/rayline-adapter/src/lib.rs` | none but its requests | answer Messages with the local model, report usage | llama-server, cloud, metrics | streams, cancellation | a request is reported once |
| daemon process, `crates/rayline-daemon/src/main.rs`, `crates/rayline-llama/src/lib.rs` | llama-server child, listeners, health flag | serve, watch, shut down | llama-server | what fails between two start-up steps; signals during start-up | an orderly end takes the child along; what runs is the pinned release |
| model cache, `crates/rayline-hf/src/lib.rs` | downloaded files and partial files | resolve, download, verify | Hugging Face | interrupted and concurrent downloads | a download resumes exactly; links lead to files; a verified file is the whole file |
| self-update, `crates/rayline-cli/src/update.rs` | the installed binaries | check, download, verify, replace, roll back | release server | failure between two replacements | the installed set is one release |
| Claude and Codex integrations, `crates/rayline-cli/src/claude*.rs`, `codex*.rs`, `claude_app/` | other programs' settings and backups of them, a login daemon | install, restore, watch | those programs' files | the other program edits the same file | restore gives back what the user had |
| saved choices, `crates/rayline-cli/src/local_model.rs`, `onboarding.rs`, `discover.rs`, `catalog.rs` | settings.json: the local model, how the wizard ended, the mapping of subagents | use, download, remove, custom, clear, onboard, subagents; what a launch adopts | the cache, the catalogue; read by every launch | every command rewrites the whole file from what it read, without a lock; commands select by themselves | nobody's choice is undone by a command that was not asked to |
| commands, status, harnesses, profiles | none, or one-shot files | print, prompt, parse, probe | everything above | little: sequential input and output | — |

`PROJECT.json` lists every component with what is modelled of it, and every
hazard with the line where it bites and the properties that cover it.

## 2. Modules

| Module | Models | State ↔ code | Actions ↔ code |
|---|---|---|---|
| `SingleDaemon` | abstract: at most one daemon, started beside no other, recorded, forgotten only when dead | `running`, `pending`, `named` | Launch, Record, Forget, Exit |
| `ServeLifecycle` | `rayline serve start / stop / restart` and the launch that supersedes a daemon, over one directory | `lock`, `pidFile`, `metaFile` are the files of `RouterPaths`; `proc` the processes; `pc`, `seen*` a command's place and locals | one action per step between two shared accesses of `start_from_home_with_client`, `stop_router`, `wait_for_router_ready`, `reconcile_serve_metrics_meta` |
| `ServeRegistry` | `ServeLifecycle` as an implementation of `SingleDaemon` | refinement mapping | — |
| `HybridRuntime` | `hybrid start / stop`, the supervisor and its core | `supFile`, `tokenFile`, `readyFile`: the three files; `sup`, `core`: the processes; history: `orphans`, the supervisors of starts that were killed before they recorded them, and `unclean`, those that were killed with files no record names | the steps of `execute` (CLI) and of `run` (daemon), one action each |
| `RequestMetrics` | the metrics store under the tasks of proxy, observer, router and adapter | `active`, `recent`, `totals`: the three locked parts; `job`: an update between two locks | one action per report and one per lock of `apply` |
| `MessageStream` | abstract: a well-formed stream of one Anthropic message; also the upstream of the readers | `sent` | Grow; Extend |
| `ChatToAnthropic` | `OpenAiSseTranslator` and its task | the fields of the struct, and `sent` | HandleChunk, EndpointEnds, EndpointFails |
| `AnthropicToResponses` | `AnthropicToResponsesTranslator` and its task | the fields of the struct, and `events` | Receive (`push_bytes`: an event as its chunks were decoded, then one case per kind of event), Finish, the ends of the body |
| `AnthropicToChat` | `AnthropicToChatTranslator` and its task | the fields of the struct, and `out` | as above |
| `ModelCache` | the Hugging Face cache of one file at several pinned commits, filled and cleared by several processes | `tmp`, `sidecar`, `blob`, `snap`: the files, as inodes with content `data`; `job`: a process's locals | one action per file operation or read of `download_to_hf_cache_at`, `attempt_download`, `delete_from_hf_cache`; Crash |
| `LlamaServe` | `rld serve` with the bundled model: runtime installation, llama-server, signal handler, watchdog, end | `at`, `handler`: the two tasks; `slot`, `lock`: the mutex around the child; `child`; `binary`, `version`: the installation | one action per step of `ensure_llama_binary` and `run_serve`; both callers of `stop_server` |
| `ModelServing` | the two composed: the daemon is one client of the cache | — | the daemon's fetch drives `ModelCache`, its result `LlamaServe` |
| `StreamTranslation` | the three translators side by side; a response takes one path | `path` | a step of the translator of the path |
| `LocalRouter` | the local router: a turn, its tools, or a streamed answer | `part` | a step of the part that is followed |
| `RouteDecision` | the configuration the router loads and normalises, its catalogue, `select_route` | `file`, `launch`: what is on disk and how the router was started; `config` | Load; `Select`, a function of the request |
| `RouterTurn` | one request through the router: guard, route, decision service, retries, answer | `sent` (every message with its credentials), `announced` and `closers` (the metrics), `answer` | one action per step of `handle_messages`, `handle_responses`, `handle_chat_completions` and their forwards |
| `ToolTranslation` | the tools, `tool_choice` and replayed calls of a request, for five pairs of client and endpoint | `ask`, `upstream` (what is forwarded), `call` | RefuseAsk, Forward, CallTool |
| `RequestRouting` | where the proxy sends an intercepted request (operators only) | — | `Prepare`: `prepare_anthropic_route_with_subagent_filter` |
| `LocalTurn` | a turn through proxy or injector, the redirect to the adapter, the cache of credentials, the callback; the route status file | `cache`, `auth`, `callbacks`, `status`, `generation`, `pc` (a turn's place) | one action per step between two shared accesses |
| `CertificateAuthority` | the CA files that all proxies share, with their lock and its stale take-over | `lock`, `cert`, `key`: the files; `at`, `ca`: a proxy's place and pair | one action per file operation of `LocalCa` and `CaPathLock` |
| `ProxyDaemon` | the proxy's shared state: turns, CA, metrics | `part` | a step of the part that is followed |
| `ProxySidecar` | `rld proxy` as a sidecar; extends `ServeLifecycle` with the steps that differ | those of `ServeLifecycle`, read for the proxy's files | `start_proxy_from_home_with_client`, `stop_proxy` |
| `DesktopProfile` | the profile selection in Claude Desktop, its change and restoration | Desktop's `library`, `mode`, `profiles`; Rayline's `journal` and `saved` profile | one action per file write of the commands; the user's actions |
| `DesktopGateway` | the router behind Claude Desktop and its launchd service | `recorded`, `instance`, `plist`, `loaded`, `router`, `agent` | one action per write, spawn, kill and launchctl call |
| `SelfUpdate` | `update` and the migration of the old command layout, with the order of versions (the comparison of two `Version`s) | `files`: the release each of the five files is from | one action per file operation |
| `AccountStore` | the login and the router key of one environment | `stored`: the entry of credentials.json; `call`: a command's locals | the steps between two accesses of that file |
| `LaunchPlan` | where the turns of a launch go: flags, routing file and saved choice become a plan and a derived file; the daemon that is used again; then the proxy (`RequestRouting`) and the router (`RouteDecision`) | `machine`: what is saved; `plan`, `running`: of the launch and of the daemon; `config`: what the router has loaded | Launch (`run_command_from_home`, `start_from_cli` and what they derive), Load, Turn |
| `LocalSettings` | settings.json under every `local` command, the wizard, the picker of subagents and a launch | `settings`, `legacy`: the file and its predecessor; `have`: the cache; `derived`: the mapping the routes were made from; `command`: a command's jobs and what it has read | Begin; Download, Delete; Look and Decide (what follows from a read), ReadFirst, ReadAgain, Write (each setter), Map and Save (`run_picker`), Derive |
| `LaunchCommands` | the hybrid commands, a launch and the `local` commands: those that start something for a client or prepare it | `part` | a step of the part that is followed |
| `HostCommands` | the parts `ProxySidecar` to `AccountStore` that keep records on the machine | `part` | a step of the part that is followed |

In `LaunchPlan` an explicit empty list of agents and an absent one are the same,
and a provider is asked for its models by `claude --local` only.

`MC*` modules give the constants their values for TLC. `*_proofs` modules hold
the theorems. Definitions named as a variant of another one (`...Unlocked`,
`...Always`, ...) and commented `Variant` are the bugs the properties are tested
against; nothing uses them.

What the models leave out, in general: the text of messages, logging, the layout
of files and JSON, and time. A wait with a deadline is a step that may happen
at any moment; polling is a step that may find the new state.

## 3. Runs

| Run | Checks | Bounds and why they are enough |
|---|---|---|
| `serve_all` | type; spawn only under the lock with nothing recorded; the pid never beside another daemon's meta; the reconcile edits its own meta only; a reuse matches the request; every command ends | two commands of any kind (a race needs two), three configurations on two ports (one a subset of another, one unrelated), a prior daemon that runs, is dead, or whose pid was reused; all five kinds of fault |
| `serve_starts` | one daemon; a living daemon stays recorded; `SingleDaemon` is implemented | three starts (one deciding, one waiting, one that finds the result), kills and crashes, symmetric commands |
| `serve_deadline` | (fails) one wanted daemon | three starts, deadline fault |
| `launch` | type; one supervisor; serving means its files exist and name it, nothing stranded (`FilesTruthful`); what a command reports is so (`OutcomesAreTrue`); commands end, what was told to stop ends (`HybridEnds`); every turn ends where the user's file, flags or saved choice said, and what serves it is there (`TurnsGoWhereAsked`); the settings hold what every command wrote, an automatic selection gives way to the user's, what is set aside is kept, the picker changes what was touched (`ChoicesStand`) | two hybrid commands over every prior state, all faults, a kill of a command at each of its steps and of a supervisor at each of its own included; a launch of every kind, with each route pointing at the local model, the subscription, a hosted router of either environment and a provider, and with a model chosen by flag or environment that only a router or a provider has; a second and third launch over the daemon of the first (a reuse needs two, and three bring back the first plan); machines with and without a saved, downloaded or adopted model, a mapping of agents and a default file; any `local` command over settings that are broken, missing, of an older version, of another client, picked from or mapped, two catalogue models, and a second command (a removal or another endpoint) at any moment or afterwards |
| `metrics_codex` | (fails) no request recorded twice | one request |
| `sidecar_meta` | (fails) a proxy that is reused matches the request | three starts |
| `proxy` | type; the status file never goes back to an older generation; requests go where they belong; each placeholder is closed once, truthfully, with a key the service accepts; what is served is a matching CA pair; the metrics' books agree (totals and records, each request once, rows closed, the last usage report kept where the response can be decoded) | two turns of every pair of shapes; a cache with room for one entry, so that it evicts; two proxies, and two generations of the pair; two metrics requests of any of seven kinds, two chunks, a recent list of one (eviction) and an observer queue of two (overflow) |
| `router` | type; requests go where the configuration means; credentials go to their own destination; what is announced is closed, but for the returns of `KnownGap`; a forwarded request lets and makes the model call what the caller means; a translated stream is well formed and carries what the upstream said, but for cut characters | one request of every kind under every file, environment and start of `MCLocalRouter` (each with at most one special endpoint, table and flag; the routes interact in pairs); every combination of tools, choice and client; three data lines with up to two interleaved calls, three blocks with two deltas, each read whole or with a character that was cut between two chunks |
| `router_choice` | (fails) a choice of the caller reaches the endpoint | the tools part of `router` alone |
| `host` | type; spawn only with nothing recorded; a reused router has the wanted settings and every router can be stopped; no key outlives the sign-out of its account; versions are totally ordered; the user's selection can always be restored; an installation called whole is one release | two commands of any kind on the proxy; two profiles beside Rayline's; two routers, argument lists and keys; three releases (one without the core, a preview, a release) and three updates (one that is cut off, one that overlaps, one that looks at the result); two accounts and three account commands |
| `models` | type; a download that ends has the file of its URL; links lead to files; an orderly end of the daemon stops llama-server; only the whole pinned runtime is spawned; operations end; a signal ends the daemon; a dead model stops being offered | the daemon and one command that fetch and remove two revisions with the same or different content, three operations in all (one that is cut short, one that finds what it left, one that removes or shares), two chunks (so that a resume starts in the middle), two attempts (so that a retry and a last attempt occur); any answer of the server, a kill at any step |
| `models_overlap` | (fails) what a verified look-up returns is the whole file | two processes, two operations that overlap |

The five failing runs are findings, described in `PROJECT.json`:

* `serve_deadline`: a start that runs out of its deadline clears the record
  without the lock, although another start has replaced its daemon meanwhile;
  the next start launches a second one.
* `sidecar_meta`: the metrics reconcile of a proxy's metadata writes back what it
  read before another start replaced the proxy; a third start then reuses a
  proxy of another configuration.
* `metrics_codex`: a streamed Responses request served by the local model is
  recorded by the adapter and by the router.
* `router_choice`: `tool_choice` and `parallel_tool_calls` are dropped on the way
  to a Chat Completions endpoint.
* `models_overlap`: two processes download the same file through one temporary
  file; one truncates or extends what the other has hashed and is renaming to
  its blob, and look-ups trust a blob by its name.

Run `models` lets operations on the cache begin one at a time (`Serial`),
because `models_overlap` shows what happens otherwise; a kill may still end one
anywhere and leave its files to the next. To keep the product small, commands
begin only until llama-server has been spawned; a cache without a daemon is the
same cache as next to a daemon that has not begun. `Resolved` lets the daemon find any
installation in which the version file names the wanted release only beside its
binary, which `RuntimeIsPinned` keeps: it assumes that releases move forward (the
hazard at `main.rs:1267`). llama-server survives a daemon that is killed, a signal
between spawning it and arming the handler, and a return for a missing router
key or CA path (`main.rs:684`); these are exits `killed` and `config`, which
`OrderlyExitStopsChild` leaves out. A failing write or removal of the sidecar,
which the code ignores, is not modelled.

**Fairness.** `serve_all` and `launch` check liveness under weak fairness of
each command and of the supervisor: they are processes the operating system
schedules, and each loop in the code has a deadline. `ServeLifecycle` adds strong
fairness of `Expire`: the readiness wait is measured by a clock, so a loop that
passes its deadline again and again leaves it. No fairness is assumed of crashes,
kills, answers or of a daemon that ignores SIGTERM; stop's SIGKILL ends it. The
core of the hybrid runtime is external; its contract, which its supervisor
relies on, is that it exits when told to or when its pipe closes.
`models` checks liveness under weak fairness of every client that is busy, of the
daemon's two tasks and of its watchdog thread; nothing is assumed of signals, of
llama-server or of a command that has not begun (requests have timeouts, waits
have deadlines).
Other runs check safety only and switch deadlock off because the commands and
requests of an instance end.

## 4. Proofs

Proved for any number of commands, any configurations, operations and faults
(assumption: `ServeAssumption`, the distinctness of the constants):

* `ServeTypeCorrect`, `SpawnsWhenVacant`, `RecordIsConsistent`,
  `ReconcileEditsOwn`, `ReuseIsRight` (`ServeRegistry_proofs`): the five
  invariants of run `serve_all`. None is inductive. `IInv` adds that a command in
  the locked window holds the lock; that nothing is recorded between the
  clearing and the record, since only the holder of the lock adds content and
  everyone else only removes it; that a meta names the configuration its owner
  was launched with; and that what a command read under the lock was, when read,
  a pid and its meta. From these, each step of each command is checked in
  `CommandInv`, each step of a daemon in `DaemonInv`.

Proved for any number of concurrent starts, with killed commands and crashing
daemons (assumption `StartsOnly`: no stop, no superseding launch, no deadline and
no failed record, which the runs above show to be necessary):

* `StartsKeepOneDaemon`, `StartsKeepTheRecord`, `StartsImplementRegistry`
  (`ServeRegistry_proofs`): two daemons never live together, a living one stays
  recorded with its meta, and `ServeLifecycle` implements `SingleDaemon`. The
  invariant `RInv` says that whoever lives is either recorded with its meta, or
  was spawned by the holder of the lock and is about to be; and that a command
  which is about to clear or to spawn has found the recorded process dead or has
  stopped it. Initial states and each step are mapped to `SingleDaemon` in
  `RefineInit` and the `Refine...` lemmas.

Proved for any number of commands and supervisors of the hybrid runtime, killed at
any step, with failing starts and any state that an earlier one left
(`HybridAssumption`):

* `SupervisorsExclude`, `FilesAreTruthful`, `OutcomesHold` (`LaunchCommands_proofs`).
  Two kinds of kill do harm in the code, and the history variables name them. A start
  that is killed between its spawn and supervisor.json leaves an orphan (`orphans`,
  section 5): exclusion, the truth of the files and what a stop
  reports are stated, and proved, as long as there is none. A supervisor that is
  killed itself, unrecorded or with nothing but its token left, leaves files that
  every command refuses for good (`unclean`): `NothingStranded` and
  `FailedStartLeavesNothing` leave out exactly its files.
  The invariant has two parts. `AlwaysInv` holds with orphans too: types, the
  commands exclude each other by the lock, who holds it and what a failed start has
  left. `KnownInv` holds until the first orphan, and orphans only ever grow
  (`OrphansGrow`), so each step may assume that there was none before it. It says
  that a command which clears or is about to spawn has no living supervisor around
  it, and one that has spawned, none but its own; and that the three files go in the
  order in which they are cleared. A supervisor
  that lives is recorded, or about to be, or on its way out with its token still
  there, which every command refuses. `LaunchHasOneSupervisor`,
  `LaunchFilesTruthful` and `LaunchOutcomesTrue` lift the
  three to `LaunchCommands`, the module of the run.

Proved for any number of users, commands, agents and catalogue models, over any
settings, and for any wishes whose models have a class (`LaunchAssumption`,
`NamesAssumption`; in `LaunchCommands_proofs`):

* `SettingsAreKept`, `OtherModesAreKept`, `MappingsAreKept`: `NothingLost`,
  `OtherModeKept` and `MappingKept`, three of the five parts of `ChoicesStand` and
  of `NothingLost`, which it includes. `KeptInv` says that each command is at a
  step of its job; that a command which is about to write holds the file as every
  write so far has made it, unless one fell in between; and what no command writes
  is the same in all of them. `ModeInv` and `MapInv` say what a command has made of
  the entry, or of the rows that it showed, that it read. Their hypothesis
  `AbsentIsNoRecord` says that the model values for an absent and for an unreadable
  file are no records, which TLA+ leaves open.
* `LaunchTypesHold`: `LaunchTypeOK`. `PlanInv` says that a machine stays the one it
  was but for its saved model and its configuration file, that a plan is of one of
  the kinds the branches of `Resolved` yield (each has a lemma), and that a daemon
  runs for a plan that needs one.
* `HostedTurnsGoWhereAsked`: `TurnsGoWhereAsked` while the plan is of the hosted
  plane. `HostedInv` says of such a plan which branch made it (`HostedPlan`: the
  allow list of agents is the one of the user's list unless a local model is offered
  too, the models are the ones that were chosen), that a running daemon serves this
  plan, and that the decision on a turn is the proxy's under it. The proof then
  splits on where the choice came from: a configuration file, a flag or the
  environment. `NamesAssumption` says what its names are: an absent
  model is no name, `id` is no type of agent, a model that a launch names has a class.

Proved for any configuration files, environment, starts, clients and answers of
the local router (`RouterAssumption`; in `LocalRouter_proofs`):

* `AnnouncedRequestsClose`: `AnnouncedIsClosed`, which leaves out the three returns of
  `KnownGap` (section 5). `CloseInv` says which requests can be announced at which
  step.
* `CredentialsAreKept`: `CredentialsStayHome`. `HomeInv` says that each message
  carries only what belongs to its destination, which rests on the endpoints that
  were loaded being declared ones (`Sound`).
* `DecisionsAreIntended`: for any files, the part of `RoutesAreIntended` that is
  about decisions (`OnlyNamedEndpoints`, `SubagentsFollowMain`, `SplitIsInEffect`,
  `AwayIsAvoided`). `RouteInv` says that the configuration is what the loading of
  its file gives and the decision one that `Select` makes of it. The loaded
  endpoints are a fold over the files' declarations; `FoldExists` proves by induction
  over a set of numbers what a fold from the left yields.
* `StreamsStayLegal`: `StreamIsLegal`, the refinement of `MessageStream` by
  `ChatToAnthropic`. It is proved of `StreamTranslation` (`WriterIsLegal` in
  `StreamTranslation_proofs`, with `StreamAssumption`) and lifted. Where a reader is
  after some events is a fold, `Position`; `PlaceOfNext` gives its value for one event
  more. `WriterInv` says that the text block which is open, if any, is the last one
  of the stream and `next_block_index` its successor; a step's events are then added
  one by one (`Adds`), the tool blocks of `finish` by induction over their number
  (`AddTools`).
* `AnswersEndTruly`: `DoneMeansComplete` and `ItemsPaired`, two of the three parts of
  `AnswerIsWhole`, proved of `StreamTranslation` in `StreamAnswers_proofs`
  (`DoneIsComplete`, `ItemsArePaired`) and lifted. Both need that an endpoint says
  nothing after the event that ends its stream, which follows from `Position` and is
  part of each invariant. `ChatInv` says that an open Chat answer has nothing but
  plain chunks behind its role, and a finished one the mark that fits what the endpoint
  said. `ResponseInv` says, for each index of the list, that it is added once, before
  its deltas, and done once, after them, with the item the list has there; the slot
  that the text has reserved is the one that is not done; and a slot is reserved
  exactly when there is text, a compaction apart. Each event is then followed through
  one `Append` (`ItemOpens`, `ItemGrows`, `ItemDone`, and `OthersKeep` for the rest).
* `RouterTypesHold`: `RouterTypeOK`. `TurnInv` says that a message heads for the
  adapter or for an endpoint of the configuration, which again rests on what the fold
  loads and on the catalogue being of endpoints (`CatalogueIsOfEndpoints`); `ToolInv`
  that what is sent of an ask is its translation. The types of the three translators
  are `StreamTypes` (`TypeInv` in `StreamTranslation_proofs`): blocks and calls within
  their bounds, the slot reserved for the text one of the items.
* `RoutesAreKept`: the whole of `RoutesAreIntended`, with what the catalogue offers.
  Its hypothesis `ReplacesDistinctly` says that a file in place of the built-in
  configuration names no endpoint twice. The router does not check that, and routes
  a catalogued model by its endpoint's id (`route_direct_model`, `lib.rs:2173`): of
  two endpoints with one id the first gets the models of both.

Proved for any number of requests, turns, proxies and any capacities
(`DaemonAssumption`; in `ProxyDaemon_proofs`):

* `DaemonTypesHold`: the types of the three parts, with the bounds of the credential
  cache, the finished records and the observers' queues.
* `CaStaysConsistent`: `CaConsistent`. `CaInv` says that a proxy goes on with a pair
  it has generated or found valid; and, while nobody has died, that the lock is
  held by the one that is between taking and dropping it and when the two files
  differ.
* `RequestsGoRight`: `RightUpstream`, from what `Prepare` makes of each shape.
* `TurnRecordsStayTrue`: `TurnRecordsAreTrue`. `TurnInv` adds that what the status
  file holds, or who holds its lock is writing, is of a turn routed since the file
  was cleared, or the file is about to be; that a callback is made where a turn ends
  and nowhere else; and that a redirected turn finds its key in the cache, unless
  as many others as that holds were redirected.
* `BooksAlwaysAgree`: `BooksAgree`. Every request is reported by at most two tasks,
  and each of them is somewhere between the registry's lock, the totals' lock and its
  end. The invariant says, per request, which of its two tasks can be where
  (`Pairs`), whether its row is open (`Rows`) and what has ended it (`Ends`), and what
  an observer still has to report of it (`Follows`, `Kept`). That a completed record has
  the last usage the endpoint reported is said of the responses that can be decoded as
  a whole; of the others (kind "opaque") the record keeps the estimate, or what an
  observer read until it gave up. The totals are sums over
  finite sets of records, up to the updates under way; an update that corrects one
  record is placed into the records one to one, so that the subtraction in
  `adjust_total` never saturates where it should not.

Proved for any number of profiles, routers, releases, accounts and commands
(`HostAssumption`; in `HostCommands_proofs`):

* `HostTypesHold`: the types of the four parts that `HostCommands` adds.
* `KeyStaysWithAccount`: `KeyIsOfAccount`. `AccountInv` says that what a command
  holds is of the account that is stored, unless it is marked stale.
* `RoutersKnown`: `RoutersAreKnown`. `GatewayInv` relates the recorded pid, instance
  and plist to the routers that live, at each step of a command.
* `SelectionSurvives`: `OriginalKept`. `ProfileInv` says, for each step at which a
  command on the profiles can be cut off, which of journal, library and mode has
  been written.
* `InstallsAreWhole`: `InstallIsWhole`. `InstallInv` adds to the types that of the
  runs that install only one is undisturbed, which files that one has written at
  each step, and which request is going to finish files that are of two releases. `VersionsAreOrdered` proves the order of
  versions for labels of any length: the comparison looks at the first difference.

Proved for any number of clients and revisions, any history of the file, any
number of chunks, attempts and operations (assumptions: `CacheAssumption`,
`LlamaAssumption`; in `ModelServing_proofs`):

* `EndsWithChild`, `StartsPinned`: the daemon's invariants `OrderlyExitStopsChild`
  and `RuntimeIsPinned`. `DInv` adds that the child is in its slot, or with the holder
  of the mutex that took it out, or dead; that nobody can stop anything before the
  spawn; and that the release is recorded after its binary and before a spawn.
* `ServingTypes`: `TypeOK` of the composition. What is hard is that a download always
  finds an inode for its temporary file. `CInv` counts: blobs are the files of
  revisions, but for one that the daemon may take without a checksum, and only a
  job that reads holds a descriptor.
* `LinksLead`: `LinksResolve`, under `Serial`. `LInv` adds that at most one client
  is busy and that a link is about to be made to a blob that exists; without
  `Serial` a removal can take the blob between its promotion and its link.
* `ResumesExactly`: `ResumeIsExact`, under `Serial`. `SInv` says that the temporary
  file is the beginning of the file that its sidecar names, that a job knows how
  much of it there is, and that a blob has the content its name says and is not
  written to. `LookUpsAreWhole` follows from it: `VerifiedIsComplete`, which run
  `models_overlap` refutes without `Serial`.

Only model-checked:

* liveness (`CommandsEnd`, `HybridEnds`, `WorkEnds`), which the prover cannot do;
* `ContentKept`, the third part of `AnswerIsWhole`, and `ToolsHonoured`: their
  definitions filter and sort sequences (`SelectSeq`, `SetToSortSeq`), about which
  the prover knows nothing: the first is a recursive definition of the standard
  module, what it computes is out of reach;
* `TurnsGoWhereAsked` of the local plane, whose lists of endpoints and routes are
  merged with folds and `SelectSeq` for every combination of the user's entries;
* `ChoiceStands`, `MarkerIsTrue` and `RemovedIsDeselected`, the other parts of
  `ChoicesStand`: they are about a whole command or launch, every combination of
  which TLC enumerates.

What the proofs found. Four properties held within the bounds of their runs and
not beyond: the attempt to prove them showed it, and larger runs then gave the
counterexamples. `LatestIsWhole` of `SelfUpdate` needed a fourth update (the
second of section 5's remarks on it); `RemovedIsDeselected` of `LocalSettings` a
third command; `FinalUsageKept` of `RequestMetrics` a request with two records and
a longer recent list; `TurnsGoWhereAsked` a main model that only a router has: the
proxy sends it there before it looks at the list of agents, and a model chosen
over a main that is left to the subscription is not used. The definitions say now
what is so, and hold with the larger bounds too. Two CASE expressions (`Respond`
of `RequestMetrics`, `After` of `MessageStream`) had guards that overlap: TLC took
the first, TLA+ does not say which; they are disjoint now. `RoutesAreKept` showed
what its hypothesis excludes.

## 5. Known gaps of the code

What the modelling met besides the findings. Each is excluded by a guard or a
history variable that is named in its module, or stated as the exception of the
property that would fail.

* Serve: stop removes the two files without the lock and may delete the meta of a
  daemon that is being recorded.
* Hybrid: a start killed between its spawn (`hybrid.rs:368`) and supervisor.json
  (370) leaves an orphan (`orphans`): it becomes ready and serves, while start and stop
  refuse its token and ready.json because they find no record of it, and before the
  token is there the next start spawns another supervisor, which shares its files.
  CHANGELOG.md:163 advises to run `stop`, or to stop the pid that supervisor.json
  names, which does not help there. A supervisor killed before it was
  recorded, or between removing ready.json and its token, leaves files that start
  and stop refuse until someone deletes them (`unclean`). A stale supervisor record
  whose pid was reused makes `hybrid start` refuse and `hybrid stop` fail while that
  process lives.
* Launch (`KnownGap` in `LaunchPlan`, what `TurnsGoWhereAsked` leaves out): a
  subagent whose type is not resolved in time counts as main, also in a selective
  launch when the chosen main model is one that only a router has; a main that is left
  to the subscription, without a route for subagents, sends them to the built-in
  local route even when there is no model; `codex --auth none` with such a main
  sends it to that route too; `router start --config` hands every turn to the
  hosted router when any route offers a local model; a saved provider adds its own
  route and the read-only agents to a file without them
  (docs/getting-started.md:517 says the file wins); `--auth subscription` adds no
  legacy route for `--model rayline-router`; `--local --route all` without a file
  ignores the saved mapping. Besides these, the `default` of a saved mapping is
  not used, an implicit local launch drops its list of agents, and two launches
  at once write the same derived file.
* Settings: there is no lock, so two commands that overlap between a read and its
  write lose an update (`crossed`); `remove` and `use` of one model, or two
  `remove`s of it, may cross and leave a selection without a file; a file that is not valid JSON is replaced by
  the next write with everything in it; `local clear` and `onboard --reset` drop
  the endpoints that another client saved (the comment at `local_model.rs:443`
  keeps them at every write); an endpoint that is returned to loses its provider
  and protocol; a wizard that ends with a server but no model name is recorded as
  done, and later launches do not ask again; a launch that adopts a model
  overrides a selection made during its catalogue fetch.
* Proxy sidecar: stop without a pid file removes both files without the lock; a
  forced restart stops before it takes the lock; a start spawns another proxy even
  when an unrecorded one that matches answers (`router.rs:2286`).
* Metrics: a Responses request without streaming that is translated to Messages is
  announced and never closed (kind "unary" of `RequestMetrics`);
  a compressed response that is too large to decode, has an encoding the proxy does
  not know, or is damaged, is completed with the estimate instead of the usage it
  reported (`rayline-proxy/src/lib.rs:1111`, 1687; kind "opaque"); an upstream that separates lines with CRLF makes the
  adapter book a finished turn as an error (`rayline-adapter/src/lib.rs:590`,
  against the comment at 1116); `response.incomplete` is an error too.
* Proxy and adapter: a client that hangs up while the handler waits consumes the
  stashed headers, and the placeholder stays open (`Abandon`); turns of one
  generation may write the status in either order; two holders after a stale-lock
  take-over can leave the certificate of one and the key of the other, which the
  next load notices and replaces.
* Router: three returns of `handle_responses` leave an announced request open
  (`KnownGap` in `RouterTurn`): an endpoint that is not found, a rejected redirect, and
  a Messages endpoint's answer that is translated whole (`lib.rs:4829`), while the
  comment at `tests/it_mock_upstream.rs:1272` asks for an announced request to be closed;
  a character
  that lies in two chunks of a Messages stream reaches a Responses client as U+FFFD,
  because each chunk is decoded on its own (`lib.rs:5083`, unlike 5879 and
  `chat_inbound.rs:1005`): `ContentKept` allows such a part to be broken and nothing
  else; `local-unavailable-fallback` may still lead to the local
  model when the main route is local; the Chat path strips the router's own token,
  the Responses passthrough and the models list do not; the built-in
  `model_routes` survive a file with its own main route; endpoints that share an id
  in a file in place of the built-in one get each other's models.
* Claude Desktop: a router killed between its spawn and the record of its pid keeps
  the ports, and every later start fails; a start cut off between the pid and the
  instance file leaves the old instance, so that a later start reuses a router of
  other settings (the history variable `broken` excludes it); a user who deletes
  the previous profile cannot turn Rayline off any more.
* Self-update: a run cut off behind the launcher is called the latest and never
  repaired; overlapping runs leave a mix, and so does one that decided before
  another run replaced the launcher; a migration that is cut off leaves `rayline` a
  binary and not a link, and the launcher it forwards to may be of an older
  release than the migration knows; a roll-back cut off after the core is
  called the latest; a core that cannot be removed stays; a legacy payload beside
  a newer launcher rolls it back at the next call.
* Accounts: a mint that overlaps a login stores the old account's key under the
  new one; a refresh that ends after a sign-out restores the login; a legacy
  refresh writes back a stale copy; a device login approved during the last sleep
  is reported as timed out; a browser connection that closes before it sends its
  headers ends the callback login.

## 6. Not modelled, and the plan

Left out for good: TLS, HTTP and SSE framing; the agents, endpoints and cloud
services (external, modelled by what they may send); argument parsing and
printing; text merges of other tools' configuration files; release scripts
and examples. Lengths of tool names and the cutting to their limit are not
modelled (`ToolTranslation` keeps names apart by construction of the suffix).

What could still be proved: the local plane of `TurnsGoWhereAsked`.
