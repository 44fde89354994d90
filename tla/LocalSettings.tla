---------------------------- MODULE LocalSettings ----------------------------
(***************************************************************************)
(* settings.json, which every `local` command, the first-run wizard, the   *)
(* picker of subagents and a launch read, change and write without a lock  *)
(* (crates/rayline-cli/src: local_model.rs, onboarding.rs, discover.rs,    *)
(* catalog.rs, claude.rs).                                                 *)
(*                                                                         *)
(* The file is [entry, marker, routes, other]: the local model, how the    *)
(* wizard ended, the targets of the subagents, and what no command here    *)
(* writes.  A configuration is [mode, provider, url, model, pick, whole];  *)
(* `pick` stands for the catalog model's names, `whole` says that revision *)
(* and digest are among them, a provider brings its protocol along, and an *)
(* entry adds `saved`, the endpoints that another client keeps.            *)
(*                                                                         *)
(* A command is a sequence of jobs.  One that writes reads first what it   *)
(* changes and once more what it merges the change into.                   *)
(***************************************************************************)
EXTENDS Naturals, Sequences, FiniteSets, Functions

CONSTANTS
  Users, Second,  \* who runs commands, and which of them never the first
  Seconds,        \* how a command begins that is not the first: <<job, model>>
  Catalog,        \* the curated models, the better ones first
  Typed,          \* what users type as their own server: [url, model]
  Providers,      \* the models of local servers: [provider, url, model]
  Starts,         \* what there may be at first: [settings, legacy, have]
  Agents,         \* the names of subagents,
  Histories,      \* the sets of them that a scan may find,
  Anchored,       \* those that run locally by default
  ReadOnly,       \* and those whose tools change nothing
  MaxCommands,
  None, Broken

VARIABLES
  settings, legacy,   \* the file, and the one that older versions wrote
  have,               \* the models in the cache, whole and verified
  derived,            \* the mapping that the proxy's routes were made from
  command,            \* what each user runs, None for nothing
  given,              \* the commands so far
  crossed,            \* a write, or a removal, fell between another command's steps
  expected,           \* the file, had every job read and written in one go
  chosen              \* the configuration a user last asked for

settingsVars ==
  <<settings, legacy, have, derived, command, given, crossed, expected, chosen>>

Models == {Catalog[i] : i \in DOMAIN Catalog}
Sections == {"entry", "marker", "routes"}
Empty == [entry |-> None, marker |-> None, routes |-> None, other |-> None]

(* What cannot be read counts as absent, and is replaced by a write.       *)
Read == LET f == IF settings = None THEN legacy ELSE settings
        IN IF f = Broken THEN None ELSE f
Base(f) == IF f = None THEN Empty ELSE f
IsFile(f) ==
  f = [entry |-> f.entry, marker |-> f.marker, routes |-> f.routes, other |-> f.other]

Blank == [mode |-> "custom", provider |-> None, url |-> None, model |-> None,
          pick |-> None, whole |-> FALSE]
ModeOf(e) ==
  CASE e.mode \in {"recommended", "auto"} -> "recommended"
    [] e.mode = "custom" -> "custom"
    [] OTHER -> IF e.url # None THEN "custom" ELSE "recommended"

(* The configuration in a file, and the endpoints it counts as added.      *)
Config(f) ==
  IF Base(f).entry = None THEN None
  ELSE [k \in DOMAIN Blank |-> IF k = "mode" THEN ModeOf(f.entry) ELSE f.entry[k]]
Active(c) == IF c.url # None /\ c.model # None THEN {<<c.url, c.model>>} ELSE {}
Endpoints(f) == IF Config(f) = None THEN {} ELSE f.entry.saved \cup Active(f.entry)

HasPick(c) == c.pick # None /\ c.whole
Engageable(c) ==
  /\ c # None
  /\ IF c.mode = "recommended" THEN HasPick(c) ELSE Active(c) # {}

Best(models) == Catalog[CHOOSE i \in DOMAIN Catalog :
                  Catalog[i] \in models /\ \A j \in 1..(i - 1) : Catalog[j] \notin models]

-----------------------------------------------------------------------------
(* The jobs.  An `auto` one selects what the user did not ask for.         *)
Do(what) == [do |-> what, model |-> None, url |-> None, provider |-> None, auto |-> FALSE]
With(what, m) == [Do(what) EXCEPT !.model = m]
Select(m)   == With("select", m)
Custom(t)   == [With("custom", t.model) EXCEPT !.url = t.url]
Activate(e) == [With("activate", e[2]) EXCEPT !.url = e[1]]
Provider(p) == [With("provider", p.model) EXCEPT !.url = p.url, !.provider = p.provider]
ByItself(job) == [job EXCEPT !.auto = TRUE]

Use(m) == <<With("download", m), Select(m)>>
AllCommands ==
  {Use(m) : m \in Models}
  \cup {<<Provider(p)>> : p \in Providers}
  \cup {<<Custom(t)>> : t \in Typed}
  \cup {<<With("download", m), With("sole download", m)>> : m \in Models}
  \cup {<<With("delete", m), With("unselect", m), With("sole", m)>> : m \in Models}
  \cup {<<Do("clear")>>, <<Do("wizard")>>, <<Do("clear"), Do("wizard")>>, <<Do("map")>>}
  \cup {<<Do(launch)>> : launch \in {"adopt", "built-in", "ensure", "ensure alone"}}

(* What the wizard goes on to do: its recommendation or another model, the *)
(* user's own server, or nothing.                                          *)
Ended(outcome) == <<With("marker", outcome), Do("offer")>>
WizardChoices ==
  {Use(m) \o Ended("local_model") : m \in Models}
  \cup {<<Provider(p)>> \o Ended("local_model") : p \in Providers}
  \cup {<<Custom(t)>> \o Ended("custom_endpoint") : t \in {t \in Typed : None \notin {t.url, t.model}}}
  \cup {<<With("marker", "skipped")>>}

(* Whether a launch asks: not when it was answered before.                 *)
Asks(marker) == marker \in {None, "older", "skipped"}

ChangedAfresh(job, c) ==
  IF job.do = "select"
  THEN [Blank EXCEPT !.mode = "recommended", !.provider = "llamacpp", !.pick = job.model,
                     !.whole = TRUE]
  ELSE IF job.do = "unpick" THEN [c EXCEPT !.pick = None, !.whole = FALSE]
  ELSE [Blank EXCEPT !.provider = job.provider, !.url = job.url, !.model = job.model]
(* The configuration that a job makes out of the one it found.             *)
Changed(job, c) ==
  LET kept == IF c = None THEN Blank ELSE c
  IN CASE job.do = "select" ->
            [kept EXCEPT !.mode = "recommended", !.provider = "llamacpp", !.pick = job.model,
                         !.whole = TRUE]
       [] job.do \in {"custom", "activate"} ->
            [kept EXCEPT !.mode = "custom", !.provider = None,
                         !.url = IF job.url = None THEN @ ELSE job.url,
                         !.model = IF job.model = None THEN @
                                   ELSE IF job.model = "" THEN None ELSE job.model]
       [] job.do = "provider" ->
            [kept EXCEPT !.mode = "custom", !.provider = job.provider, !.url = job.url,
                         !.model = job.model]
       [] job.do = "unpick" -> [kept EXCEPT !.pick = None, !.whole = FALSE]

ConfigJobs == {"select", "custom", "activate", "provider", "unpick"}
Makes(job, c) ==
  CASE job.do = "custom" -> IF job.url = None THEN c # None /\ c.url # None ELSE job.url # ""
    [] job.do = "unpick" -> c # None
    [] OTHER -> TRUE

SectionOf(job) == CASE job.do \in ConfigJobs \cup {"clear"} -> "entry"
                    [] job.do = "marker" -> "marker"
                    [] job.do = "routes" -> "routes"

(* The file a job makes out of another: its own section is replaced, and   *)
(* of the entry only what is managed here.                                 *)
Entry(c, saved) == [k \in DOMAIN c \cup {"saved"} |-> IF k = "saved" THEN saved ELSE c[k]]
Applied(f, job, new) ==
  CASE job.do \in ConfigJobs ->
         [Base(f) EXCEPT !.entry = Entry(new, IF @ = None THEN {} ELSE @.saved)]
    [] job.do = "clear"  -> [f EXCEPT !.entry = None]
    [] job.do = "marker" -> [Base(f) EXCEPT !.marker = job.model]
    [] job.do = "routes" -> [Base(f) EXCEPT !.routes = new]

-----------------------------------------------------------------------------
(* The mapping of subagents: a default, and the exceptions to it.  Next to *)
(* these two targets there are endpoints, <<url, model>>.                  *)
Cloud == <<"cloud">>
Local == <<"local">>
Effective(mapping, a) ==
  IF a \in DOMAIN mapping.routes THEN mapping.routes[a] ELSE mapping.default
DefaultOf(mapping) == IF mapping = None THEN Cloud ELSE mapping.default
DefaultTarget(a) == IF a \in Anchored \cup ReadOnly THEN Local ELSE Cloud

RowsShown(found, mapping) ==
  [a \in found \cup Anchored |->
     IF mapping = None THEN DefaultTarget(a) ELSE Effective(mapping, a)]
Rows(found, mapping) ==
  LET decided == IF mapping = None THEN {} ELSE DOMAIN mapping.routes
  IN [a \in found \cup Anchored \cup decided |->
        IF mapping = None THEN DefaultTarget(a) ELSE Effective(mapping, a)]

(* In custom mode the active endpoint is what "local" means.               *)
Menu(f) ==
  {Cloud, Local} \cup
    (Endpoints(f) \ (IF Config(f) # None /\ Config(f).mode = "custom"
                     THEN Active(Config(f)) ELSE {}))

Compact(default, rows) ==
  [default |-> default, routes |-> Restrict(rows, {a \in DOMAIN rows : rows[a] # default})]

-----------------------------------------------------------------------------
Job(u) == Head(command[u].todo)
Doing(u, at, jobs) == command[u] # None /\ command[u].at = at /\ Job(u).do \in jobs
Running(todo, open) ==
  IF todo = <<>> THEN None
  ELSE [todo |-> todo, at |-> "start", new |-> None, snapshot |-> None, open |-> open,
        edit |-> None]
GoOn(u, jobs, open) ==
  command' = [command EXCEPT ![u] = Running(jobs \o Tail(@.todo), open)]
End(u) == command' = [command EXCEPT ![u] = None]

SettingsInit ==
  /\ \E s \in Starts : settings = s.settings /\ legacy = s.legacy /\ have = s.have
  /\ derived = Base(Read).routes
  /\ command = [u \in Users |-> None]
  /\ given = 0
  /\ crossed = FALSE
  /\ expected = Base(Read)
  /\ chosen = Config(Read)

Begin(u) ==
  /\ command[u] = None /\ given < MaxCommands
  /\ given' = given + 1
  /\ \E c \in AllCommands :
       /\ (given = 0 /\ u # Second) \/ <<Head(c).do, Head(c).model>> \in Seconds
       /\ command' = [command EXCEPT ![u] = Running(c, {})]
  /\ UNCHANGED <<settings, legacy, have, derived, crossed, expected, chosen>>

Download(u) ==
  /\ Doing(u, "start", {"download"})
  /\ have' = have \cup {Job(u).model}
  /\ GoOn(u, <<>>, {})
  /\ UNCHANGED <<settings, legacy, derived, given, crossed, expected, chosen>>

(* A command that is about to select the model has just found it there, or *)
(* removes it too.                                                         *)
Delete(u) ==
  /\ Doing(u, "start", {"delete"})
  /\ LET m == Job(u).model
     IN /\ IF m \in have THEN GoOn(u, <<>>, {}) ELSE End(u)
        /\ have' = have \ {m}
        /\ crossed' = (crossed \/ \E v \in Users \ {u} :
                          /\ command[v] # None
                          /\ \/ Job(v).do = "select" /\ Job(v).model = m
                             \/ With("sole", m) \in Range(command[v].todo))
        /\ chosen' = IF Config(Read) # None /\ chosen # None /\ chosen.pick = m
                     THEN None ELSE chosen
  /\ UNCHANGED <<settings, legacy, derived, given, expected>>

Wizard(u) ==
  /\ Doing(u, "start", {"wizard"})
  /\ \E c \in WizardChoices : GoOn(u, c, {})
  /\ UNCHANGED <<settings, legacy, have, derived, given, crossed, expected, chosen>>

Offer(u) ==
  /\ Doing(u, "start", {"offer"})
  /\ \E answer \in {<<>>, <<Do("map")>>} : GoOn(u, answer, {})
  /\ UNCHANGED <<settings, legacy, have, derived, given, crossed, expected, chosen>>

Deciding ==
  {"sole download", "unselect", "sole", "adopt", "built-in", "ensure", "ensure alone", "ready"}
Look(u) ==
  /\ Doing(u, "start", Deciding)
  /\ command' = [command EXCEPT ![u].at = "scan", ![u].snapshot = Read, ![u].open = {"entry"}]
  /\ UNCHANGED <<settings, legacy, have, derived, given, crossed, expected, chosen>>

LoneOfMany(models, endpoints) ==
  IF models # {} THEN <<ByItself(Select(Best(models)))>>
  ELSE IF Cardinality(endpoints) = 1
       THEN <<ByItself(Activate(CHOOSE e \in endpoints : TRUE))>>
       ELSE <<>>
Lone(models, endpoints) ==
  IF Cardinality(models) = 1 /\ endpoints = {} THEN <<ByItself(Select(Best(models)))>>
  ELSE IF models = {} /\ Cardinality(endpoints) = 1
       THEN <<ByItself(Activate(CHOOSE e \in endpoints : TRUE))>>
       ELSE <<>>

(* What follows from the file as it was read and from the cache as it is.  *)
Decision(job, f) ==
  LET c == Config(f)
  IN CASE job.do = "sole download" ->
            IF have = {job.model} /\ Endpoints(f) = {}
            THEN <<ByItself(Select(job.model))>> ELSE <<>>
       [] job.do = "unselect" ->
            IF c # None /\ c.pick = job.model THEN <<Do("unpick")>> ELSE <<>>
       [] job.do = "sole" -> IF Engageable(c) THEN <<>> ELSE Lone(have, Endpoints(f))
       [] job.do = "adopt" ->
            IF c = None \/ c.mode = "custom" \/ HasPick(c) THEN <<>>
            ELSE IF have # {} THEN <<ByItself(Select(Best(have)))>>
                 ELSE Lone({}, Endpoints(f))
       [] job.do = "built-in" ->
            IF (c # None /\ HasPick(c)) \/ have = {} THEN <<>> ELSE <<Select(Best(have))>>
       [] job.do \in {"ensure", "ensure alone", "ready"} ->
            IF Engageable(c) THEN <<Do("derive")>>
            ELSE IF job.do = "ensure" /\ Asks(Base(Read).marker)
                 THEN <<Do("wizard"), Do("ready")>> ELSE <<>>

Decide(u) ==
  /\ Doing(u, "scan", Deciding)
  /\ LET jobs == Decision(Job(u), command[u].snapshot)
     IN GoOn(u, jobs, IF \E i \in DOMAIN jobs : jobs[i].do \in ConfigJobs THEN {"entry"} ELSE {})
  /\ UNCHANGED <<settings, legacy, have, derived, given, crossed, expected, chosen>>

(* The picker shows what was decided before next to what it finds.  One    *)
(* row goes from target to target, or all of them to one.                  *)
Map(u) ==
  /\ Doing(u, "start", {"map"})
  /\ \E found \in Histories :
       command' = [command EXCEPT ![u].at = "rows", ![u].snapshot = Read,
                     ![u].new = Rows(found, Base(Read).routes), ![u].open = {"routes"}]
  /\ UNCHANGED <<settings, legacy, have, derived, given, crossed, expected, chosen>>

Save(u) ==
  /\ Doing(u, "rows", {"map"})
  /\ LET before == Base(command[u].snapshot).routes
         rows   == command[u].new
     IN \E touched \in {DOMAIN rows} \cup {{a} : a \in DOMAIN rows}, target \in Menu(command[u].snapshot) :
          command' = [command EXCEPT ![u] =
            [Running(<<Do("routes"), Do("derive")>> \o Tail(@.todo), {"routes"}) EXCEPT
               !.at = "merge",
               !.edit = [agents |-> touched, target |-> target, before |-> before],
               !.new = Compact(DefaultOf(before),
                               [a \in DOMAIN rows |-> IF a \in touched THEN target ELSE rows[a]])]]
  /\ UNCHANGED <<settings, legacy, have, derived, given, crossed, expected, chosen>>

ReadFirst(u) ==
  /\ Doing(u, "start", ConfigJobs)
  /\ IF Makes(Job(u), Config(Read))
     THEN command' = [command EXCEPT ![u].at = "merge", ![u].open = {"entry"},
                        ![u].snapshot = Read, ![u].new = Changed(Job(u), Config(Read))]
     ELSE IF Job(u).do = "custom" THEN End(u) ELSE GoOn(u, <<>>, {})
  /\ UNCHANGED <<settings, legacy, have, derived, given, crossed, expected, chosen>>

ReadOnce(u) ==
  /\ \/ Doing(u, "merge", ConfigJobs \cup {"routes"})
     \/ Doing(u, "start", {"clear", "marker"})
  /\ IF Job(u).do = "clear" /\ Base(Read).entry = None
     THEN GoOn(u, <<>>, {})
     ELSE command' = [command EXCEPT ![u].at = "write",
                        ![u].snapshot = IF command[u].at = "merge" THEN @ ELSE Read]
  /\ UNCHANGED <<settings, legacy, have, derived, given, crossed, expected, chosen>>
ReadAgain(u) ==
  /\ \/ Doing(u, "merge", ConfigJobs \cup {"routes"})
     \/ Doing(u, "start", {"clear", "marker"})
  /\ IF Job(u).do = "clear" /\ Base(Read).entry = None
     THEN GoOn(u, <<>>, {})
     ELSE command' = [command EXCEPT ![u].at = "write", ![u].snapshot = Read,
                        ![u].open = Sections]
  /\ UNCHANGED <<settings, legacy, have, derived, given, crossed, expected, chosen>>

Write(u) ==
  /\ Doing(u, "write", ConfigJobs \cup {"clear", "marker", "routes"})
  /\ LET job == Job(u)
         new == command[u].new
     IN /\ settings' = Applied(command[u].snapshot, job, new)
        /\ expected' = Applied(expected, job, new)
        /\ crossed' = (crossed \/ \E v \in Users \ {u} :
                          command[v] # None /\ SectionOf(job) \in command[v].open)
        /\ chosen' = IF job.do = "clear" THEN None
                     ELSE IF job.do \in ConfigJobs \ {"unpick"} /\ ~job.auto THEN new
                     ELSE chosen
  /\ GoOn(u, <<>>, {})
  /\ UNCHANGED <<legacy, have, derived, given>>

(* The proxy's routes are made from the mapping; without one, from the     *)
(* agents that run locally by default.                                     *)
Derive(u) ==
  /\ Doing(u, "start", {"derive"})
  /\ derived' = Base(Read).routes
  /\ GoOn(u, <<>>, {})
  /\ UNCHANGED <<settings, legacy, have, given, crossed, expected, chosen>>

(* A command is interrupted, or a download, a prompt or a write fails.     *)
Quit(u) ==
  /\ command[u] # None
  /\ End(u)
  /\ UNCHANGED <<settings, legacy, have, derived, given, crossed, expected, chosen>>

SettingsNext ==
  \E u \in Users :
    \/ Begin(u) \/ Download(u) \/ Delete(u) \/ Wizard(u) \/ Offer(u) \/ Look(u) \/ Decide(u)
    \/ Map(u) \/ Save(u) \/ ReadFirst(u) \/ ReadAgain(u) \/ Write(u) \/ Derive(u) \/ Quit(u)

-----------------------------------------------------------------------------
(* Type correctness of the settings' state.                                *)
SettingsTypeOK ==
  /\ have \subseteq Models
  /\ given \in 0..MaxCommands
  /\ \A u \in Users : command[u] # None =>
       /\ command[u].at \in {"start", "scan", "rows", "merge", "write"}
       /\ command[u].open \subseteq Sections

(* Unless two commands write over each other, the file holds what each of  *)
(* them wrote; what none of them owns, it holds in any case                *)
(* (write_in_home, write_onboarding_in_home, write_subagent_routes_in_home).*)
NothingLost ==
  /\ ~crossed => Base(Read) = expected
  /\ Base(Read).other = expected.other

Writing(u) == command[u] # None /\ command[u].at = "write" /\ settings' # settings /\ ~crossed'
Serves(c) == IF c.mode = "recommended" THEN <<c.pick>> ELSE <<c.url, c.model, c.provider>>
Usable(c) == Engageable(c) /\ (c.mode = "recommended" => c.pick \in have)

(* What is selected without being asked for never replaces a selection of  *)
(* the user that can be served (auto_select_if_sole_model,                 *)
(* ensure_sole_added_model_selected, resolve_engageable_local_config).     *)
ChoiceStands(u) ==
  Writing(u) /\ Job(u).auto => ~Usable(chosen) \/ Serves(Config(settings')) = Serves(chosen)

(* To select a catalog model and to go back to one's own server keep what  *)
(* the other one was (local_model.rs: each set is retained).               *)
OtherModeKept(u) ==
  Writing(u) /\ Job(u).do \in ConfigJobs \ {"unpick"} /\ Config(Read) # None =>
    IF Job(u).do = "select"
    THEN Active(Config(settings')) = Active(Config(Read))
    ELSE Config(settings').pick = Config(Read).pick

(* That the wizard is done is noted when there is something to launch with *)
(* (run_wizard), except for a server whose model was left out, or when     *)
(* another command has taken it away meanwhile.                            *)
MarkerIsTrue(u) ==
  Writing(u) /\ given = 1 /\ Job(u).do = "marker" /\ Job(u).model # "skipped" =>
    /\ Config(Read) # None
    /\ Engageable(Config(Read)) \/ (Config(Read).url # None /\ Job(u).model = "custom_endpoint")

(* When `remove` looks for another selection, none names the file that it  *)
(* has removed, unless it is back (remove_command).                        *)
RemovedIsDeselected(u) ==
  Doing(u, "scan", {"sole"}) /\ ~crossed /\ Config(command[u].snapshot) # None =>
    Config(command[u].snapshot).pick # Job(u).model \/ Job(u).model \in have

(* An agent that was not touched in the picker keeps its target, shown or  *)
(* not, and a touched one gets the one that was picked (build_rows,        *)
(* compact, effective); the proxy's routes follow (run_picker).            *)
MappingKept(u) ==
  /\ Writing(u) /\ Job(u).do = "routes" =>
       LET edit == command[u].edit
       IN \A a \in Agents :
            Effective(settings'.routes, a) =
              IF a \in edit.agents THEN edit.target
              ELSE IF edit.before # None THEN Effective(edit.before, a)
              ELSE IF a \in Anchored \/ a \in DOMAIN settings'.routes.routes
                   THEN DefaultTarget(a) ELSE Cloud
  /\ Doing(u, "start", {"derive"}) /\ derived' # derived => derived' = Base(Read).routes
=============================================================================
