--------------------------- MODULE LaunchCommands ---------------------------
(***************************************************************************)
(* The commands that start something for a client, and those that prepare  *)
(* it: the hybrid runtime (HybridRuntime), a launch of Claude Code or      *)
(* Codex (LaunchPlan) and the commands over settings.json (LocalSettings). *)
(* A launch reads the settings once, so a behaviour follows one of them.   *)
(***************************************************************************)
EXTENDS HybridRuntime

CONSTANTS
  Parts,                                           \* those a behaviour may follow
  Wishes, Again, Machines, Turns, Defaults,        \* LaunchPlan
  LocalModel, FoldOf, ClassOf, Nothing, ReadOnly,
  Users, Second, Seconds, Catalog, Typed, Providers,   \* LocalSettings
  Starts, Agents, Histories, Readers, MaxCommands, Broken

VARIABLES
  part,
  machine, wish, plan, running, config, request, decision, phase,
  settings, legacy, have, derived, command, given, crossed, expected, chosen

L == INSTANCE LaunchPlan
LS == INSTANCE LocalSettings WITH Anchored <- ReadOnly, ReadOnly <- Readers

ASSUME LaunchAssumption ==
  /\ Parts \subseteq {"hybrid", "plan", "settings"}
  /\ Again \subseteq Wishes
  /\ MaxCommands \in Nat /\ Second \in Users
  /\ \A s \in Starts :
       /\ \A f \in {s.settings, s.legacy} : f \in {None, Broken} \/ LS!IsFile(f)
       /\ s.have \subseteq LS!Models
  /\ Nothing \notin Wishes
  /\ \A w \in Wishes : /\ w.route \in {Nothing, "all", "selective"}
                      /\ w.provider \in {Nothing, "ollama", "llamacpp"}
  /\ \A m \in Machines :
       /\ m = [saved |-> m.saved, downloaded |-> m.downloaded, listed |-> m.listed,
               mapping |-> m.mapping, router |-> m.router, account |-> m.account]
       /\ LET s == m.saved
          IN s # Nothing => /\ s = [mode |-> s.mode, pick |-> s.pick, custom |-> s.custom,
                                   provider |-> s.provider, kept |-> s.kept]
                            /\ s.mode \in {"recommended", "custom"}

(* What a launch and its turns may name has a class, with Claude Code's    *)
(* own models among those of Anthropic; the id of an agent is no name of a *)
(* type, and what is absent is no name.                                    *)
ASSUME NamesAssumption ==
  /\ Nothing \notin DOMAIN ClassOf \cup {"id"}
  /\ {L!Sage, L!Swift, L!OwnModel, "claude-haiku", L!R!Virtual} \subseteq DOMAIN ClassOf
  /\ ClassOf[L!OwnModel] = "claude" /\ ClassOf["claude-haiku"] = "claude"
  /\ \A t \in Turns : t.who \in {"main", "background", "agent"}
  /\ \A w \in Wishes :
       /\ w.tool \in {"claude", "codex", "start claude", "start codex"}
       /\ {w.model, w.env} \subseteq {Nothing} \cup DOMAIN ClassOf
       /\ \A c \in {w.config, w.allowlist} \ {Nothing} : "id" \notin L!Names(c)
       /\ w.config # Nothing =>
            {L!ModelOf(w.config.routes.main), L!ModelOf(w.config.routes.subagent)}
              \subseteq {Nothing} \cup DOMAIN ClassOf

planVars == <<machine, wish, plan, running, config, request, decision, phase>>
settingsVars ==
  <<settings, legacy, have, derived, command, given, crossed, expected, chosen>>
launchVars == <<part, vars, planVars, settingsVars>>

(* The parts that a behaviour does not follow start in one state.          *)
LaunchInit ==
  /\ part \in Parts
  /\ Init /\ L!PlanInit /\ LS!SettingsInit
  /\ part # "hybrid" =>
       /\ op = [l \in Launchers |-> "stop"]
       /\ supFile = None /\ tokenFile = None /\ readyFile = None
  /\ part # "plan" => machine = CHOOSE m \in Machines : TRUE
  /\ part # "settings" =>
       [settings |-> settings, legacy |-> legacy, have |-> have] = CHOOSE s \in Starts : TRUE

LaunchNext ==
  /\ UNCHANGED part
  /\ \/ part = "hybrid" /\ Next /\ UNCHANGED <<planVars, settingsVars>>
     \/ part = "plan" /\ L!PlanNext /\ UNCHANGED <<vars, settingsVars>>
     \/ part = "settings" /\ LS!SettingsNext /\ UNCHANGED <<vars, planVars>>

LaunchFairness ==
  /\ \A l \in Launchers : WF_vars(part = "hybrid" /\ Command(l))
  /\ \A s \in Sups : WF_vars(part = "hybrid" /\ (Supervisor(s) \/ CoreEnds(s)))

LaunchSpec == LaunchInit /\ [][LaunchNext]_launchVars /\ LaunchFairness

-----------------------------------------------------------------------------
(* Type correctness of the parts.                                          *)
LaunchTypeOK == TypeOK /\ (part = "plan" => L!PlanTypeOK) /\ LS!SettingsTypeOK

(* See HybridRuntime.                                                      *)
HybridEnds == part = "hybrid" => EverythingEnds

(* See LaunchPlan: through the files that are derived, the daemon that is  *)
(* used again, the proxy and the router, every turn ends where the user's  *)
(* file, flags or saved choice said, and what serves it is there.          *)
TurnsGoWhereAsked == L!TurnsGoWhereAsked

(* See LocalSettings: no command undoes what another has written, what is  *)
(* selected without being asked for gives way to what a user selected, and *)
(* what is set aside is still there when it is wanted.                     *)
ChoicesStand ==
  /\ []LS!NothingLost
  /\ [][\A u \in Users :
          LS!ChoiceStands(u) /\ LS!OtherModeKept(u) /\ LS!MarkerIsTrue(u)
            /\ LS!RemovedIsDeselected(u) /\ LS!MappingKept(u)]_launchVars
=============================================================================
