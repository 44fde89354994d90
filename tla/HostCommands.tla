---------------------------- MODULE HostCommands ----------------------------
(***************************************************************************)
(* The commands that keep a record on the machine and reconcile it with    *)
(* what runs there.  The records of one are not touched by another, so a   *)
(* behaviour follows one of them:                                          *)
(*   "sidecar"  the standalone proxy         (ProxySidecar)                *)
(*   "profile"  Claude Desktop's selection   (DesktopProfile)              *)
(*   "gateway"  the router behind Desktop    (DesktopGateway)              *)
(*   "update"   the installed binaries       (SelfUpdate)                  *)
(*   "account"  the login and its router key (AccountStore)                *)
(***************************************************************************)
EXTENDS ProxySidecar

CONSTANTS
  Parts,                                  \* those a behaviour may follow
  Profiles, Default, Own, Settings,       \* DesktopProfile
  Arguments, Keys, MaxRouters,            \* DesktopGateway
  Releases, VersionOf, FirstCore,         \* SelfUpdate
  MaxUpdates, Versions,                   \* ... and the versions that are compared
  Accounts, MaxCommands,                  \* AccountStore
  NoValue

VARIABLES
  part,
  library, mode, profiles, saved, journal, command, desired, touched, original,
  router, recorded, instance, plist, loaded, agent, key, step, ask, current, broken, lost,
  files, alias, update, started, left,
  kind, login, stored, call, begun, mixed

P == INSTANCE DesktopProfile
G == INSTANCE DesktopGateway WITH NoSetting <- NoValue
U == INSTANCE SelfUpdate WITH Updaters <- Launchers
A == INSTANCE AccountStore WITH Callers <- Launchers, Absent <- NoValue

ASSUME HostAssumption ==
  /\ Parts \subseteq {"sidecar", "profile", "gateway", "update", "account"}
  /\ Default \in Profiles /\ Own \notin Profiles
  /\ NoValue \notin Profiles \cup Settings \cup Arguments \cup Accounts \cup {Own}
  /\ NoValue \notin P!Selections \cup P!Libraries \cup P!Journals
  /\ NoValue \notin G!AllSettings \cup A!Login \cup A!Key
  /\ MaxRouters \in Nat /\ MaxCommands \in Nat
  /\ 0 \notin Releases
  /\ \A v \in Versions : U!IsVersion(v)

profileVars == <<library, mode, profiles, saved, journal, command, desired, touched, original>>
gatewayVars == <<router, recorded, instance, plist, loaded, agent, key, step, ask, current,
                 broken, lost>>
installVars == <<files, alias, update, started, left>>
accountVars == <<kind, login, stored, call, begun, mixed>>
allVars == <<part, vars, profileVars, gatewayVars, installVars, accountVars>>

(* The parts that a behaviour does not follow start in one state.          *)
HostInit ==
  /\ part \in Parts
  /\ Init /\ P!Init /\ G!Init /\ U!Init /\ A!Init
  /\ part # "sidecar" =>
       /\ op = [l \in Launchers |-> "stop"]
       /\ want = [l \in Launchers |-> PriorConfig]
       /\ pidFile = None
  /\ part # "profile" => library = NoValue /\ mode = NoValue /\ profiles = {Default}
  /\ part # "gateway" => recorded = 0 /\ key = CHOOSE k \in Keys : TRUE
  /\ part # "update" => alias = 0 /\ files["launcher"] = 1
  /\ part # "account" => kind = "session"

HostNext ==
  /\ UNCHANGED part
  /\ \/ /\ part = "sidecar" /\ SidecarNext
        /\ UNCHANGED <<profileVars, gatewayVars, installVars, accountVars>>
     \/ /\ part = "profile" /\ P!Next
        /\ UNCHANGED <<vars, gatewayVars, installVars, accountVars>>
     \/ /\ part = "gateway" /\ G!Next
        /\ UNCHANGED <<vars, profileVars, installVars, accountVars>>
     \/ /\ part = "update" /\ U!UpdateNext
        /\ UNCHANGED <<vars, profileVars, gatewayVars, accountVars>>
     \/ /\ part = "account" /\ A!AccountNext
        /\ UNCHANGED <<vars, profileVars, gatewayVars, installVars>>

HostSpec == HostInit /\ [][HostNext]_allVars

-----------------------------------------------------------------------------
(* Type correctness of the parts.                                          *)
HostTypeOK ==
  /\ part = "profile" => P!TypeOK
  /\ part = "gateway" => G!TypeOK
  /\ part = "update" => U!UpdateTypeOK
  /\ part = "account" => A!AccountTypeOK

(* See DesktopProfile: what the user had selected survives every cut,      *)
(* every cut can be undone, and a later choice of the user is not          *)
(* overwritten.                                                            *)
OriginalKept ==
  /\ [](P!OriginalKept /\ P!AlwaysRecoverable)
  /\ [][P!Command => P!ReplacesOwn]_allVars

(* See DesktopGateway: a router that is reused has the settings that were  *)
(* asked for, and every router that runs can be stopped.                   *)
RoutersAreKnown == G!ReusedIsCurrent /\ G!NoneForgotten

(* See SelfUpdate: what is called updated or the latest is one release,    *)
(* and the order that decides what is an update is one.                    *)
InstallIsWhole ==
  /\ [](U!LatestIsWhole /\ (part = "update" /\ started = 0 => U!OrderIsStrict(Versions)))
  /\ [][U!SuccessIsWhole]_allVars

(* See AccountStore: neither a sign-out nor a login as somebody else leaves *)
(* a router key of the former account behind.                              *)
KeyIsOfAccount == A!KeyIsOfAccount

=============================================================================
