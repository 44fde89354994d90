---------------------------- MODULE DesktopProfile ----------------------------
(***************************************************************************)
(* Claude Desktop's profile selection under `raydock claude-desktop        *)
(* [start | off | uninstall]` (crates/rayline-cli/src/claude_app/          *)
(* desktop.rs): three files of Desktop (a library of profiles, of which    *)
(* one is applied, and the deployment mode), and a journal of Rayline that *)
(* keeps what the user had selected.                                       *)
(*                                                                         *)
(* The commands hold the lease of claude_app.rs, so one runs at a time; it *)
(* may be killed, and a write may fail, at every step.  The user selects,  *)
(* adds and deletes profiles in Desktop whenever no command writes: the    *)
(* command has made Desktop quit before it does.  Every file is replaced   *)
(* atomically, so a write is a step.                                       *)
(***************************************************************************)
EXTENDS Naturals, FiniteSets

CONSTANTS
  Profiles,    \* the user's profiles
  Default,     \* the one of them Desktop itself would start with
  Own,         \* the profile of Rayline
  Settings,    \* what Rayline may want in its profile
  NoValue

VARIABLES
  library,    \* _meta.json: [applied, hybrid, entries], or NoValue
  mode,       \* deploymentMode of Desktop's configuration
  profiles,   \* the profiles of the user that have a file
  saved,      \* the content of Rayline's own profile file
  journal,    \* [phase, previous], or NoValue
  command,    \* where the command is
  desired,    \* what it wants in the profile
  touched,    \* history: the user has changed something while `previous` was kept
  original    \* history: what the user had selected last when none was kept

desktopVars == <<library, mode, profiles, saved>>
historyVars == <<touched, original>>
vars == <<desktopVars, journal, command, desired, historyVars>>

Modes      == {NoValue, "1p", "3p"}
Ids        == Profiles \cup {Own}
Selections == [applied : Ids, hybrid : BOOLEAN, mode : Modes]
Libraries  == [applied : Ids, hybrid : BOOLEAN, entries : SUBSET Ids]
Journals   == [phase : {"prepared", "active", "idle"}, previous : Selections \cup {NoValue}]
Writing    == {"activate", "default file", "default library", "prepare", "profile",
               "select", "third party", "commit", "recover", "restore",
               "restore mode", "restore selection", "forget"}
Commands   == {"none", "reopen", "quit", "open", "quit for off"} \cup Writing

(* What Desktop shows: without a library it makes one with the default.    *)
Selection ==
  IF library = NoValue THEN [applied |-> Default, hybrid |-> FALSE, mode |-> mode]
  ELSE [applied |-> library.applied, hybrid |-> library.hybrid, mode |-> mode]

(* The part of a selection that the library holds.                         *)
Applied(selection) == [applied |-> selection.applied, hybrid |-> selection.hybrid]

Previous == IF journal = NoValue THEN NoValue ELSE journal.previous

HasFile(id) == id \in profiles \/ (id = Own /\ saved # NoValue)

Init ==
  /\ profiles \in {P \in SUBSET Profiles : Default \in P}
  /\ library \in {NoValue} \cup [applied : profiles, hybrid : BOOLEAN, entries : {profiles}]
  /\ mode \in Modes
  /\ saved = NoValue /\ journal = NoValue
  /\ command = "none" /\ desired = NoValue
  /\ touched = FALSE /\ original = Selection

-----------------------------------------------------------------------------
(* `matches`: refuses what the commands could not undo ...                 *)
Refuses ==
  IF Previous # NoValue
  THEN \/ library = NoValue
       \/ library # NoValue /\ (library.applied # Own \/ library.hybrid)
       \/ journal.phase = "active" /\ mode # "3p"
       \/ ~HasFile(Previous.applied)
  ELSE library # NoValue /\ ~HasFile(library.applied)

(* ... and tells whether there is nothing to do.                           *)
Matches(d) ==
  /\ Previous # NoValue /\ journal.phase = "active"
  /\ library # NoValue /\ library.applied = Own /\ ~library.hybrid
  /\ mode = "3p" /\ saved = d

(* `recovery`: the kept selection may be put back.                         *)
IsOwnSelection == library # NoValue /\ library.applied = Own /\ ~library.hybrid
IsPreviousSelection ==
  /\ library # NoValue
  /\ library.applied = Previous.applied /\ library.hybrid = Previous.hybrid
(* Variant: any selection is overwritten.                                  *)
RecoverableAlways ==
  /\ library # NoValue
  /\ Previous.applied \in library.entries /\ HasFile(Previous.applied)

Recoverable ==
  /\ \/ IsOwnSelection
     \/ journal.phase = "prepared" /\ IsPreviousSelection
  /\ mode = "3p" \/ (journal.phase = "prepared" /\ mode = Previous.mode)
  /\ Previous.applied \in library.entries /\ HasFile(Previous.applied)

-----------------------------------------------------------------------------
(* `start` after the gateway runs: launch.                                 *)
Launch(d) ==
  /\ command = "none" /\ ~Refuses
  /\ desired' = d
  /\ command' = IF Matches(d) THEN "reopen" ELSE "quit"
  /\ UNCHANGED <<desktopVars, journal, historyVars>>

(* Desktop quits, or declines to.                                          *)
Quit ==
  /\ command = "quit"
  /\ command' \in {"activate", "none"}
  /\ UNCHANGED <<desktopVars, journal, desired, historyVars>>

(* The files are read and checked again.                                   *)
Activate ==
  /\ command = "activate"
  /\ command' = IF Refuses THEN "recover"
                ELSE IF library = NoValue THEN "default file" ELSE "prepare"
  /\ UNCHANGED <<desktopVars, journal, desired, historyVars>>

WriteDefaultFile ==
  /\ command = "default file"
  /\ profiles' = profiles \cup {Default}
  /\ command' = "default library"
  /\ UNCHANGED <<library, mode, saved, journal, desired, historyVars>>

WriteDefaultLibrary ==
  /\ command = "default library"
  /\ library' = [applied |-> Default, hybrid |-> FALSE, entries |-> {Default}]
  /\ command' = "prepare"
  /\ UNCHANGED <<mode, profiles, saved, journal, desired, historyVars>>

(* Variant: what is selected now is kept, whatever the journal has.        *)
PrepareAnew ==
  /\ command = "prepare"
  /\ journal' = [phase |-> "prepared", previous |-> Selection]
  /\ command' = "profile"
  /\ UNCHANGED <<desktopVars, desired, historyVars>>

(* The journal is committed before the selection changes; what it keeps    *)
(* already is not replaced.                                                *)
Prepare ==
  /\ command = "prepare"
  /\ journal' = [phase |-> "prepared",
                 previous |-> IF Previous = NoValue THEN Selection ELSE Previous]
  /\ command' = "profile"
  /\ UNCHANGED <<desktopVars, desired, historyVars>>

WriteProfile ==
  /\ command = "profile"
  /\ saved' = desired
  /\ command' = "select"
  /\ UNCHANGED <<library, mode, profiles, journal, desired, historyVars>>

SelectOwn ==
  /\ command = "select"
  /\ library' = [applied |-> Own, hybrid |-> FALSE, entries |-> library.entries \cup {Own}]
  /\ command' = "third party"
  /\ UNCHANGED <<mode, profiles, saved, journal, desired, historyVars>>

SetThirdParty ==
  /\ command = "third party"
  /\ mode' = "3p"
  /\ command' = "commit"
  /\ UNCHANGED <<library, profiles, saved, journal, desired, historyVars>>

Commit ==
  /\ command = "commit"
  /\ journal' = [journal EXCEPT !.phase = "active"]
  /\ command' = "open"
  /\ UNCHANGED <<desktopVars, desired, historyVars>>

(* A write of `activate` fails: what it did is undone at once.             *)
WriteFails ==
  /\ command \in {"default file", "default library", "prepare", "profile",
                  "select", "third party", "commit"}
  /\ command' = "recover"
  /\ UNCHANGED <<desktopVars, journal, desired, historyVars>>

(* Desktop is opened, or cannot be: then a change is undone as well.       *)
Open ==
  /\ \/ command = "open" /\ command' \in {"none", "recover"}
     \/ command = "reopen" /\ command' = "none"
  /\ UNCHANGED <<desktopVars, journal, desired, historyVars>>

-----------------------------------------------------------------------------
(* `off` and `uninstall`: restore.  The check is made before Desktop is    *)
(* asked to quit, and again when it has.                                   *)
Off ==
  /\ command = "none" /\ Previous # NoValue /\ Recoverable
  /\ command' = "quit for off"
  /\ UNCHANGED <<desktopVars, journal, desired, historyVars>>

QuitForOff ==
  /\ command = "quit for off"
  /\ command' \in {"recover", "none"}
  /\ UNCHANGED <<desktopVars, journal, desired, historyVars>>

Recover ==
  /\ command = "recover"
  /\ command' = IF Previous # NoValue /\ Recoverable THEN "restore" ELSE "none"
  /\ UNCHANGED <<desktopVars, journal, desired, historyVars>>

Reopen ==
  /\ command = "restore"
  /\ journal' = [journal EXCEPT !.phase = "prepared"]
  /\ command' = "restore mode"
  /\ UNCHANGED <<desktopVars, desired, historyVars>>

RestoreMode ==
  /\ command = "restore mode"
  /\ mode' = Previous.mode
  /\ command' = "restore selection"
  /\ UNCHANGED <<library, profiles, saved, journal, desired, historyVars>>

(* Variant: the library is replaced by what was kept, not edited.          *)
RestoreWhole ==
  /\ command = "restore selection"
  /\ library' = Applied(Previous)
  /\ command' = "forget"
  /\ UNCHANGED <<mode, profiles, saved, journal, desired, historyVars>>

RestoreSelection ==
  /\ command = "restore selection"
  /\ library' = [library EXCEPT !.applied = Previous.applied, !.hybrid = Previous.hybrid]
  /\ command' = "forget"
  /\ UNCHANGED <<mode, profiles, saved, journal, desired, historyVars>>

Forget ==
  /\ command = "forget"
  /\ journal' = [phase |-> "idle", previous |-> NoValue]
  /\ command' = "none"
  /\ touched' = FALSE
  /\ UNCHANGED <<desktopVars, desired, original>>

(* A write of `restore` fails, or any command is killed.                   *)
Interrupt ==
  /\ command # "none"
  /\ command' = "none"
  /\ UNCHANGED <<desktopVars, journal, desired, historyVars>>

Command ==
  \/ \E d \in Settings : Launch(d)
  \/ Quit \/ Activate \/ WriteDefaultFile \/ WriteDefaultLibrary \/ Prepare
  \/ WriteProfile \/ SelectOwn \/ SetThirdParty \/ Commit \/ WriteFails \/ Open
  \/ Off \/ QuitForOff \/ Recover \/ Reopen \/ RestoreMode \/ RestoreSelection
  \/ Forget \/ Interrupt

-----------------------------------------------------------------------------
(* The user in Desktop (external).                                         *)
UserActs ==
  /\ command \notin Writing
  /\ IF Previous = NoValue
     THEN original' = Selection' /\ touched' = FALSE
     ELSE touched' = TRUE /\ UNCHANGED original
  /\ UNCHANGED <<saved, journal, command, desired>>

UserSelects ==
  \E id \in Ids, hybrid \in BOOLEAN :
    /\ library # NoValue /\ id \in library.entries
    /\ library' = [library EXCEPT !.applied = id, !.hybrid = hybrid]
    /\ UNCHANGED <<mode, profiles>>
    /\ UserActs

UserSetsMode ==
  \E m \in {"1p", "3p"} :
    /\ mode' = m
    /\ UNCHANGED <<library, profiles>>
    /\ UserActs

UserAdds ==
  \E id \in Profiles :
    /\ library # NoValue /\ id \notin library.entries
    /\ library' = [library EXCEPT !.entries = @ \cup {id}]
    /\ profiles' = profiles \cup {id}
    /\ UNCHANGED mode
    /\ UserActs

UserDeletes ==
  \E id \in Profiles :
    /\ library # NoValue /\ id \in library.entries /\ id # library.applied
    /\ library' = [library EXCEPT !.entries = @ \ {id}]
    /\ profiles' = profiles \ {id}
    /\ UNCHANGED mode
    /\ UserActs

User == UserSelects \/ UserSetsMode \/ UserAdds \/ UserDeletes

Next == Command \/ User
Spec == Init /\ [][Next]_vars

-----------------------------------------------------------------------------
TypeOK ==
  /\ library \in {NoValue} \cup Libraries
  /\ mode \in Modes
  /\ profiles \subseteq Profiles
  /\ saved \in Settings \cup {NoValue}
  /\ journal \in {NoValue} \cup Journals
  /\ command \in Commands
  /\ desired \in Settings \cup {NoValue}
  /\ touched \in BOOLEAN /\ original \in Selections

(* What the user had is in Desktop or in the journal, wherever a command   *)
(* was cut off: `off` has put it back when the journal is empty again.     *)
OriginalKept ==
  IF Previous = NoValue THEN Selection = original ELSE Previous = original

(* As long as the user has left things alone, every state a command was    *)
(* cut off in can be recovered.                                            *)
AlwaysRecoverable ==
  Previous # NoValue /\ ~touched => Recoverable

(* A command replaces no selection but Rayline's own and the one it has    *)
(* recorded, and undoing replaces no mode but these: what the user selects *)
(* meanwhile stays.  (A start that is repeated after it was cut off sets   *)
(* the mode without another look.)                                         *)
ReplacesOwn ==
  /\ Applied(Selection)' # Applied(Selection) =>
       Applied(Selection) \in {[applied |-> Own, hybrid |-> FALSE], Applied(original)}
  /\ mode' # mode => mode \in {"3p", original.mode} \/ command = "third party"
NothingOverwritten == [][Command => ReplacesOwn]_vars
=============================================================================
