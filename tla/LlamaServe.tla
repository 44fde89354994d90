------------------------------ MODULE LlamaServe ------------------------------
(***************************************************************************)
(* `rld serve` with the bundled model (run_serve in                        *)
(* crates/rayline-daemon/src/main.rs, the process lifecycle of             *)
(* crates/rayline-llama): once the model file is there it installs the     *)
(* pinned llama-server, spawns it, arms the signal handler, waits for its  *)
(* health and serves.  The main task and the signal handler may both stop  *)
(* the child; the mutex of its slot orders them.                           *)
(***************************************************************************)
EXTENDS Naturals

CONSTANTS
  Tag,     \* the release to run
  OldTag,  \* a release that an earlier version installed
  None

VARIABLES
  at,       \* where the main task is
  exit,     \* how the process ended
  handler,  \* the signal handler
  lock,     \* who holds the mutex of the child slot
  slot,     \* the slot holds the child
  taken,    \* the holder of the mutex took the child out of the slot
  child,    \* the llama-server process
  model,    \* it was given a file
  binary,   \* the installed binary: a release, None or "torn"
  version,  \* the release the version file names
  available \* the flag the injector and the proxy read

stopVars    == <<lock, slot, taken>>
installVars == <<binary, version>>
llamaVars == <<at, exit, handler, stopVars, child, model, installVars, available>>

Returns == {"error", "config", "unhealthy", "service"}  \* main returns
Exits   == Returns \cup {"signal", "killed"}            \* or the process dies

(* The child and the process                                               *)
Running == at # "exited"
ChildUp == child \in {"loading", "ready", "down"}

Init ==
  /\ at = "resolve"
  /\ exit = None
  /\ handler = "off"
  /\ lock = None /\ slot = FALSE /\ taken = FALSE
  /\ child = "none" /\ model = FALSE
  /\ binary = None /\ version = None
  /\ available = TRUE

To(label) == at' = label
Exit(how) == at' = "exited" /\ exit' = how

(* The model is there.  The daemon now looks at the installation it finds: *)
(* a whole or a half copied binary, or none, and a version file that names *)
(* Tag only next to its binary, see RuntimeIsPinned.                       *)
Resolved ==
  /\ at = "resolve"
  /\ To("install")
  /\ binary' \in {None, "torn", OldTag, Tag}
  /\ version' \in {None, OldTag, Tag}
  /\ version' = Tag => binary' = Tag
  /\ UNCHANGED <<exit, handler, stopVars, child, model, available>>

NotResolved ==
  /\ at = "resolve"
  /\ Exit("error")
  /\ UNCHANGED <<handler, stopVars, child, model, installVars, available>>

-----------------------------------------------------------------------------
(* ensure_llama_binary                                                     *)

Installed ==
  /\ at = "install"
  /\ binary # None /\ version = Tag
  /\ To("spawn")
  /\ UNCHANGED <<exit, handler, stopVars, child, model, installVars, available>>

(* The archive comes whole and with the committed SHA256, or not at all.   *)
Download ==
  /\ at = "install"
  /\ ~(binary # None /\ version = Tag)
  /\ (To("unpack") /\ UNCHANGED exit) \/ Exit("error")
  /\ UNCHANGED <<handler, stopVars, child, model, installVars, available>>

(* Variant: the release is recorded before its binary is in place.         *)
UnpackMarked ==
  /\ at = "unpack"
  /\ binary' = "torn"
  /\ version' = Tag
  /\ To("copy")
  /\ UNCHANGED <<exit, handler, stopVars, child, model, available>>

(* The copy onto the old binary is under way.                              *)
Unpack ==
  /\ at = "unpack"
  /\ binary' = "torn"
  /\ To("copy")
  /\ UNCHANGED <<exit, handler, stopVars, child, model, version, available>>

Copied ==
  /\ at = "copy"
  /\ \/ binary' = Tag /\ To("mark") /\ UNCHANGED exit
     \/ Exit("error") /\ UNCHANGED binary
  /\ UNCHANGED <<handler, stopVars, child, model, version, available>>

Mark ==
  /\ at = "mark"
  /\ \/ version' = Tag /\ To("spawn") /\ UNCHANGED exit
     \/ version' \in {None, Tag} /\ Exit("error")
  /\ UNCHANGED <<handler, stopVars, child, model, binary, available>>

-----------------------------------------------------------------------------
(* start_server stores the child in the slot; "file" says whether the      *)
(* model file is still there.                                              *)
Spawn(file) ==
  /\ at = "spawn"
  /\ To("arm")
  /\ child' = "loading"
  /\ model' = file
  /\ slot' = TRUE
  /\ UNCHANGED <<exit, handler, lock, taken, installVars, available>>

SpawnFails ==
  /\ at = "spawn"
  /\ Exit("error")
  /\ UNCHANGED <<handler, stopVars, child, model, installVars, available>>

Arm ==
  /\ at = "arm"
  /\ \/ To("wait") /\ handler' = "armed" /\ UNCHANGED exit
     \/ To("stop") /\ exit' = "error" /\ UNCHANGED handler
  /\ UNCHANGED <<stopVars, child, model, installVars, available>>

Healthy ==
  /\ at = "wait"
  /\ child = "ready"
  /\ To("configure")
  /\ UNCHANGED <<exit, handler, stopVars, child, model, installVars, available>>

Unhealthy ==
  /\ at = "wait"
  /\ To("stop") /\ exit' = "unhealthy"
  /\ UNCHANGED <<handler, stopVars, child, model, installVars, available>>

(* The options of the embedded proxy need the router key; without it main  *)
(* returns at once and leaves the child.                                   *)
Configure ==
  /\ at = "configure"
  /\ \/ To("serve") /\ UNCHANGED exit
     \/ Exit("config")
  /\ UNCHANGED <<handler, stopVars, child, model, installVars, available>>

(* The adapter, the injector, the proxy or the local router returns.       *)
ServiceEnds ==
  /\ at = "serve"
  /\ To("stop") /\ exit' = "service"
  /\ UNCHANGED <<handler, stopVars, child, model, installVars, available>>

(* The thread that checks the health every two seconds.                    *)
Watch ==
  /\ at \in {"configure", "serve", "stop"}
  /\ exit \in {None, "service"}
  /\ available' = (child = "ready")
  /\ UNCHANGED <<at, exit, handler, stopVars, child, model, installVars>>

-----------------------------------------------------------------------------
(* stop_server, by the main task or by the handler.                        *)
Wants(w) == IF w = "main" THEN at = "stop" ELSE handler = "stopping"

TakeChild(w) ==
  /\ Running /\ Wants(w)
  /\ lock = None
  /\ lock' = w
  /\ taken' = slot
  /\ slot' = FALSE
  /\ UNCHANGED <<at, exit, handler, child, model, installVars, available>>

Leave(w) == at' = "exited" /\ exit' = IF w = "main" THEN exit ELSE "signal"

(* Variant: the slot is free as soon as the child is out of it, so the     *)
(* other one finds it empty and the process ends under the first.          *)
EmptySlot(w) ==
  /\ Running /\ Wants(w)
  /\ \/ lock = w
     \/ lock # None /\ ~slot
  /\ child' = IF lock = w /\ taken THEN "dead" ELSE child
  /\ lock' = None
  /\ Leave(w)
  /\ UNCHANGED <<handler, slot, taken, model, installVars, available>>

(* SIGTERM, 500 ms, SIGKILL, wait; then the process ends.                  *)
KillChild(w) ==
  /\ Running /\ Wants(w)
  /\ lock = w
  /\ child' = IF taken THEN "dead" ELSE child
  /\ lock' = None
  /\ Leave(w)
  /\ UNCHANGED <<handler, slot, taken, model, installVars, available>>

(* SIGTERM or SIGINT: without a handler the process dies.                  *)
Signal ==
  /\ Running
  /\ \/ handler = "armed" /\ handler' = "stopping" /\ UNCHANGED <<at, exit>>
     \/ handler = "off" /\ Exit("killed") /\ UNCHANGED handler
  /\ UNCHANGED <<stopVars, child, model, installVars, available>>

-----------------------------------------------------------------------------
(* llama-server: it loads its model or ends, may stop answering for a      *)
(* while, and may crash.                                                   *)
ChildLoads ==
  /\ child = "loading" /\ model
  /\ child' = "ready"
  /\ UNCHANGED <<at, exit, handler, stopVars, model, installVars, available>>

ChildStalls ==
  /\ child \in {"ready", "down"}
  /\ child' = IF child = "ready" THEN "down" ELSE "ready"
  /\ UNCHANGED <<at, exit, handler, stopVars, model, installVars, available>>

ChildEnds ==
  /\ ChildUp
  /\ child' = "dead"
  /\ UNCHANGED <<at, exit, handler, stopVars, model, installVars, available>>

Main ==
  \/ Installed \/ Download \/ Unpack \/ Copied \/ Mark
  \/ SpawnFails \/ Arm \/ Healthy \/ Unhealthy \/ Configure
  \/ TakeChild("main") \/ KillChild("main")
Handler == TakeChild("handler") \/ KillChild("handler")
World == ServiceEnds \/ Signal \/ ChildLoads \/ ChildStalls \/ ChildEnds

-----------------------------------------------------------------------------
LlamaTypeOK ==
  /\ at \in {"resolve", "install", "unpack", "copy", "mark", "spawn", "arm",
             "wait", "configure", "serve", "stop", "exited"}
  /\ exit \in Exits \cup {None}
  /\ handler \in {"off", "armed", "stopping"}
  /\ lock \in {None, "main", "handler"}
  /\ child \in {"none", "loading", "ready", "down", "dead"}
  /\ {slot, taken, model, available} \subseteq BOOLEAN
  /\ binary \in {None, Tag, OldTag, "torn"}
  /\ version \in {None, Tag, OldTag}

(* A process that ends on a signal it handles, an error of its start, a    *)
(* failed health wait or a service that returns takes llama-server with    *)
(* it, also when the main task and the handler stop it at the same time.   *)
OrderlyExitStopsChild ==
  at = "exited" /\ exit \in Exits \ {"config", "killed"} => ~ChildUp

(* The version file names the pinned release only next to its whole        *)
(* binary, wherever an installation stops (ensure_llama_binary), so what   *)
(* is spawned is that release.                                             *)
RuntimeIsPinned == version = Tag \/ child # "none" => binary = Tag

(* A signal ends the process, whatever the main task is at.                *)
SignalEnds == handler = "stopping" ~> at = "exited"

(* Turns stop being offered to a model that is gone for good.              *)
DeadModelIsNotOffered ==
  child = "dead" /\ at = "serve" ~> ~available \/ at # "serve"
=============================================================================
