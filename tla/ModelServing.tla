----------------------------- MODULE ModelServing -----------------------------
(***************************************************************************)
(* The serve daemon with the bundled model and the cache it shares with    *)
(* other processes: the daemon is one client of ModelCache, and LlamaServe *)
(* goes on when its fetch is done.  Before the signal handler is armed a   *)
(* signal kills the daemon in the middle of a download.                    *)
(***************************************************************************)
EXTENDS ModelCache

CONSTANTS Tag, OldTag  \* see LlamaServe

ASSUME LlamaAssumption == Tag # OldTag /\ None \notin {Tag, OldTag, "main", "handler"}

VARIABLES at, exit, handler, lock, slot, taken, child, model, binary, version,
          available

L == INSTANCE LlamaServe

daemonVars == <<at, exit, handler, lock, slot, taken, child, model, binary,
                version, available>>
vars == <<cacheVars, daemonVars>>

ServingInit == Init /\ L!Init

(* Commands begin as long as the daemon may still look at the cache: once  *)
(* llama-server has opened the model, the cache is on its own as it is     *)
(* after a daemon that did not get that far.                               *)
Other(c) ==
  /\ c # Daemon
  /\ (child = "none" /\ Begin(c)) \/ Work(c) \/ Crash(c)
  /\ UNCHANGED daemonVars

(* The daemon's fetch (resolve_or_download_gguf).                          *)
Fetch ==
  /\ at = "resolve"
  /\ Begin(Daemon) \/ Work(Daemon)
  /\ UNCHANGED daemonVars

Fetched ==
  /\ job[Daemon].pc = "done" /\ L!Resolved
  /\ UNCHANGED cacheVars

NotFetched ==
  /\ job[Daemon].pc = "failed" /\ L!NotResolved
  /\ UNCHANGED cacheVars

(* The link may have gone since.                                           *)
Spawn ==
  /\ L!Spawn(Present(job[Daemon].rev))
  /\ UNCHANGED cacheVars

Signal ==
  /\ L!Signal
  /\ IF at = "resolve" THEN Killed(Daemon) ELSE UNCHANGED cacheVars

Llama ==
  /\ \/ L!Main \/ L!Handler \/ L!Watch
     \/ L!ServiceEnds \/ L!ChildLoads \/ L!ChildStalls \/ L!ChildEnds
  /\ UNCHANGED cacheVars

Next ==
  \/ \E c \in Clients : Other(c)
  \/ Fetch \/ Fetched \/ NotFetched \/ Spawn \/ Signal \/ Llama

(* Every process that is busy goes on: the operating system schedules it,  *)
(* and each request has a timeout.  Nothing is assumed of signals, of      *)
(* llama-server and of commands that have not begun.                       *)
Fairness ==
  /\ \A c \in Clients \ {Daemon} : WF_vars(Work(c) /\ UNCHANGED daemonVars)
  /\ WF_vars(Fetch)
  /\ WF_vars(L!Main /\ UNCHANGED cacheVars)
  /\ WF_vars(L!Handler /\ UNCHANGED cacheVars)
  /\ WF_vars(L!Watch /\ UNCHANGED cacheVars)

Spec == ServingInit /\ [][Next]_vars /\ Fairness

-----------------------------------------------------------------------------
(* Type correctness of the cache and of the daemon.                        *)
TypeOK == CacheTypeOK /\ L!LlamaTypeOK

(* The properties of the daemon; see LlamaServe.                           *)
OrderlyExitStopsChild == L!OrderlyExitStopsChild
RuntimeIsPinned       == L!RuntimeIsPinned

(* Every operation on the cache ends, whatever the server answers, and a   *)
(* daemon that was sent a signal ends; and a model whose server died while *)
(* the daemon serves is withdrawn.                                         *)
WorkEnds == OperationsEnd /\ L!SignalEnds /\ L!DeadModelIsNotOffered
=============================================================================
