------------------------- MODULE CertificateAuthority -------------------------
(***************************************************************************)
(* The local certificate authority the proxies of a machine share          *)
(* (LocalCa and CaPathLock in crates/rayline-proxy/src/lib.rs): a          *)
(* certificate file, a key file and a lock file.  A proxy loads the pair   *)
(* when it starts, or generates one, and serves the pair it has in memory. *)
(*                                                                         *)
(* A pair is named by its generation: certificate n goes with key n.       *)
(***************************************************************************)
EXTENDS Naturals

CONSTANTS Procs, MaxPairs, None

VARIABLES
  at,        \* where each proxy is in load_or_generate
  ca,        \* the pair each proxy has read or generated: [cert, key]
  cert, key, \* the files, 0 when there is none
  lock,      \* the lock file: the proxy that made it, or None
  stale,     \* whether the lock file is older than 30 seconds
  expired,   \* the pairs that have a week or less to live
  pairs,     \* how many pairs were generated
  crashed    \* history: a proxy died or gave up a lock it held

files == <<cert, key>>
vars  == <<at, ca, files, lock, stale, expired, pairs, crashed>>

NoPair == [cert |-> 0, key |-> 0]
InSection == {"read cert", "read key", "check", "generate", "write cert", "write key", "unlock"}
Ats == {"down", "acquire", "remove", "serving", "failed"} \cup InSection

Init ==
  /\ at = [p \in Procs |-> "down"]
  /\ ca = [p \in Procs |-> NoPair]
  /\ cert = 0 /\ key = 0 /\ lock = None /\ stale = FALSE
  /\ expired = {} /\ pairs = 0 /\ crashed = FALSE

Goto(p, l) == at' = [at EXCEPT ![p] = l]

Start(p) ==
  /\ at[p] = "down"
  /\ Goto(p, "acquire")
  /\ UNCHANGED <<ca, files, lock, stale, expired, pairs, crashed>>

(* The lock file is created, or it exists.                                 *)
Lock(p) ==
  /\ at[p] = "acquire" /\ lock = None
  /\ lock' = p /\ stale' = FALSE
  /\ Goto(p, IF cert # 0 /\ key # 0 THEN "read cert" ELSE "generate")
  /\ UNCHANGED <<ca, files, expired, pairs, crashed>>

FindStale(p) ==
  /\ at[p] = "acquire" /\ lock # None /\ stale
  /\ Goto(p, "remove")
  /\ UNCHANGED <<ca, files, lock, stale, expired, pairs, crashed>>

RemoveStale(p) ==
  /\ at[p] = "remove"
  /\ lock' = None /\ stale' = FALSE
  /\ Goto(p, "acquire")
  /\ UNCHANGED <<ca, files, expired, pairs, crashed>>

(* After ten seconds a waiting proxy fails; so does one that cannot read or*)
(* write a file, and its lock is dropped.                                  *)
Fail(p) ==
  /\ at[p] \in {"acquire"} \cup InSection
  /\ Goto(p, "failed")
  /\ lock' = IF at[p] \in InSection THEN None ELSE lock
  /\ stale' = IF at[p] \in InSection THEN FALSE ELSE stale
  /\ crashed' = TRUE
  /\ UNCHANGED <<ca, files, expired, pairs>>

ReadCert(p) ==
  /\ at[p] = "read cert"
  /\ ca' = [ca EXCEPT ![p].cert = cert]
  /\ Goto(p, "read key")
  /\ UNCHANGED <<files, lock, stale, expired, pairs, crashed>>

ReadKey(p) ==
  /\ at[p] = "read key"
  /\ ca' = [ca EXCEPT ![p].key = key]
  /\ Goto(p, "check")
  /\ UNCHANGED <<files, lock, stale, expired, pairs, crashed>>

(* validate_existing_pair                                                  *)
IsValidPair(pair) == pair.cert = pair.key /\ pair.cert # 0 /\ pair.cert \notin expired

\* Mutated form: only the certificate is looked at.
CheckExpiryOnly(p) ==
  /\ at[p] = "check"
  /\ Goto(p, IF ca[p].cert \notin expired THEN "unlock" ELSE "generate")
  /\ UNCHANGED <<ca, files, lock, stale, expired, pairs, crashed>>

Check(p) ==
  /\ at[p] = "check"
  /\ Goto(p, IF IsValidPair(ca[p]) THEN "unlock" ELSE "generate")
  /\ UNCHANGED <<ca, files, lock, stale, expired, pairs, crashed>>

Generate(p) ==
  /\ at[p] = "generate" /\ pairs < MaxPairs
  /\ pairs' = pairs + 1
  /\ ca' = [ca EXCEPT ![p] = [cert |-> pairs + 1, key |-> pairs + 1]]
  /\ Goto(p, "write cert")
  /\ UNCHANGED <<files, lock, stale, expired, crashed>>

(* Each file is written beside itself and renamed.                         *)
WriteCert(p) ==
  /\ at[p] = "write cert"
  /\ cert' = ca[p].cert
  /\ Goto(p, "write key")
  /\ UNCHANGED <<ca, key, lock, stale, expired, pairs, crashed>>

WriteKey(p) ==
  /\ at[p] = "write key"
  /\ key' = ca[p].key
  /\ Goto(p, "unlock")
  /\ UNCHANGED <<ca, cert, lock, stale, expired, pairs, crashed>>

(* Dropping the lock removes the file, whoever made it.                    *)
Unlock(p) ==
  /\ at[p] = "unlock"
  /\ lock' = None /\ stale' = FALSE
  /\ Goto(p, "serving")
  /\ UNCHANGED <<ca, files, expired, pairs, crashed>>

Crash(p) ==
  /\ at[p] \in InSection \cup {"acquire", "remove"}
  /\ Goto(p, "down") /\ crashed' = TRUE
  /\ UNCHANGED <<ca, files, lock, stale, expired, pairs>>

Stop(p) ==
  /\ at[p] \in {"serving", "failed"}
  /\ Goto(p, "down")
  /\ UNCHANGED <<ca, files, lock, stale, expired, pairs, crashed>>

(* A proxy needs far less than 30 seconds for what it does with the lock:  *)
(* a lock grows old only when the proxy that made it is gone.              *)
LockAges ==
  /\ lock # None /\ ~stale /\ at[lock] \notin InSection
  /\ stale' = TRUE
  /\ UNCHANGED <<at, ca, files, lock, expired, pairs, crashed>>

Expires ==
  /\ cert \notin expired \cup {0}
  /\ expired' = expired \cup {cert}
  /\ UNCHANGED <<at, ca, files, lock, stale, pairs, crashed>>

Step(p) ==
  \/ Start(p) \/ Lock(p) \/ FindStale(p) \/ RemoveStale(p) \/ Fail(p)
  \/ ReadCert(p) \/ ReadKey(p) \/ Check(p) \/ Generate(p)
  \/ WriteCert(p) \/ WriteKey(p) \/ Unlock(p) \/ Crash(p) \/ Stop(p)

Next == LockAges \/ Expires \/ \E p \in Procs : Step(p)
Spec == Init /\ [][Next]_vars

-----------------------------------------------------------------------------
(* Type correctness of the shared authority.                               *)
TypeOK ==
  /\ at \in [Procs -> Ats]
  /\ ca \in [Procs -> [cert : 0..MaxPairs, key : 0..MaxPairs]]
  /\ cert \in 0..MaxPairs /\ key \in 0..MaxPairs /\ pairs \in 0..MaxPairs
  /\ lock \in Procs \cup {None} /\ stale \in BOOLEAN
  /\ expired \subseteq 1..MaxPairs /\ crashed \in BOOLEAN

(* What a proxy serves signs with the key of its certificate, whatever died*)
(* between the writing of the two files and however many proxies believe to*)
(* hold the lock.  And as long as no proxy died or failed, the pair on disk*)
(* is whole whenever none is at work, and a serving proxy serves it unless *)
(* a later start found it expired.                                         *)
CaConsistent ==
  /\ \A p \in Procs : at[p] = "serving" => ca[p].cert = ca[p].key /\ ca[p].cert # 0
  /\ ~crashed /\ (\A p \in Procs : at[p] \notin InSection) =>
       /\ cert = key
       /\ \A p \in Procs : at[p] = "serving" => ca[p].cert \in {cert} \cup expired
=============================================================================
