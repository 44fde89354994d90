----------------------------- MODULE ProxyDaemon -----------------------------
(***************************************************************************)
(* The proxy's three kinds of shared state, which do not touch each other: *)
(* the certificate authority that all proxies of the machine share while   *)
(* they start, the state the turns of one running daemon share, and the    *)
(* request metrics its tasks report to.  A behaviour follows one of them.  *)
(***************************************************************************)
EXTENDS LocalTurn

CONSTANTS
  Parts,                            \* the kinds a behaviour may follow
  Procs, MaxPairs,                  \* CertificateAuthority
  Requests, Kinds, Estimate, Usage, RecentCapacity, QueueCapacity  \* RequestMetrics

VARIABLES
  part,
  at, ca, cert, key, lock, stale, expired, pairs, crashed,  \* CertificateAuthority
  kind, task, job, chunk, queue, cut, abandoned,            \* RequestMetrics
  active, recent, forgotten, totals

A == INSTANCE CertificateAuthority
S == INSTANCE RequestMetrics

ASSUME DaemonAssumption ==
  /\ Parts \subseteq {"turns", "ca", "metrics"}
  /\ MaxPairs \in Nat /\ None \notin Procs
  /\ Kinds \subseteq S!AllKinds
  /\ Estimate \in Nat /\ Usage \in Seq(Nat) \ {<<>>}
  /\ None \notin Nat \cup S!Records \cup S!Jobs
  /\ RecentCapacity \in Nat \ {0} /\ QueueCapacity \in Nat \ {0}

caVars == <<at, ca, cert, key, lock, stale, expired, pairs, crashed>>
metricsVars == <<kind, task, job, chunk, queue, cut, abandoned,
                 active, recent, forgotten, totals>>
allVars == <<part, vars, caVars, metricsVars>>

DaemonInit ==
  /\ part \in Parts /\ Init /\ A!Init /\ S!Init
  /\ part # "turns" => /\ setup = [mode |-> "all", ownsMetrics |-> FALSE]
                       /\ \A t \in Turns : rq[t] = CHOOSE s \in Shapes : TRUE
                       /\ framing = [t \in Turns |-> "lf"]
  /\ part # "metrics" => \A r \in Requests : kind[r] = CHOOSE k \in Kinds : TRUE
DaemonNext ==
  \/ part = "turns" /\ Next /\ UNCHANGED <<part, caVars, metricsVars>>
  \/ part = "ca" /\ A!Next /\ UNCHANGED <<part, vars, metricsVars>>
  \/ part = "metrics" /\ S!Next /\ UNCHANGED <<part, vars, caVars>>
DaemonSpec == DaemonInit /\ [][DaemonNext]_allVars

-----------------------------------------------------------------------------
(* Type correctness of the parts.                                          *)
DaemonTypeOK ==
  /\ part = "turns" => TypeOK
  /\ part = "ca" => A!TypeOK
  /\ part = "metrics" => S!TypeOK

(* See CertificateAuthority: what proxies serve, and what is on disk.      *)
CaConsistent == A!CaConsistent

(* See LocalTurn: what is recorded of a turn is true and not out of date.  *)
(* The status file never goes back to a turn before it was cleared, and the*)
(* placeholder the router opened for a local turn is closed with what      *)
(* became of the turn, and with a key the router accepts.                  *)
TurnRecordsAreTrue == ClearedStaysCleared /\ CallbackIsTrue /\ CallbackIsAccepted

(* See RequestMetrics: the totals agree with the records under every order *)
(* of the locks, one record for a request, no row left open, and the usage *)
(* a record ends up with is the last the answer reported if the proxy can  *)
(* decode the answer and its observer keeps up, ...                        *)
BooksAgree ==
  /\ part = "metrics" => S!TotalsMatchRecords /\ S!CountedOnce /\ S!RowsClosed
  /\ S!FinalUsageKept

(* ... and the comment that nobody reports a request next to the adapter.  *)
NoDoubleRecord == S!NoDoubleRecord
=============================================================================
