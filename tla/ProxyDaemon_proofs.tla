-------------------------- MODULE ProxyDaemon_proofs --------------------------
(***************************************************************************)
(* Proofs about the proxy's shared state.  The three parts of ProxyDaemon  *)
(* do not touch each other, so each has an invariant of its own, and a     *)
(* step of one part leaves the others' variables alone.  The books of the  *)
(* request metrics come last: what the two tasks of a request can be doing *)
(* at once, what an observer still has to report, and sums over finite     *)
(* sets for the totals.                                                    *)
(***************************************************************************)
EXTENDS ProxyDaemon, FiniteSetTheorems, WellFoundedInduction, TLAPS

(***************************************************************************)
(* The certificate authority.  Whatever dies, a proxy goes on with a pair  *)
(* it generated or found valid; and as long as nobody died, one proxy at a *)
(* time is between taking the lock and dropping it.                        *)
(***************************************************************************)
Written == {"write cert", "write key", "unlock", "serving"}

CaWhole == \A p \in Procs : at[p] \in Written => ca[p].cert = ca[p].key /\ ca[p].cert # 0

(* A lock is never found stale: who made it is at work.                    *)
CaLocked ==
  /\ \A p \in Procs : at[p] \in A!InSection <=> lock = p
  /\ stale = FALSE /\ \A p \in Procs : at[p] # "remove"

(* What the proxy at work has read, and when the two files differ.         *)
CaRead ==
  \A p \in Procs :
    /\ at[p] \in {"read key", "check"} => ca[p].cert = cert
    /\ at[p] = "check" => ca[p].key = key
    /\ at[p] \in {"generate", "write cert"} => cert \in {0} \cup expired
    /\ at[p] = "write key" => cert = ca[p].cert
    /\ at[p] = "unlock" => ca[p].cert = cert

CaFiles == cert # key => \E p \in Procs : at[p] = "write key"
CaServed == \A p \in Procs : at[p] = "serving" => ca[p].cert \in {cert} \cup expired

CaInv == A!TypeOK /\ CaWhole /\ (crashed = FALSE => CaLocked /\ CaRead /\ CaFiles /\ CaServed)

CaAssumption == MaxPairs \in Nat /\ None \notin Procs

LEMMA CaConstants == CaAssumption
  BY DaemonAssumption DEF DaemonAssumption, CaAssumption

(* The types in two parts, which the provers take one at a time.           *)
CaFlags == stale \in BOOLEAN /\ crashed \in BOOLEAN
CaValues ==
  /\ at \in [Procs -> A!Ats]
  /\ ca \in [Procs -> [cert : 0..MaxPairs, key : 0..MaxPairs]]
  /\ cert \in 0..MaxPairs /\ key \in 0..MaxPairs /\ pairs \in 0..MaxPairs
  /\ lock \in Procs \cup {None} /\ expired \subseteq 1..MaxPairs

LEMMA CaTypeParts ==
  (A!TypeOK <=> CaFlags /\ CaValues) /\ (A!TypeOK' <=> CaFlags' /\ CaValues')
  BY Zenon DEF A!TypeOK, CaFlags, CaValues

(* A new pair has a name of its own kind, and is not the missing one.      *)
LEMMA NextPair ==
  ASSUME MaxPairs \in Nat, pairs \in 0..MaxPairs, pairs < MaxPairs
  PROVE  pairs + 1 \in 0..MaxPairs /\ pairs + 1 # 0
  OBVIOUS

LEMMA PairOf == ASSUME NEW n, NEW r, r = [cert |-> n, key |-> n] PROVE r.cert = n /\ r.key = n
  OBVIOUS

LEMMA CaInit == ASSUME CaAssumption, A!Init PROVE CaInv
  <1> USE DEF CaAssumption, A!Init, A!NoPair, A!Ats, A!InSection
  <1>1. CaFlags   BY Zenon DEF CaFlags
  <1>2. CaValues  BY DEF CaValues
  <1>3. A!TypeOK  BY <1>1, <1>2, CaTypeParts
  <1>4. CaWhole /\ CaRead /\ CaFiles /\ CaServed
    BY DEF CaWhole, CaRead, CaFiles, CaServed, Written
  <1>5. CaLocked  BY DEF CaLocked
  <1> QED  BY <1>3, <1>4, <1>5 DEF CaInv

(* Types first, action by action; the rest of the invariant rests on them. *)
LEMMA CaTypes ==
  ASSUME CaAssumption, A!TypeOK, A!Next
  PROVE  A!TypeOK'
  <1>0. CaFlags /\ CaValues  BY CaTypeParts
  <1>1. CASE A!LockAges
    BY <1>0, <1>1, CaTypeParts DEF A!LockAges, A!files, CaFlags, CaValues
  <1>2. CASE A!Expires
    BY <1>0, <1>2, CaTypeParts DEF A!Expires, A!files, CaFlags, CaValues
  <1>3. ASSUME NEW p \in Procs, A!Step(p) PROVE A!TypeOK'
    <2>1. CaFlags'
      BY <1>0, <1>3, Zenon DEF CaFlags, A!Step, A!Start, A!Lock, A!FindStale, A!RemoveStale, A!Fail,
           A!ReadCert, A!ReadKey, A!Check, A!Generate, A!WriteCert, A!WriteKey, A!Unlock,
           A!Crash, A!Stop
    <2>2. CaValues'
      <3>0. CaValues /\ MaxPairs \in Nat  BY <1>0 DEF CaAssumption
      <3> HIDE <1>0
      <3> USE <3>0 DEF CaValues, A!Goto, A!Ats, A!InSection, A!files
      <3>1. CASE A!Start(p) \/ A!Lock(p) \/ A!FindStale(p) \/ A!RemoveStale(p) \/ A!Fail(p)
        BY <3>1 DEF A!Start, A!Lock, A!FindStale, A!RemoveStale, A!Fail
      <3>2. CASE A!ReadCert(p)   BY <3>2 DEF A!ReadCert
      <3>3. CASE A!ReadKey(p)    BY <3>3 DEF A!ReadKey
      <3>4. CASE A!Check(p)      BY <3>4 DEF A!Check
      <3>5. CASE A!Generate(p)
        <4>1. pairs + 1 \in 0..MaxPairs  BY <3>0, <3>5, NextPair DEF A!Generate
        <4>2. ca' \in [Procs -> [cert : 0..MaxPairs, key : 0..MaxPairs]]
          BY <3>5, <4>1 DEF A!Generate
        <4> QED BY <3>5, <4>1, <4>2 DEF A!Generate
      <3>6. CASE A!WriteCert(p)  BY <3>6 DEF A!WriteCert
      <3>7. CASE A!WriteKey(p)   BY <3>7 DEF A!WriteKey
      <3>8. CASE A!Unlock(p) \/ A!Crash(p) \/ A!Stop(p)
        BY <3>8 DEF A!Unlock, A!Crash, A!Stop
      <3> QED BY <1>3, <3>1, <3>2, <3>3, <3>4, <3>5, <3>6, <3>7, <3>8 DEF A!Step
    <2> QED BY <2>1, <2>2, CaTypeParts
  <1> QED BY <1>1, <1>2, <1>3 DEF A!Next

(* Taking, finding and dropping the lock, and what goes wrong.             *)
LEMMA CaLockInv ==
  ASSUME CaAssumption, CaInv, A!TypeOK', NEW p \in Procs,
         A!Start(p) \/ A!Lock(p) \/ A!FindStale(p) \/ A!RemoveStale(p) \/ A!Fail(p)
           \/ A!Unlock(p) \/ A!Crash(p) \/ A!Stop(p)
  PROVE  CaInv'
  <1>1. A!TypeOK  BY DEF CaInv
  <1> USE <1>1 DEF CaAssumption, A!Goto, A!InSection, A!files, A!TypeOK,
                   CaInv, CaWhole, CaLocked, CaRead, CaFiles, CaServed, Written
  <1>2. CASE A!Start(p)        BY <1>2 DEF A!Start
  <1>3. CASE A!Lock(p)         BY <1>3 DEF A!Lock
  <1>4. CASE A!FindStale(p)    BY <1>4 DEF A!FindStale
  <1>5. CASE A!RemoveStale(p)  BY <1>5 DEF A!RemoveStale
  <1>6. CASE A!Fail(p)         BY <1>6 DEF A!Fail
  <1>7. CASE A!Unlock(p)       BY <1>7 DEF A!Unlock
  <1>8. CASE A!Crash(p)        BY <1>8 DEF A!Crash
  <1>9. CASE A!Stop(p)         BY <1>9 DEF A!Stop
  <1> QED BY <1>2, <1>3, <1>4, <1>5, <1>6, <1>7, <1>8, <1>9

(* What the proxy that holds the lock does with the files.                 *)
LEMMA CaWorkInv ==
  ASSUME CaAssumption, CaInv, A!TypeOK', NEW p \in Procs,
         A!ReadCert(p) \/ A!ReadKey(p) \/ A!Check(p) \/ A!Generate(p)
           \/ A!WriteCert(p) \/ A!WriteKey(p)
  PROVE  CaInv'
  <1> USE DEF CaAssumption, A!Goto, A!InSection, A!files, A!TypeOK,
              CaInv, CaWhole, CaLocked, CaRead, CaFiles, CaServed, Written
  <1>1. CASE A!ReadCert(p)     BY <1>1 DEF A!ReadCert
  <1>2. CASE A!ReadKey(p)      BY <1>2 DEF A!ReadKey
  <1>3. CASE A!Check(p)        BY <1>3 DEF A!Check, A!IsValidPair
  <1>4. CASE A!Generate(p)
    <2>1. pairs + 1 # 0  BY <1>4, NextPair, CaTypeParts DEF A!Generate, CaValues
    <2>2. /\ ca'[p] = [cert |-> pairs + 1, key |-> pairs + 1] /\ at'[p] = "write cert"
          /\ \A q \in Procs \ {p} : ca'[q] = ca[q] /\ at'[q] = at[q]
      BY <1>4 DEF A!Generate
    <2>3. ca'[p].cert = pairs + 1 /\ ca'[p].key = pairs + 1
      <3> DEFINE n == pairs + 1
                 pair == ca'[p]
      <3>1. pair = [cert |-> n, key |-> n]  BY <2>2
      <3> HIDE DEF n, pair
      <3>2. pair.cert = n /\ pair.key = n  BY <3>1
      <3> QED BY <3>2 DEF n, pair
    <2>4. CaWhole'
      <3> SUFFICES ASSUME NEW q \in Procs, at'[q] \in Written
                   PROVE  ca'[q].cert = ca'[q].key /\ ca'[q].cert # 0
        BY DEF CaWhole
      <3>1. CASE q = p   BY <2>1, <2>3, <3>1
      <3>2. CASE q # p   BY <2>2, <3>2
      <3> QED BY <3>1, <3>2
    <2>5. crashed' = FALSE => CaLocked' /\ CaRead' /\ CaFiles' /\ CaServed'
      BY <1>4, <2>2 DEF A!Generate
    <2> QED BY <2>4, <2>5, Zenon DEF CaInv
  <1>5. CASE A!WriteCert(p)    BY <1>5 DEF A!WriteCert
  <1>6. CASE A!WriteKey(p)     BY <1>6 DEF A!WriteKey
  <1> QED BY <1>1, <1>2, <1>3, <1>4, <1>5, <1>6

LEMMA CaAgesInv ==
  ASSUME CaAssumption, CaInv, A!TypeOK', A!LockAges \/ A!Expires
  PROVE  CaInv'
  BY DEF CaAssumption, A!InSection, A!TypeOK, A!files, CaInv, CaWhole, CaLocked,
         CaRead, CaFiles, CaServed, Written, A!LockAges, A!Expires

LEMMA CaStutterInv == ASSUME CaInv, UNCHANGED caVars PROVE CaInv'
  BY DEF caVars, A!TypeOK, CaInv, CaWhole, CaLocked, CaRead, CaFiles, CaServed

LEMMA CaStepInv == ASSUME CaAssumption, CaInv, [DaemonNext]_allVars PROVE CaInv'
  <1>1. CASE A!Next
    <2>1. A!TypeOK'  BY <1>1, CaTypes DEF CaInv
    <2> QED BY <1>1, <2>1, CaLockInv, CaWorkInv, CaAgesInv DEF A!Next, A!Step
  <1>2. CASE UNCHANGED caVars
    BY <1>2, CaStutterInv
  <1> QED BY <1>1, <1>2 DEF DaemonNext, allVars

(* See CaConsistent: for any number of proxies and pairs, a serving proxy  *)
(* signs with the key of its certificate, and if none died or failed the   *)
(* pair on disk is whole and is the one it serves.                         *)
THEOREM CaStaysConsistent == DaemonSpec => []CaConsistent
  <1>1. DaemonInit => CaInv  BY CaConstants, CaInit DEF DaemonInit
  <1>2. CaInv /\ [DaemonNext]_allVars => CaInv'  BY CaConstants, CaStepInv
  <1>3. CaInv => CaConsistent
    BY CaTypeParts DEF CaFlags, CaInv, CaWhole, CaLocked, CaRead, CaFiles, CaServed, CaConsistent, A!CaConsistent,
           A!InSection, Written
  <1> QED BY <1>1, <1>2, <1>3, PTL DEF DaemonSpec

(***************************************************************************)
(* The turns of a daemon, first the status file.  Its lock is held while a *)
(* writer writes, and whatever was written or is being written belongs to  *)
(* a turn routed since the last time the file was cleared, or the file is  *)
(* about to be cleared.                                                    *)
(***************************************************************************)
StatusTypes ==
  /\ pc \in [Turns -> Pcs]
  /\ generation \in Nat /\ seen \in [Turns -> Nat]
  /\ io \in Turns \cup {None} /\ status \in Turns \cup {None}
  /\ writer \in [Turns -> {"none", "waiting", "writing"}]

WriterHoldsIo == \A t \in Turns : writer[t] = "writing" <=> io = t
StatusIsFresh ==
  \A t \in Turns : io = t \/ status = t =>
    seen[t] = generation \/ \E u \in Turns : pc[u] = "clear"

(* A turn has its writer from the router's answer.                         *)
WriterIsOfAnswer ==
  \A t \in Turns : pc[t] \in {"start", "bump", "clear", "send", "await"} => writer[t] = "none"

StatusInv == StatusTypes /\ WriterHoldsIo /\ WriterIsOfAnswer /\ StatusIsFresh

LEMMA StatusInit == ASSUME None \notin Turns, Init PROVE StatusInv
  BY DEF Init, Pcs, StatusInv, StatusTypes, WriterHoldsIo, WriterIsOfAnswer, StatusIsFresh

(* The proxy and the tasks that write.                                     *)
LEMMA StatusRouteInv ==
  ASSUME None \notin Turns, StatusInv, NEW t \in Turns,
         Route(t) \/ Refuse(t) \/ Inject(t) \/ Bump(t) \/ Clear(t) \/ Send(t) \/ SendFails(t)
           \/ Reply(t) \/ Redirect(t) \/ WriterLocks(t) \/ WriterWrites(t)
  PROVE  StatusInv'
  <1> USE DEF StatusInv, StatusTypes, WriterHoldsIo, WriterIsOfAnswer, StatusIsFresh, Goto, Pcs, routeVars,
              adapterVars, SpawnWriter
  <1>1. CASE Route(t)         BY <1>1 DEF Route
  <1>2. CASE Refuse(t)        BY <1>2 DEF Refuse
  <1>3. CASE Inject(t)        BY <1>3 DEF Inject
  <1>4. CASE Bump(t)          BY <1>4 DEF Bump
  <1>5. CASE Clear(t)         BY <1>5 DEF Clear
  <1>6. CASE Send(t)          BY <1>6 DEF Send
  <1>7. CASE SendFails(t)     BY <1>7 DEF SendFails
  <1>8. CASE Reply(t)         BY <1>8 DEF Reply
  <1>9. CASE Redirect(t)      BY <1>9 DEF Redirect
  <1>10. CASE WriterLocks(t)  BY <1>10 DEF WriterLocks
  <1>11. CASE WriterWrites(t) BY <1>11 DEF WriterWrites
  <1> QED BY <1>1, <1>2, <1>3, <1>4, <1>5, <1>6, <1>7, <1>8, <1>9, <1>10, <1>11

(* The adapter only moves the turn on.                                     *)
LEMMA StatusAdapterInv ==
  ASSUME StatusInv, NEW t \in Turns,
         Claim(t) \/ Abandon(t) \/ Post(t) \/ ModelFails(t) \/ Unary(t)
           \/ StreamBegins(t) \/ StreamEvent(t) \/ StreamEnds(t)
  PROVE  StatusInv'
  <1>1. UNCHANGED routeVars
    BY DEF Claim, Abandon, Post, ModelFails, Unary, StreamBegins, StreamEvent, StreamEnds,
           routeVars, adapterVars
  <1>2. /\ pc[t] # "clear"
        /\ \E l \in Pcs \ {"start", "bump", "clear", "send", "await"} : pc' = [pc EXCEPT ![t] = l]
    BY DEF Claim, Abandon, Post, ModelFails, Unary, StreamBegins, StreamEvent, StreamEnds,
           Goto, Pcs, StatusInv, StatusTypes
  <1> QED BY <1>1, <1>2 DEF StatusInv, StatusTypes, WriterHoldsIo, WriterIsOfAnswer, StatusIsFresh, routeVars

LEMMA StatusStutterInv == ASSUME StatusInv, UNCHANGED vars PROVE StatusInv'
  BY DEF vars, routeVars, StatusInv, StatusTypes, WriterHoldsIo, WriterIsOfAnswer, StatusIsFresh

(* See ClearedStaysCleared.                                                *)
LEMMA StatusCleared == StatusInv => ClearedStaysCleared
  BY DEF StatusInv, StatusTypes, StatusIsFresh, ClearedStaysCleared

(***************************************************************************)
(* Where a turn goes.  What a request is and what the daemon was told      *)
(* never change, so the decision of a turn does not either.                *)
(***************************************************************************)
LEMMA RoutableSelective ==
  ASSUME NEW q, NEW selected, NEW nameVirtual, NEW d,
         d = ClassifySelective(q, selected, nameVirtual)
  PROVE  /\ d.target \in {"router", "anthropic"}
         /\ d.target = "anthropic" /\ IsRoutable(q) => ~IsVirtualModel(q.model)
         /\ d.target = "router" /\ q.agent = None /\ q.path # "list" => q.model # "claude"
  <1> USE DEF ClassifySelective, To, Passthrough, ToSubagentRoute
  <1>1. CASE ~IsRoutable(q)
    BY <1>1 DEF IsRoutable, IsVirtualLookup, IsProviderLookup
  <1>2. CASE q.path = "lookup" /\ IsVirtualModel(q.model)
    <2>1. IsVirtualLookup(q) /\ IsRoutable(q) /\ q.path = "lookup"
      BY <1>2 DEF IsRoutable, IsVirtualLookup
    <2>2. d.target = "router"       BY <2>1
    <2>3. q.model # "claude"        BY <1>2 DEF IsVirtualModel, RouterOnlyModels
    <2> QED BY <2>2, <2>3
  <1>3. CASE q.path = "lookup" /\ ~IsVirtualModel(q.model) /\ q.model # "claude"
    BY <1>3 DEF IsRoutable, IsVirtualLookup, IsProviderLookup, IsAnthropicModel
  <1>4. CASE q.path = "lookup" /\ ~IsVirtualModel(q.model) /\ q.model = "claude"
    BY <1>4 DEF IsRoutable, IsVirtualLookup, IsProviderLookup, IsAnthropicModel
  <1>5. CASE q.path = "list"
    BY <1>5 DEF IsRoutable, IsVirtualLookup, IsProviderLookup, IsVirtualModel
  <1>6. CASE q.path \in {"messages", "count_tokens"} /\ IsVirtualModel(q.model)
    BY <1>6 DEF IsRoutable, IsVirtualLookup, IsProviderLookup, IsVirtualModel, RouterOnlyModels
  <1>7. CASE q.path \in {"messages", "count_tokens"} /\ ~IsVirtualModel(q.model)
    BY <1>7 DEF IsRoutable, IsVirtualLookup, IsProviderLookup, IsVirtualModel
  <1> QED BY <1>1, <1>2, <1>3, <1>4, <1>5, <1>6, <1>7 DEF IsRoutable

Fixed ==
  /\ setup \in [mode : {"all", "selective"}, ownsMetrics : BOOLEAN]
  /\ rq \in [Turns -> Shapes]

LEMMA DecisionIsRight ==
  ASSUME LocalTurnAssumption, Fixed, NEW t \in Turns
  PROVE  /\ Decision(t).target \in {"router", "anthropic"}
         /\ Decision(t).target = "anthropic" /\ IsRoutable(rq[t]) => ~IsVirtualModel(rq[t].model)
         /\ Decision(t).target = "router" /\ setup.mode = "selective" /\ rq[t].agent = None
              => rq[t].model # "claude"
  <1>1. CASE setup.mode = "all"
    BY <1>1 DEF Decision, Prepare, ClassifyAll, To, Passthrough
  <1>2. CASE setup.mode = "selective"
    <2>1. Decision(t) = ClassifySelective(rq[t], Selected, ~setup.ownsMetrics)
      BY <1>2 DEF Decision, Prepare
    <2>2. rq[t].path = "list" => rq[t].model # "claude"
      BY DEF LocalTurnAssumption, Fixed
    <2> QED BY <2>1, <2>2, RoutableSelective
  <1> QED BY <1>1, <1>2 DEF Fixed

(* What was sent is what was decided, with the credentials for that place. *)
MaySend(t) == IF Proxied(t) THEN ~RefusesThread(rq[t], Decision(t)) ELSE rq[t].via = "injector"
AsDecided(t, sending) ==
  IF Proxied(t)
  THEN /\ sending.to = Decision(t).target
       /\ sending.auth = Credentials(sending.to, {"client"})
  ELSE sending.auth = {"router key", "client"}

SentAsDecided ==
  \A t \in Turns : sent[t] # None \/ pc[t] = "await" => MaySend(t) /\ AsDecided(t, sent[t])
SentWhen ==
  \A t \in Turns :
    /\ pc[t] = "start" => sent[t] = None
    /\ pc[t] \in {"bump", "clear", "send"} => MaySend(t)

SentInv == Fixed /\ pc \in [Turns -> Pcs] /\ sent = [t \in Turns |-> sent[t]]
             /\ SentAsDecided /\ SentWhen

LEMMA FixedStays ==
  ASSUME Fixed, UNCHANGED <<setup, rq>>
  PROVE  /\ Fixed'
         /\ \A t \in Turns : /\ MaySend(t)' <=> MaySend(t)
                             /\ \A s : AsDecided(t, s)' <=> AsDecided(t, s)
  BY DEF Fixed, MaySend, AsDecided, Proxied, Decision

LEMMA SentInit == ASSUME Init PROVE SentInv
  BY DEF Init, Pcs, SentInv, Fixed, SentAsDecided, SentWhen

LEMMA SentSend == ASSUME SentInv, NEW t \in Turns, Send(t) PROVE SentInv'
  <1>1. UNCHANGED <<setup, rq>> /\ pc[t] = "send" /\ pc' = [pc EXCEPT ![t] = "await"]
    BY DEF Send, Goto, fixed
  <1>2. PICK available \in BOOLEAN : sent' = [sent EXCEPT ![t] =
          [to    |-> Target(t),
           model |-> IF Proxied(t) THEN Decision(t).model ELSE rq[t].model,
           auth  |-> IF Proxied(t) THEN Credentials(Target(t), ClientAuth(t)) ELSE ClientAuth(t),
           local |-> available]]
    BY DEF Send
  <1>3. sent'[t].to = Target(t)
    BY <1>2 DEF SentInv
  <1>4. sent'[t].auth = IF Proxied(t) THEN Credentials(Target(t), ClientAuth(t)) ELSE ClientAuth(t)
    BY <1>2 DEF SentInv
  <1>5. MaySend(t)  BY <1>1 DEF SentInv, SentWhen
  <1>6. AsDecided(t, sent'[t])
    BY <1>3, <1>4, <1>5 DEF AsDecided, MaySend, Proxied, Target, ClientAuth
  <1>7. \A u \in Turns : u # t => sent'[u] = sent[u]
    BY <1>2 DEF SentInv
  <1>8. sent' = [u \in Turns |-> sent'[u]] /\ pc' \in [Turns -> Pcs]
    BY <1>1, <1>2 DEF SentInv, Pcs
  <1>9. SentAsDecided' /\ SentWhen'
    BY <1>1, <1>5, <1>6, <1>7, FixedStays DEF SentInv, SentAsDecided, SentWhen
  <1> QED BY <1>1, <1>8, <1>9, FixedStays DEF SentInv

LEMMA SentRoute ==
  ASSUME SentInv, NEW t \in Turns, Route(t) \/ Refuse(t) \/ Inject(t) \/ Bump(t) \/ Clear(t)
  PROVE  SentInv'
  <1>1. UNCHANGED <<setup, rq, sent>>
    BY DEF fixed, Route, Refuse, Inject, Bump, Clear
  <1>2. PICK l \in Pcs \ {"start", "await"} : pc' = [pc EXCEPT ![t] = l]
    BY DEF Route, Refuse, Inject, Bump, Clear, Goto, Pcs
  <1>3. l \in {"bump", "clear", "send"} => MaySend(t)
    BY <1>2 DEF Route, Refuse, Inject, Bump, Clear, Goto, SentInv, SentWhen, MaySend, Proxied
  <1> QED BY <1>1, <1>2, <1>3, FixedStays DEF SentInv, SentAsDecided, SentWhen

(* Nothing later changes what was sent.                                    *)
LEMMA SentLater ==
  ASSUME SentInv, NEW t \in Turns,
         \/ SendFails(t) \/ Reply(t) \/ Redirect(t) \/ WriterLocks(t) \/ WriterWrites(t)
         \/ Claim(t) \/ Abandon(t) \/ Post(t) \/ ModelFails(t) \/ Unary(t)
         \/ StreamBegins(t) \/ StreamEvent(t) \/ StreamEnds(t)
  PROVE  SentInv'
  <1>1. UNCHANGED <<setup, rq, sent>>
    BY DEF SendFails, Reply, Redirect, WriterLocks, WriterWrites, Claim, Abandon, Post,
           ModelFails, Unary, StreamBegins, StreamEvent, StreamEnds, fixed
  <1>2. \E l \in Pcs \ {"start", "bump", "clear", "send", "await"} :
           pc' = [pc EXCEPT ![t] = l] \/ pc' = pc
    BY DEF SendFails, Reply, Redirect, WriterLocks, WriterWrites, Claim, Abandon, Post,
           ModelFails, Unary, StreamBegins, StreamEvent, StreamEnds, Goto, Pcs
  <1> QED BY <1>1, <1>2, FixedStays DEF SentInv, SentAsDecided, SentWhen

LEMMA SentStutterInv == ASSUME SentInv, UNCHANGED vars PROVE SentInv'
  BY FixedStays DEF vars, fixed, SentInv, SentAsDecided, SentWhen

(* The client's own login stays with Anthropic.                            *)
LEMMA CredentialsKept ==
  /\ \A c : "client" \notin Credentials("router", c)
  /\ \A c : Credentials("anthropic", c) = c
  BY DEF Credentials

LEMMA SentRight == ASSUME LocalTurnAssumption, SentInv PROVE RightUpstream
  <1> SUFFICES ASSUME NEW t \in Turns, Proxied(t), sent[t] # None
      PROVE /\ sent[t].to = "anthropic" =>
                 /\ sent[t].auth = {"client"}
                 /\ IsRoutable(rq[t]) => ~IsVirtualModel(rq[t].model)
            /\ sent[t].to = "router" =>
                 /\ "client" \notin sent[t].auth
                 /\ ~(rq[t].path = "messages" /\ rq[t].thread)
                 /\ setup.mode = "selective" /\ rq[t].agent = None => rq[t].model # "claude"
    BY DEF RightUpstream
  <1>1. MaySend(t) /\ AsDecided(t, sent[t])  BY DEF SentInv, SentAsDecided
  <1>2. Fixed  BY DEF SentInv
  <1>3. sent[t].to = "router" => ~(rq[t].path = "messages" /\ rq[t].thread)
    BY <1>1, Zenon DEF MaySend, AsDecided, RefusesThread
  <1>4. sent[t].to = Decision(t).target /\ sent[t].auth = Credentials(sent[t].to, {"client"})
    BY <1>1, Zenon DEF AsDecided
  <1>5. CASE sent[t].to = "anthropic"
    BY <1>2, <1>4, <1>5, DecisionIsRight, CredentialsKept
  <1>6. CASE sent[t].to = "router"
    <2>1. "client" \notin sent[t].auth
      <3>1. sent[t].auth = Credentials("router", {"client"})  BY <1>4, <1>6
      <3> QED BY <3>1, CredentialsKept
    <2>2. setup.mode = "selective" /\ rq[t].agent = None => rq[t].model # "claude"
      BY <1>2, <1>4, <1>6, DecisionIsRight
    <2> QED BY <1>3, <1>6, <2>1, <2>2
  <1> QED BY <1>5, <1>6

(***************************************************************************)
(* What the adapter reports.  A callback is appended where the turn ends   *)
(* and nowhere else, with the credentials it claimed.                      *)
(***************************************************************************)
Outcome(t, result) ==
  result = "success" => stream[t].terminal = TRUE /\ stream[t].error = FALSE

Reported(t) ==
  IF pc[t] = "served" /\ HasDoc(t)
  THEN \E r \in {"success", "error"} :
         callbacks[t] = <<[status |-> r, auth |-> auth[t]]>> /\ Outcome(t, r)
  ELSE callbacks[t] = <<>>

StreamUnread(t) ==
  pc[t] \notin {"stream", "served"} => stream[t].terminal = FALSE /\ stream[t].error = FALSE

ReportTypes ==
  /\ pc \in [Turns -> Pcs]
  /\ stream \in [Turns -> [terminal : BOOLEAN, error : BOOLEAN]]
  /\ callbacks = [t \in Turns |-> callbacks[t]] /\ auth = [t \in Turns |-> auth[t]]

ReportInv == ReportTypes /\ \A t \in Turns : StreamUnread(t) /\ Reported(t)

LEMMA ReportInit == ASSUME Init PROVE ReportInv
  BY DEF Init, Pcs, ReportInv, ReportTypes, StreamUnread, Reported

(* What is reported of a turn depends on its own state only.               *)
LEMMA ReportOther ==
  ASSUME UNCHANGED rq, NEW u, UNCHANGED <<pc[u], stream[u], callbacks[u], auth[u]>>
  PROVE  (StreamUnread(u)' <=> StreamUnread(u)) /\ (Reported(u)' <=> Reported(u))
  BY DEF StreamUnread, Reported, Outcome, HasDoc

LEMMA ReportElsewhere ==
  ASSUME ReportInv, NEW t \in Turns,
         \/ Route(t) \/ Refuse(t) \/ Inject(t) \/ Bump(t) \/ Clear(t) \/ Send(t) \/ SendFails(t)
         \/ Reply(t) \/ Redirect(t) \/ WriterLocks(t) \/ WriterWrites(t)
         \/ Abandon(t) \/ Post(t) \/ StreamBegins(t)
  PROVE  ReportInv'
  <1>1. UNCHANGED <<rq, stream, callbacks, auth>>
    BY DEF Route, Refuse, Inject, Bump, Clear, Send, SendFails, Reply, Redirect, WriterLocks,
           WriterWrites, Abandon, Post, StreamBegins, fixed, routeVars, adapterVars
  <1>2. \/ pc' = pc
        \/ /\ pc[t] \notin {"stream", "served"}
           /\ \E l \in Pcs \ {"served"} : pc' = [pc EXCEPT ![t] = l]
    BY DEF Route, Refuse, Inject, Bump, Clear, Send, SendFails, Reply, Redirect, WriterLocks,
           WriterWrites, Abandon, Post, StreamBegins, Goto, Pcs
  <1> QED BY <1>1, <1>2, ReportOther
          DEF ReportInv, ReportTypes, StreamUnread, Reported, HasDoc, Outcome

LEMMA ReportClaim ==
  ASSUME ReportInv, NEW t \in Turns, Claim(t)
  PROVE  ReportInv'
  <1>1. UNCHANGED <<rq, stream, callbacks>> /\ pc[t] = "redirected"
           /\ pc' = [pc EXCEPT ![t] = "body"] /\ auth' = [u \in Turns |-> auth'[u]]
           /\ \A u \in Turns \ {t} : auth'[u] = auth[u]
    BY DEF Claim, Goto, fixed, ReportInv, ReportTypes
  <1> QED BY <1>1, ReportOther DEF ReportInv, ReportTypes, StreamUnread, Reported, Pcs

LEMMA ReportEvent ==
  ASSUME ReportInv, NEW t \in Turns, StreamEvent(t)
  PROVE  ReportInv'
  <1>1. UNCHANGED <<rq, pc, callbacks, auth>> /\ pc[t] = "stream"
    BY DEF StreamEvent, fixed
  <1>2. stream' \in [Turns -> [terminal : BOOLEAN, error : BOOLEAN]]
           /\ \A u \in Turns \ {t} : stream'[u] = stream[u]
    BY DEF StreamEvent, ReportInv, ReportTypes
  <1> QED BY <1>1, <1>2, ReportOther DEF ReportInv, ReportTypes, StreamUnread, Reported

(* The three ways a turn ends.                                             *)
LEMMA ReportEnd ==
  ASSUME ReportInv, NEW t \in Turns, ModelFails(t) \/ Unary(t) \/ StreamEnds(t)
  PROVE  ReportInv'
  <1>1. UNCHANGED <<rq, auth>> /\ pc[t] # "served" /\ pc' = [pc EXCEPT ![t] = "served"]
    BY DEF ModelFails, Unary, StreamEnds, Goto, fixed
  <1>2. stream' \in [Turns -> [terminal : BOOLEAN, error : BOOLEAN]]
           /\ \A u \in Turns \ {t} : stream'[u] = stream[u]
    BY DEF ModelFails, Unary, StreamEnds, ReportInv, ReportTypes
  <1>3. PICK r \in {"success", "error"} : Callback(t, r) /\ Outcome(t, r)'
    <2>1. CASE ModelFails(t)
      BY <2>1 DEF ModelFails, Outcome
    <2>2. CASE Unary(t)
      BY <2>2 DEF Unary, Outcome, ReportInv, ReportTypes, StreamUnread
    <2>3. CASE StreamEnds(t)
      BY <2>3 DEF StreamEnds, StreamResult, Outcome, ReportInv, ReportTypes
    <2> QED BY <2>1, <2>2, <2>3
  <1>4. callbacks' = [u \in Turns |-> callbacks'[u]]
           /\ \A u \in Turns \ {t} : callbacks'[u] = callbacks[u]
    BY <1>3 DEF Callback, ReportInv, ReportTypes
  <1>5. callbacks[t] = <<>>
    BY <1>1 DEF ReportInv, Reported
  <1>6. callbacks'[t] = IF HasDoc(t) THEN <<[status |-> r, auth |-> auth[t]]>> ELSE <<>>
    BY <1>3, <1>5 DEF Callback, ReportInv, ReportTypes
  <1>7. Reported(t)' /\ StreamUnread(t)'
    BY <1>1, <1>3, <1>6 DEF Reported, StreamUnread, HasDoc, ReportInv, ReportTypes
  <1>8. \A u \in Turns \ {t} : Reported(u)' /\ StreamUnread(u)'
    BY <1>1, <1>2, <1>4, ReportOther DEF ReportInv, ReportTypes
  <1>9. ReportTypes'
    BY <1>1, <1>2, <1>4 DEF ReportInv, ReportTypes, Pcs
  <1> QED BY <1>7, <1>8, <1>9 DEF ReportInv

LEMMA ReportStutterInv == ASSUME ReportInv, UNCHANGED vars PROVE ReportInv'
  BY ReportOther DEF vars, fixed, adapterVars, ReportInv, ReportTypes

(* See CallbackIsTrue.                                                     *)
LEMMA ReportTrue == ASSUME ReportInv PROVE CallbackIsTrue
  <1> SUFFICES ASSUME NEW t \in Turns
      PROVE /\ Len(callbacks[t]) = IF pc[t] = "served" /\ HasDoc(t) THEN 1 ELSE 0
            /\ \A i \in DOMAIN callbacks[t] :
                 callbacks[t][i].status = "success" => stream[t].terminal /\ ~stream[t].error
    BY DEF CallbackIsTrue
  <1>1. CASE pc[t] = "served" /\ HasDoc(t)
    <2>1. PICK r \in {"success", "error"} :
            callbacks[t] = <<[status |-> r, auth |-> auth[t]]>> /\ Outcome(t, r)
      BY <1>1 DEF ReportInv, Reported
    <2>2. Len(callbacks[t]) = 1 /\ DOMAIN callbacks[t] = {1} /\ callbacks[t][1].status = r
      BY <2>1
    <2>3. r = "success" => stream[t].terminal /\ ~stream[t].error
      BY <2>1 DEF Outcome
    <2> QED BY <1>1, <2>2, <2>3
  <1>2. CASE ~(pc[t] = "served" /\ HasDoc(t))
    <2>1. callbacks[t] = <<>>  BY <1>2 DEF ReportInv, Reported
    <2> QED BY <1>2, <2>1
  <1> QED BY <1>1, <1>2

(***************************************************************************)
(* Which credentials a callback has.  A turn that was redirected finds its *)
(* own in the cache, or they were evicted when the cache was full of other *)
(* turns' that were redirected before it asks.                             *)
(***************************************************************************)
AdapterPcs == {"redirected", "body", "model", "stream", "abandoned", "served"}
Redirected == {u \in Turns : WasRedirected(u)}
Crowded(t) == Cardinality(Redirected \ {t}) >= MaxAuthCacheEntries

CacheTypes ==
  /\ pc \in [Turns -> Pcs] /\ auth \in [Turns -> Auths]
  /\ DOMAIN cache \subseteq Turns /\ cache = [d \in DOMAIN cache |-> cache[d]]
  /\ \A d \in DOMAIN cache : cache[d] \in Auths
  /\ IsFiniteSet(DOMAIN cache) /\ Cardinality(DOMAIN cache) <= MaxAuthCacheEntries
  /\ IsFiniteSet(Redirected)

CacheHolds ==
  \A d \in DOMAIN cache :
    HasDoc(d) /\ pc[d] \in {"redirected", "abandoned"} /\ "router key" \in cache[d]
DirectAtAdapter == \A t \in Turns : ~HasDoc(t) => pc[t] \in AdapterPcs
KeyKept(t) ==
  HasDoc(t) =>
    /\ pc[t] = "redirected" => t \in DOMAIN cache \/ Crowded(t)
    /\ pc[t] \in {"body", "model", "stream", "served"} => "router key" \in auth[t] \/ Crowded(t)

CacheInv == CacheTypes /\ CacheHolds /\ DirectAtAdapter /\ \A t \in Turns : KeyKept(t)

LEMMA CacheInit == ASSUME LocalTurnAssumption, Init PROVE CacheInv
  <1>1. Redirected = {}
    BY DEF Init, Redirected, WasRedirected, HasDoc
  <1>2. DOMAIN cache = {} /\ cache = [d \in DOMAIN cache |-> cache[d]]
    BY DEF Init
  <1>3. IsFiniteSet({}) /\ Cardinality({}) <= MaxAuthCacheEntries
    BY FS_EmptySet DEF LocalTurnAssumption
  <1>4. pc \in [Turns -> Pcs] /\ auth \in [Turns -> Auths]
    BY DEF Init, Pcs, Auths
  <1>5. \A t \in Turns : /\ ~HasDoc(t) => pc[t] = "redirected"
                         /\ HasDoc(t) => pc[t] = "start"
    BY DEF Init, HasDoc
  <1> QED BY <1>1, <1>2, <1>3, <1>4, <1>5
          DEF CacheInv, CacheTypes, CacheHolds, DirectAtAdapter, AdapterPcs, KeyKept

(* Turns are never taken back from the adapter.                            *)
LEMMA RedirectedGrows ==
  ASSUME CacheInv, UNCHANGED rq, NEW t \in Turns, NEW l \in Pcs,
         pc' = [pc EXCEPT ![t] = l], pc[t] \in AdapterPcs => l \in AdapterPcs
  PROVE  /\ Redirected \subseteq Redirected' /\ IsFiniteSet(Redirected')
         /\ \A u \in Turns : Crowded(u) => Crowded(u)'
  <1>1. Redirected \subseteq Redirected' /\ Redirected' \subseteq Redirected \cup {t}
    BY DEF CacheInv, CacheTypes, Redirected, WasRedirected, HasDoc, AdapterPcs
  <1>2. IsFiniteSet(Redirected \cup {t})
    BY FS_AddElement DEF CacheInv, CacheTypes
  <1>3. IsFiniteSet(Redirected')
    BY <1>1, <1>2, FS_Subset
  <1>4. ASSUME NEW u \in Turns, Crowded(u) PROVE Crowded(u)'
    <2>1. Redirected \ {u} \subseteq Redirected' \ {u}  BY <1>1
    <2>2. IsFiniteSet(Redirected \ {u}) /\ IsFiniteSet(Redirected' \ {u})
      BY <1>3, FS_RemoveElement DEF CacheInv, CacheTypes
    <2>3. Cardinality(Redirected \ {u}) <= Cardinality(Redirected' \ {u})
      BY <2>1, <2>2, FS_Subset
    <2>4. Cardinality(Redirected \ {u}) \in Nat /\ Cardinality(Redirected' \ {u}) \in Nat
      BY <2>2, FS_CardinalityType
    <2> QED BY <1>4, <2>3, <2>4, LocalTurnAssumption DEF Crowded, LocalTurnAssumption
  <1> QED BY <1>1, <1>3, <1>4

(* The size of the cache after an entry took another's place.              *)
LEMMA StashSize ==
  ASSUME NEW D, IsFiniteSet(D), NEW t, t \notin D, NEW V \in SUBSET D, NEW M \in Nat \ {0},
         Cardinality(D) <= M,
         Cardinality(V) = IF Cardinality(D) >= M THEN Cardinality(D) + 1 - M ELSE 0
  PROVE  /\ IsFiniteSet((D \ V) \cup {t}) /\ Cardinality((D \ V) \cup {t}) <= M
         /\ V # {} => Cardinality((D \ V) \cup {t}) = M
  <1>1. IsFiniteSet(V) /\ IsFiniteSet(D \ V)  BY FS_Subset
  <1>2. Cardinality(V) \in Nat /\ Cardinality(D \ V) \in Nat /\ Cardinality(D) \in Nat
    BY <1>1, FS_CardinalityType
  <1>3. Cardinality(D) = Cardinality(D \ V) + Cardinality(V)
    <2>1. (D \ V) \cup V = D /\ (D \ V) \cap V = {}  OBVIOUS
    <2>2. Cardinality(D) = Cardinality(D \ V) + Cardinality(V) - 0
      BY <1>1, <2>1, FS_Union, FS_EmptySet
    <2> QED BY <1>2, <2>2
  <1>4. /\ IsFiniteSet((D \ V) \cup {t})
        /\ Cardinality((D \ V) \cup {t}) = Cardinality(D \ V) + 1
    BY <1>1, FS_AddElement
  <1>5. V # {} => Cardinality(V) # 0  BY <1>1, FS_EmptySet
  <1> QED BY <1>2, <1>3, <1>4, <1>5

LEMMA CacheRedirect ==
  ASSUME LocalTurnAssumption, CacheInv, SentInv, NEW t \in Turns, Redirect(t)
  PROVE  CacheInv'
  <1> DEFINE D == DOMAIN cache
  <1>1. UNCHANGED <<rq, auth>> /\ pc[t] = "await" /\ pc' = [pc EXCEPT ![t] = "redirected"]
    BY DEF Redirect, Goto, fixed, adapterVars
  <1>2. HasDoc(t) /\ t \notin D
    BY <1>1 DEF CacheInv, DirectAtAdapter, CacheHolds, AdapterPcs
  <1>3. sent[t].auth \in Auths /\ "router key" \in sent[t].auth
    <2>1. AsDecided(t, sent[t]) /\ sent[t].to = "router"
      BY <1>1 DEF SentInv, SentAsDecided, Redirect
    <2> QED BY <2>1 DEF AsDecided, Credentials, Auths
  <1>4. PICK victims \in SUBSET D :
          /\ Cardinality(victims) =
               IF Cardinality(D) >= MaxAuthCacheEntries
               THEN Cardinality(D) + 1 - MaxAuthCacheEntries ELSE 0
          /\ cache' = [d \in (D \ victims) \cup {t} |-> IF d = t THEN sent[t].auth ELSE cache[d]]
    BY <1>2 DEF Redirect, Stash
  <1> DEFINE E == (D \ victims) \cup {t}
  <1>5. /\ IsFiniteSet(E) /\ Cardinality(E) <= MaxAuthCacheEntries
        /\ victims # {} => Cardinality(E) = MaxAuthCacheEntries
    <2>1. IsFiniteSet(D) /\ Cardinality(D) <= MaxAuthCacheEntries
      BY DEF CacheInv, CacheTypes
    <2>2. MaxAuthCacheEntries \in Nat \ {0}
      BY DEF LocalTurnAssumption
    <2> QED BY <1>2, <1>4, <2>1, <2>2, StashSize
  <1>6. /\ DOMAIN cache' = E /\ cache' = [d \in E |-> cache'[d]] /\ cache'[t] = sent[t].auth
        /\ \A d \in E \ {t} : d \in D /\ cache'[d] = cache[d]
    BY <1>2, <1>4
  <1>7. /\ Redirected \subseteq Redirected' /\ IsFiniteSet(Redirected')
        /\ \A u \in Turns : Crowded(u) => Crowded(u)'
    BY <1>1, RedirectedGrows DEF AdapterPcs, Pcs
  <1>8. \A u \in Turns : HasDoc(u)' <=> HasDoc(u)
    BY <1>1 DEF HasDoc
  <1>9. CacheTypes'
    BY <1>1, <1>3, <1>5, <1>6, <1>7 DEF CacheInv, CacheTypes, Pcs
  <1>10. CacheHolds' /\ DirectAtAdapter'
    BY <1>1, <1>2, <1>3, <1>6, <1>8 DEF CacheInv, CacheTypes, CacheHolds, DirectAtAdapter, AdapterPcs
  <1>11. ASSUME NEW u \in Turns PROVE KeyKept(u)'
    <2>1. CASE u = t
      BY <1>1, <1>6, <2>1 DEF KeyKept, CacheInv, CacheTypes
    <2>2. CASE u # t /\ u \notin victims
      BY <1>1, <1>4, <1>6, <1>7, <1>8, <2>2 DEF KeyKept, CacheInv, CacheTypes
    <2>3. CASE u \in victims
      <3>1. E \subseteq Redirected' \ {u}
        <4> SUFFICES ASSUME NEW d \in E PROVE d \in Redirected' /\ d # u
          OBVIOUS
        <4>1. d # u /\ d \in Turns /\ HasDoc(d)
          BY <1>2, <1>4, <2>3 DEF CacheInv, CacheTypes, CacheHolds
        <4>2. pc'[d] \in AdapterPcs
          BY <1>1, <1>6, <4>1 DEF CacheInv, CacheTypes, CacheHolds, AdapterPcs
        <4> QED BY <1>8, <4>1, <4>2 DEF Redirected, WasRedirected, AdapterPcs
      <3>2. IsFiniteSet(Redirected' \ {u})
        BY <1>7, FS_RemoveElement
      <3>3. Cardinality(E) <= Cardinality(Redirected' \ {u})
        BY <3>1, <3>2, FS_Subset
      <3>4. Crowded(u)'
        BY <1>5, <2>3, <3>3 DEF Crowded
      <3> QED BY <1>1, <2>2, <2>3, <3>4 DEF KeyKept, CacheInv, CacheTypes
    <2> QED BY <2>1, <2>2, <2>3
  <1> QED BY <1>9, <1>10, <1>11 DEF CacheInv

LEMMA CacheClaim ==
  ASSUME LocalTurnAssumption, CacheInv, NEW t \in Turns, Claim(t)
  PROVE  CacheInv'
  <1>1. UNCHANGED rq /\ pc[t] = "redirected" /\ pc' = [pc EXCEPT ![t] = "body"]
    BY DEF Claim, Goto, fixed
  <1>2. /\ DOMAIN cache' \subseteq DOMAIN cache
        /\ \A d \in DOMAIN cache \ {t} : d \in DOMAIN cache'
        /\ \A d \in DOMAIN cache' : cache'[d] = cache[d]
        /\ HasDoc(t) => t \notin DOMAIN cache'
        /\ cache' = [d \in DOMAIN cache' |-> cache'[d]]
    BY DEF Claim, CacheInv, CacheTypes
  <1>3. auth'[t] \in Auths /\ auth' = [auth EXCEPT ![t] = auth'[t]]
    BY DEF Claim, CacheInv, CacheTypes, InboundAuth, Auths
  <1>4. HasDoc(t) /\ t \in DOMAIN cache => "router key" \in auth'[t]
    BY DEF Claim, CacheInv, CacheTypes, CacheHolds
  <1>5. IsFiniteSet(DOMAIN cache') /\ Cardinality(DOMAIN cache') <= MaxAuthCacheEntries
    <2>1. IsFiniteSet(DOMAIN cache') /\ Cardinality(DOMAIN cache') <= Cardinality(DOMAIN cache)
      BY <1>2, FS_Subset DEF CacheInv, CacheTypes
    <2>2. Cardinality(DOMAIN cache') \in Nat /\ Cardinality(DOMAIN cache) \in Nat
      BY <2>1, FS_CardinalityType DEF CacheInv, CacheTypes
    <2> QED BY <2>1, <2>2, LocalTurnAssumption DEF CacheInv, CacheTypes, LocalTurnAssumption
  <1>6. /\ Redirected \subseteq Redirected' /\ IsFiniteSet(Redirected')
        /\ \A u \in Turns : Crowded(u) => Crowded(u)'
    BY <1>1, RedirectedGrows DEF AdapterPcs, Pcs
  <1>7. \A u \in Turns : HasDoc(u)' <=> HasDoc(u)
    BY <1>1 DEF HasDoc
  <1>8. CacheTypes'
    BY <1>1, <1>2, <1>3, <1>5, <1>6 DEF CacheInv, CacheTypes, Pcs
  <1>9. t \notin DOMAIN cache'
    BY <1>2, <1>7 DEF CacheInv, CacheHolds
  <1>10. CacheHolds' /\ DirectAtAdapter'
    BY <1>1, <1>2, <1>7, <1>9
       DEF CacheInv, CacheTypes, CacheHolds, DirectAtAdapter, AdapterPcs
  <1>11. KeyKept(t)'
    <2>1. HasDoc(t) => "router key" \in auth'[t] \/ Crowded(t)'
      BY <1>1, <1>4, <1>6 DEF CacheInv, KeyKept
    <2> QED BY <1>1, <1>7, <2>1 DEF CacheInv, CacheTypes, KeyKept
  <1>12. ASSUME NEW u \in Turns \ {t} PROVE KeyKept(u)'
    <2>1. pc'[u] = pc[u] /\ auth'[u] = auth[u]
      BY <1>1, <1>3 DEF CacheInv, CacheTypes
    <2> QED BY <1>2, <1>6, <1>7, <2>1 DEF CacheInv, KeyKept
  <1> QED BY <1>8, <1>10, <1>11, <1>12 DEF CacheInv

(* Everything else leaves the cache and what was claimed alone.            *)
LEMMA CacheOther ==
  ASSUME LocalTurnAssumption, CacheInv, NEW t \in Turns,
         \/ Route(t) \/ Refuse(t) \/ Inject(t) \/ Bump(t) \/ Clear(t) \/ Send(t) \/ SendFails(t)
         \/ Reply(t) \/ WriterLocks(t) \/ WriterWrites(t) \/ Abandon(t) \/ Post(t)
         \/ ModelFails(t) \/ Unary(t) \/ StreamBegins(t) \/ StreamEvent(t) \/ StreamEnds(t)
  PROVE  CacheInv'
  <1>1. UNCHANGED <<rq, cache, auth>>
    BY DEF Route, Refuse, Inject, Bump, Clear, Send, SendFails, Reply, WriterLocks, WriterWrites,
           Abandon, Post, ModelFails, Unary, StreamBegins, StreamEvent, StreamEnds, fixed,
           adapterVars
  <1>2. \E l \in Pcs :
          /\ pc' = [pc EXCEPT ![t] = l]
          /\ l = "redirected" => pc[t] = "redirected"
          /\ l \in {"body", "model", "stream", "served"} =>
               pc[t] \in {"body", "model", "stream", "served"}
          /\ pc[t] \in AdapterPcs => l \in AdapterPcs
          /\ l = "abandoned" \/ pc[t] # "redirected" \/ l = pc[t]
          /\ pc[t] = "abandoned" => l = pc[t]
    BY DEF Route, Refuse, Inject, Bump, Clear, Send, SendFails, Reply, WriterLocks, WriterWrites,
           Abandon, Post, ModelFails, Unary, StreamBegins, StreamEvent, StreamEnds, Goto, Pcs,
           AdapterPcs, CacheInv, CacheTypes
  <1>3. PICK l \in Pcs :
          /\ pc' = [pc EXCEPT ![t] = l]
          /\ l = "redirected" => pc[t] = "redirected"
          /\ l \in {"body", "model", "stream", "served"} =>
               pc[t] \in {"body", "model", "stream", "served"}
          /\ pc[t] \in AdapterPcs => l \in AdapterPcs
          /\ l = "abandoned" \/ pc[t] # "redirected" \/ l = pc[t]
          /\ pc[t] = "abandoned" => l = pc[t]
    BY <1>2
  <1>4. /\ Redirected \subseteq Redirected' /\ IsFiniteSet(Redirected')
        /\ \A u \in Turns : Crowded(u) => Crowded(u)'
    BY <1>1, <1>3, RedirectedGrows
  <1>5. \A u \in Turns : HasDoc(u)' <=> HasDoc(u)
    BY <1>1 DEF HasDoc
  <1>6. CacheTypes'
    BY <1>1, <1>3, <1>4 DEF CacheInv, CacheTypes
  <1>7. CacheHolds' /\ DirectAtAdapter'
    BY <1>1, <1>3, <1>5 DEF CacheInv, CacheTypes, CacheHolds, DirectAtAdapter, AdapterPcs
  <1>8. \A u \in Turns : KeyKept(u)'
    BY <1>1, <1>3, <1>4, <1>5 DEF KeyKept, CacheInv, CacheTypes
  <1> QED BY <1>6, <1>7, <1>8 DEF CacheInv

LEMMA CacheStutterInv == ASSUME CacheInv, UNCHANGED vars PROVE CacheInv'
  BY DEF vars, fixed, adapterVars, CacheInv, CacheTypes, CacheHolds, DirectAtAdapter, KeyKept,
         HasDoc, Crowded, Redirected, WasRedirected

(* See CallbackIsAccepted.                                                 *)
LEMMA CacheAccepted ==
  ASSUME LocalTurnAssumption, CacheInv, ReportInv
  PROVE  CallbackIsAccepted
  <1> SUFFICES ASSUME NEW t \in Turns, NEW i \in DOMAIN callbacks[t]
      PROVE \/ "router key" \in callbacks[t][i].auth
            \/ Cardinality({u \in Turns \ {t} : WasRedirected(u)}) >= MaxAuthCacheEntries
    BY DEF CallbackIsAccepted
  <1>1. pc[t] = "served" /\ HasDoc(t)
    <2> SUFFICES ASSUME ~(pc[t] = "served" /\ HasDoc(t)) PROVE FALSE
      OBVIOUS
    <2>1. callbacks[t] = <<>>  BY DEF ReportInv, Reported
    <2> QED BY <2>1
  <1>2. callbacks[t][i].auth = auth[t]
    <2>1. PICK r \in {"success", "error"} : callbacks[t] = <<[status |-> r, auth |-> auth[t]]>>
      BY <1>1 DEF ReportInv, Reported
    <2> QED BY <2>1
  <1>3. "router key" \in auth[t] \/ Crowded(t)
    BY <1>1 DEF CacheInv, KeyKept
  <1>4. Redirected \ {t} = {u \in Turns \ {t} : WasRedirected(u)}
    BY DEF Redirected
  <1> QED BY <1>2, <1>3, <1>4 DEF Crowded

-----------------------------------------------------------------------------
(* All four together, for every turn of a daemon.                          *)
TurnInv == StatusInv /\ SentInv /\ ReportInv /\ CacheInv

LEMMA TurnInit == ASSUME LocalTurnAssumption, Init PROVE TurnInv
  BY StatusInit, SentInit, ReportInit, CacheInit DEF TurnInv, LocalTurnAssumption

LEMMA TurnStepInv == ASSUME LocalTurnAssumption, TurnInv, [DaemonNext]_allVars PROVE TurnInv'
  <1>1. CASE UNCHANGED vars
    BY <1>1, StatusStutterInv, SentStutterInv, ReportStutterInv, CacheStutterInv DEF TurnInv
  <1>2. ASSUME NEW t \in Turns, Step(t) PROVE TurnInv'
    <2>1. StatusInv'
      BY <1>2, StatusRouteInv, StatusAdapterInv DEF Step, TurnInv, LocalTurnAssumption
    <2>2. SentInv'
      BY <1>2, SentRoute, SentSend, SentLater DEF Step, TurnInv
    <2>3. ReportInv'
      BY <1>2, ReportElsewhere, ReportClaim, ReportEvent, ReportEnd DEF Step, TurnInv
    <2>4. CacheInv'
      BY <1>2, CacheRedirect, CacheClaim, CacheOther DEF Step, TurnInv
    <2> QED BY <2>1, <2>2, <2>3, <2>4 DEF TurnInv
  <1> QED BY <1>1, <1>2 DEF DaemonNext, allVars, Next

LEMMA TurnTypes == ASSUME LocalTurnAssumption, TurnInv PROVE TypeOK
  <1>1. StatusTypes /\ ReportTypes /\ CacheTypes
    BY DEF TurnInv, StatusInv, ReportInv, CacheInv
  <1>2. Range(cache) \subseteq Auths
    BY <1>1 DEF CacheTypes, Range
  <1>3. ASSUME NEW t \in Turns
        PROVE  callbacks[t] \in Seq([status : {"success", "error"}, auth : Auths])
    <2>1. CASE callbacks[t] = <<>>  BY <2>1
    <2>2. CASE \E r \in {"success", "error"} : callbacks[t] = <<[status |-> r, auth |-> auth[t]]>>
      BY <1>1, <2>2 DEF CacheTypes
    <2> QED BY <2>1, <2>2 DEF TurnInv, ReportInv, Reported
  <1>4. callbacks \in [Turns -> Seq([status : {"success", "error"}, auth : Auths])]
    BY <1>1, <1>3 DEF ReportTypes
  <1> QED BY <1>1, <1>2, <1>4 DEF TypeOK, StatusTypes, ReportTypes, CacheTypes

LEMMA TurnInvariant == DaemonSpec => []TurnInv
  <1>1. DaemonInit => TurnInv  BY LocalTurnAssumption, TurnInit DEF DaemonInit
  <1>2. TurnInv /\ [DaemonNext]_allVars => TurnInv'  BY LocalTurnAssumption, TurnStepInv
  <1> QED BY <1>1, <1>2, PTL DEF DaemonSpec

(* See RightUpstream: for any requests, any selection of subagents and both*)
(* modes, what a turn sends goes where it can be served, with the          *)
(* credentials meant for that place and no others.                         *)
THEOREM RequestsGoRight == DaemonSpec => []RightUpstream
  <1>1. TurnInv => RightUpstream  BY LocalTurnAssumption, SentRight DEF TurnInv
  <1> QED BY <1>1, TurnInvariant, PTL

(* See TurnRecordsAreTrue: for any number of turns and any size of the     *)
(* credential cache, the status file does not go back to before it was     *)
(* cleared, each local turn is reported once and truly, and with a key     *)
(* that the router accepts unless the cache was full in between.           *)
THEOREM TurnRecordsStayTrue == DaemonSpec => []TurnRecordsAreTrue
  <1>1. TurnInv => ClearedStaysCleared  BY StatusCleared DEF TurnInv
  <1>2. TurnInv => CallbackIsTrue       BY ReportTrue DEF TurnInv
  <1>3. TurnInv => CallbackIsAccepted   BY LocalTurnAssumption, CacheAccepted DEF TurnInv
  <1>4. TurnInv => TurnRecordsAreTrue   BY <1>1, <1>2, <1>3 DEF TurnRecordsAreTrue
  <1> QED BY <1>4, TurnInvariant, PTL

(***************************************************************************)
(* The request metrics: types.                                             *)
(***************************************************************************)
Total == [completed : Nat, errored : Nat, local : Nat, remote : Nat, tokens : Nat]
BookTypes ==
  /\ kind \in [Requests -> Kinds]
  /\ task \in [S!Tasks -> S!Pcs]
  /\ job \in [S!Tasks -> S!Jobs \cup {None}]
  /\ chunk \in [S!Tasks -> 0 .. Len(Usage)]
  /\ queue \in [Requests -> Seq(DOMAIN Usage)]
  /\ \A r \in Requests : Len(queue[r]) <= QueueCapacity
  /\ cut \subseteq Requests /\ abandoned \subseteq Requests
  /\ active \in [Requests -> S!Records \cup {None}]
  /\ \A r \in Requests : active[r] # None => active[r].id = r
  /\ recent \in Seq(S!Records) /\ Len(recent) <= RecentCapacity
  /\ forgotten \in Seq(S!Records)
  /\ totals \in Total

BookConstants ==
  /\ Estimate \in Nat /\ Usage \in Seq(Nat) /\ Usage # <<>>
  /\ None \notin Nat /\ None \notin S!Records /\ None \notin S!Jobs
  /\ Kinds \subseteq S!AllKinds
  /\ RecentCapacity \in Nat \ {0} /\ QueueCapacity \in Nat \ {0}

LEMMA BookAssumption == BookConstants
  BY DaemonAssumption DEF DaemonAssumption, BookConstants

LEMMA UsageTokens ==
  ASSUME BookConstants
  PROVE  /\ DOMAIN Usage = 1 .. Len(Usage) /\ Len(Usage) \in Nat \ {0}
         /\ \A i \in 1 .. Len(Usage) : Usage[i] \in S!Tokens
         /\ Estimate \in S!Tokens /\ S!Final \in S!Tokens
         /\ S!Tokens \subseteq Nat /\ None \notin S!Tokens
  <1>1. DOMAIN Usage = 1 .. Len(Usage) /\ Len(Usage) \in Nat \ {0}
    BY DEF BookConstants
  <1>2. \A i \in 1 .. Len(Usage) : Usage[i] \in S!Tokens /\ Usage[i] \in Nat
    BY <1>1 DEF BookConstants, S!Tokens, S!Range
  <1>3. S!Tokens \subseteq Nat
    BY <1>1, <1>2 DEF BookConstants, S!Tokens, S!Range
  <1> QED BY <1>1, <1>2, <1>3 DEF BookConstants, S!Final, S!Tokens

(* What a row and an update are made of.                                   *)
LEMMA RowIsRecord ==
  ASSUME BookConstants, BookTypes, NEW r \in Requests
  PROVE  S!Row(r) \in S!Records /\ S!Row(r).id = r
  <1>1. S!NewRow(r) \in S!Records /\ S!NewRow(r).id = r
    BY DEF S!NewRow, S!Records
  <1> QED BY <1>1 DEF BookTypes, S!Row

LEMMA RowChanged ==
  ASSUME BookConstants, NEW row \in S!Records
  PROVE  /\ \A x \in {None, "local", "remote"} :
              [row EXCEPT !.target = x] \in S!Records /\ [row EXCEPT !.target = x].id = row.id
         /\ \A x \in S!Tokens \cup {None} :
              [row EXCEPT !.tokens = S!Merge(@, x)] \in S!Records
                /\ [row EXCEPT !.tokens = S!Merge(@, x)].id = row.id
  BY DEF S!Records, S!Merge

LEMMA JobParts ==
  ASSUME NEW j \in S!Jobs
  PROVE  /\ j.op \in {"usage", "late"} => j.tokens \in S!Tokens
         /\ j.op = "adjust" => j.old \in Nat /\ j.new \in Nat
         /\ j.op \in {"errors", "count", "push"} => j.rec \in S!Records
         /\ j.op \in {"usage", "late", "adjust", "errors", "count", "push"}
  BY DEF S!Jobs

LEMMA JobMade ==
  /\ \A o \in {"usage", "late"}, x \in S!Tokens : [op |-> o, tokens |-> x] \in S!Jobs
  /\ \A x, y \in Nat : [op |-> "adjust", old |-> x, new |-> y] \in S!Jobs
  /\ \A o \in {"errors", "count", "push"}, rec \in S!Records : [op |-> o, rec |-> rec] \in S!Jobs
  BY DEF S!Jobs

LEMMA TotalParts ==
  ASSUME NEW a \in Total
  PROVE  a.completed \in Nat /\ a.errored \in Nat /\ a.local \in Nat /\ a.remote \in Nat
           /\ a.tokens \in Nat
  BY DEF Total

LEMMA TotalChanged ==
  ASSUME NEW a \in Total, NEW c \in Nat, NEW l \in Nat, NEW r \in Nat, NEW x \in Nat
  PROVE  /\ [a EXCEPT !.errored = x] \in Total /\ [a EXCEPT !.tokens = x] \in Total
         /\ [a EXCEPT !.completed = c, !.local = l, !.remote = r, !.tokens = x] \in Total
  BY DEF Total

(* A set of positions has a last one.                                      *)
LEMMA LastIndex ==
  ASSUME NEW n \in Nat, NEW I \in SUBSET (1 .. n), I # {}
  PROVE  (CHOOSE i \in I : \A j \in I : j <= i) \in I
  <1> DEFINE T == {n - i : i \in I}
  <1>1. T \subseteq Nat
    <2>1. \A i \in I : n - i \in Nat  OBVIOUS
    <2> QED BY <2>1
  <1>2. T # {}
    OBVIOUS
  <1>3. PICK x \in T : \A y \in T : ~(<<y, x>> \in OpToRel(<, Nat))
    BY <1>1, <1>2, NatLessThanWellFounded, WFMin
  <1>4. \A y \in T : ~(y < x)
    BY <1>1, <1>3 DEF OpToRel
  <1>5. PICK i \in I : x = n - i
    BY <1>3
  <1>6. \A j \in I : j <= i
    <2> SUFFICES ASSUME NEW j \in I PROVE j <= i
      OBVIOUS
    <2>1. ~(n - j < n - i)  BY <1>4, <1>5
    <2> QED BY <2>1
  <1> QED BY <1>6

LEMMA TaskParts ==
  /\ \A t \in S!Tasks : S!Req(t) \in Requests /\ t[1] \in {"main", "helper"}
                          /\ t = <<t[1], S!Req(t)>>
  /\ \A r \in Requests : <<"main", r>> \in S!Tasks /\ <<"helper", r>> \in S!Tasks
                          /\ S!Req(<<"main", r>>) = r /\ S!Req(<<"helper", r>>) = r
  BY DEF S!Tasks, S!Req

(* The updates.                                                            *)
LEMMA TypesApply ==
  ASSUME BookConstants, BookTypes, NEW t \in S!Tasks, S!Apply(t)
  PROVE  BookTypes'
  <1> DEFINE r == S!Req(t)
  <1>1. r \in Requests /\ job[t] # None /\ job[t] \in S!Jobs
    BY TaskParts DEF BookTypes, S!Apply, S!ApplyUsage, S!MergeRecent, S!Adjust, S!CountError,
          S!CountTotals, S!Push
  <1>2. CASE S!ApplyUsage(t)
    <2>1. job[t].tokens \in S!Tokens  BY <1>1, <1>2, JobParts DEF S!ApplyUsage
    <2>2. CASE active[r] # None
      <3>1. active' = [active EXCEPT ![r].tokens = S!Merge(@, job[t].tokens)]
              /\ job' = [job EXCEPT ![t] = None]
        BY <1>2, <2>2 DEF S!ApplyUsage, S!End
      <3>2. active' = [active EXCEPT ![r] = [active[r] EXCEPT !.tokens = S!Merge(@, job[t].tokens)]]
        BY <3>1
      <3>3. active[r] \in S!Records /\ active[r].id = r
        BY <1>1, <2>2 DEF BookTypes
      <3> DEFINE row == [active[r] EXCEPT !.tokens = S!Merge(@, job[t].tokens)]
      <3>4. row \in S!Records /\ row.id = r
        BY <2>1, <3>3, RowChanged
      <3>5. active' = [active EXCEPT ![r] = row]
        BY <3>2
      <3> HIDE DEF row
      <3> QED BY <1>1, <1>2, <3>1, <3>4, <3>5 DEF BookTypes, S!ApplyUsage, S!queueVars
    <2>3. CASE active[r] = None
      <3>1. job' = [job EXCEPT ![t] = [op |-> "late", tokens |-> job[t].tokens]]
              /\ active' = active
        BY <1>2, <2>3 DEF S!ApplyUsage, S!Begin
      <3>2. [op |-> "late", tokens |-> job[t].tokens] \in S!Jobs
        BY <2>1, JobMade
      <3> QED BY <1>1, <1>2, <3>1, <3>2 DEF BookTypes, S!ApplyUsage, S!queueVars
    <2> QED BY <2>2, <2>3
  <1>3. CASE S!Adjust(t)
    <2>1. job[t].old \in Nat /\ job[t].new \in Nat  BY <1>1, <1>3, JobParts DEF S!Adjust
    <2>2. totals' \in Total
      <3> DEFINE x == S!AdjustTotal(totals.tokens, job[t].old, job[t].new)
      <3>1. totals' = [totals EXCEPT !.tokens = x]  BY <1>3, Zenon DEF S!Adjust
      <3>2. totals \in Total  BY DEF BookTypes
      <3>3. totals.tokens \in Nat  BY <3>2, TotalParts
      <3>4. x \in Nat  BY <2>1, <3>3 DEF S!AdjustTotal
      <3> HIDE DEF x
      <3> QED BY <3>1, <3>2, <3>4, TotalChanged
    <2> QED BY <1>1, <1>3, <2>2 DEF BookTypes, S!Adjust, S!End, S!queueVars
  <1>4. CASE S!CountError(t)
    <2>1. job[t].rec \in S!Records  BY <1>1, <1>4, JobParts DEF S!CountError
    <2>2. [job[t] EXCEPT !.op = "count"] \in S!Jobs
      BY <1>1, <1>4, <2>1 DEF S!CountError, S!Jobs
    <2>3. totals' \in Total
      <3> DEFINE x == totals.errored + 1
      <3>1. totals' = [totals EXCEPT !.errored = x]  BY <1>4, Zenon DEF S!CountError
      <3>2. totals \in Total  BY DEF BookTypes
      <3>3. x \in Nat  BY <3>2, TotalParts
      <3> HIDE DEF x
      <3> QED BY <3>1, <3>2, <3>3, TotalChanged
    <2> QED BY <1>1, <1>4, <2>2, <2>3 DEF BookTypes, S!CountError, S!Begin, S!queueVars
  <1>5. CASE S!CountTotals(t)
    <2>1. job[t].rec \in S!Records  BY <1>1, <1>5, JobParts DEF S!CountTotals
    <2>2. [job[t] EXCEPT !.op = "push"] \in S!Jobs
      BY <1>1, <1>5, <2>1 DEF S!CountTotals, S!Jobs
    <2>3. S!Count(job[t].rec.tokens) \in Nat
      BY <2>1, UsageTokens DEF S!Count, S!Records
    <2>4. totals' \in Total
      <3> DEFINE c == totals.completed + 1
                 l == totals.local + (IF job[t].rec.target = "local" THEN 1 ELSE 0)
                 m == totals.remote + (IF job[t].rec.target \in {None, "local"} THEN 0 ELSE 1)
                 x == totals.tokens + S!Count(job[t].rec.tokens)
      <3>1. totals' = [totals EXCEPT !.completed = c, !.local = l, !.remote = m, !.tokens = x]
        BY <1>5, Zenon DEF S!CountTotals
      <3>2. totals \in Total  BY DEF BookTypes
      <3>3. c \in Nat /\ l \in Nat /\ m \in Nat /\ x \in Nat
        BY <2>3, <3>2, TotalParts
      <3> HIDE DEF c, l, m, x
      <3> QED BY <3>1, <3>2, <3>3, TotalChanged
    <2> QED BY <1>1, <1>5, <2>2, <2>4 DEF BookTypes, S!CountTotals, S!Begin, S!queueVars
  <1>6. CASE S!MergeRecent(t)
    <2> DEFINE mine == {i \in DOMAIN recent : recent[i].id = r}
               last == CHOOSE i \in mine : \A j \in mine : j <= i
    <2>1. job[t].tokens \in S!Tokens  BY <1>1, <1>6, JobParts DEF S!MergeRecent
    <2>5. mine \in SUBSET (1 .. Len(recent)) /\ Len(recent) \in Nat
      BY DEF BookTypes
    <2>2. CASE mine = {}
      BY <1>1, <1>6, <2>2 DEF BookTypes, S!MergeRecent, S!End, S!queueVars
    <2>3. CASE mine # {} /\ last \in DOMAIN recent
      <3> DEFINE rec == [recent[last] EXCEPT !.tokens = S!Merge(@, job[t].tokens)]
                 new == [op |-> "adjust", old |-> S!Count(recent[last].tokens),
                         new |-> S!Count(recent'[last].tokens)]
      <3>1. recent' = [recent EXCEPT ![last] = rec] /\ job' = [job EXCEPT ![t] = new]
        BY <1>6, <2>3 DEF S!MergeRecent, S!Begin
      <3>2. recent[last] \in S!Records  BY <2>3 DEF BookTypes
      <3>3. rec \in S!Records  BY <2>1, <3>2, RowChanged
      <3>4. recent' \in Seq(S!Records) /\ Len(recent') = Len(recent) /\ recent'[last] = rec
        <4> HIDE DEF rec, last, mine
        <4> QED BY <2>3, <3>1, <3>3 DEF BookTypes
      <3>5. S!Count(recent[last].tokens) \in Nat /\ S!Count(rec.tokens) \in Nat
        BY <3>2, <3>3, UsageTokens DEF S!Count, S!Records
      <3>6. new \in S!Jobs  BY <3>4, <3>5, JobMade
      <3> HIDE DEF new, rec, last, mine
      <3> QED BY <1>1, <1>6, <3>1, <3>4, <3>6 DEF BookTypes, S!MergeRecent, S!queueVars
    <2>4. mine # {} => last \in mine
      <3> HIDE DEF mine
      <3> QED BY <2>5, LastIndex
    <2> QED BY <2>2, <2>3, <2>4
  <1>7. CASE S!Push(t)
    <2> DEFINE all == Append(recent, job[t].rec)
               evicted == IF Len(all) > RecentCapacity THEN Len(all) - RecentCapacity ELSE 0
    <2>1. job[t].rec \in S!Records  BY <1>1, <1>7, JobParts DEF S!Push
    <2>2. all \in Seq(S!Records) /\ Len(all) = Len(recent) + 1
      BY <2>1 DEF BookTypes
    <2>3. evicted \in 0 .. Len(all) /\ Len(all) - evicted <= RecentCapacity
      BY <2>2 DEF BookTypes, BookConstants
    <2>4. recent' = SubSeq(all, evicted + 1, Len(all))
            /\ forgotten' = forgotten \o SubSeq(all, 1, evicted)
      BY <1>7 DEF S!Push
    <2>5. recent' \in Seq(S!Records) /\ Len(recent') <= RecentCapacity
            /\ forgotten' \in Seq(S!Records)
      <3> HIDE DEF all, evicted
      <3> QED BY <2>2, <2>3, <2>4 DEF BookTypes, BookConstants
    <2> QED BY <1>1, <1>7, <2>5 DEF BookTypes, S!Push, S!End, S!queueVars
  <1> QED BY <1>2, <1>3, <1>4, <1>5, <1>6, <1>7 DEF S!Apply

(* The tasks.                                                              *)
LEMMA TypesClose ==
  ASSUME BookConstants, BookTypes, NEW t \in S!Tasks, NEW o \in {"completed", "error"},
         NEW x \in S!Tokens \cup {None}, S!CloseRow(t, o, x)
  PROVE  /\ active' \in [Requests -> S!Records \cup {None}]
         /\ \A r \in Requests : active'[r] # None => active'[r].id = r
         /\ active' = [active EXCEPT ![S!Req(t)] = None]
         /\ \E rec \in S!Records :
              /\ rec.id = S!Req(t) /\ rec.outcome = o /\ (x # None => rec.tokens = x)
              /\ job' = [job EXCEPT ![t] = [op |-> IF o = "error" THEN "errors" ELSE "count",
                                            rec |-> rec]]
         /\ job' \in [S!Tasks -> S!Jobs \cup {None}]
         /\ UNCHANGED <<recent, forgotten, totals>>
  <1> DEFINE r == S!Req(t)
             rec == [S!Row(r) EXCEPT !.outcome = o, !.tokens = S!Merge(@, x)]
             new == [op |-> IF o = "error" THEN "errors" ELSE "count", rec |-> rec]
  <1>1. r \in Requests  BY TaskParts
  <1>2. S!Row(r) \in S!Records /\ S!Row(r).id = r
    BY <1>1, RowIsRecord
  <1>3. rec \in S!Records /\ rec.id = r /\ rec.outcome = o /\ (x # None => rec.tokens = x)
    <2> DEFINE row == S!Row(r)
    <2>1. rec = [row EXCEPT !.outcome = o, !.tokens = S!Merge(@, x)]  OBVIOUS
    <2>2. row \in S!Records /\ row.id = r  BY <1>2
    <2> HIDE DEF row, rec, r, new
    <2> QED BY <2>1, <2>2 DEF S!Records, S!Merge
  <1>4. new \in S!Jobs  BY <1>3, JobMade
  <1>5. active' = [active EXCEPT ![r] = None] /\ job' = [job EXCEPT ![t] = new]
          /\ UNCHANGED <<recent, forgotten, totals>>
    BY DEF S!CloseRow, S!Begin
  <1>6. job' \in [S!Tasks -> S!Jobs \cup {None}]
    <2> HIDE DEF new
    <2> QED BY <1>4, <1>5 DEF BookTypes
  <1>7. active' \in [Requests -> S!Records \cup {None}]
          /\ \A q \in Requests : active'[q] # None => active'[q].id = q
    BY <1>1, <1>5 DEF BookTypes
  <1> HIDE DEF rec
  <1> QED BY <1>1, <1>2, <1>3, <1>5, <1>6, <1>7

(* Where the tasks go.                                                     *)
LEMMA TaskTypes ==
  ASSUME BookTypes, NEW t \in S!Tasks, S!Serve(t) \/ S!Observe(t) \/ S!ObserverEnds(t)
  PROVE  task' \in [S!Tasks -> S!Pcs]
  <1>0. task \in [S!Tasks -> S!Pcs]  BY DEF BookTypes
  <1>1. ASSUME NEW l \in S!Pcs, S!Goto(t, l) PROVE task' \in [S!Tasks -> S!Pcs]
    BY <1>0, <1>1 DEF S!Goto
  <1>2. CASE S!Respond(t)
    <2>1. \E l \in S!Pcs : S!Goto(t, l)
      BY <1>2 DEF S!Respond, S!Pcs
    <2> QED BY <1>1, <2>1
  <1>3. CASE S!RouteDecided(t)
    BY <1>1, <1>3 DEF S!RouteDecided, S!Pcs
  <1>4. CASE S!SendFails(t) \/ S!Completed(t) \/ S!Errored(t)
    <2>1. S!Goto(t, "done")  BY <1>4, Zenon DEF S!SendFails, S!Completed, S!Errored
    <2> QED BY <1>1, <2>1 DEF S!Pcs
  <1>5. CASE S!StreamEnds(t)
    <2>1. S!Goto(t, "close")  BY <1>5, Zenon DEF S!StreamEnds
    <2> QED BY <1>1, <2>1 DEF S!Pcs
  <1>6. CASE S!Chunk(t) \/ S!Observe(t)
    <2>1. task' = task  BY <1>6, Zenon DEF S!Chunk, S!Observe, S!storeVars
    <2> QED BY <1>0, <2>1
  <1>7. CASE S!EstimateUsage(t) \/ S!Post(t) \/ S!Deliver(t)
    BY <1>0, <1>7, TaskParts DEF S!EstimateUsage, S!Post, S!Deliver, S!Goto, S!Pcs, S!Adapter
  <1>8. CASE S!Started(t) \/ S!Abandon(t) \/ S!ObserverEnds(t)
    BY <1>1, <1>8 DEF S!Started, S!Abandon, S!ObserverEnds, S!Pcs
  <1> QED BY <1>2, <1>3, <1>4, <1>5, <1>6, <1>7, <1>8 DEF S!Serve

LEMMA TypesServe ==
  ASSUME BookConstants, BookTypes, NEW t \in S!Tasks,
         S!Serve(t) \/ S!Observe(t) \/ S!ObserverEnds(t)
  PROVE  BookTypes'
  <1> DEFINE r == S!Req(t)
  <1>1. r \in Requests  BY TaskParts
  <1>2. task' \in [S!Tasks -> S!Pcs]  BY TaskTypes
  <1>3. ASSUME NEW row \in S!Records, row.id = r, active' = [active EXCEPT ![r] = row]
        PROVE  /\ active' \in [Requests -> S!Records \cup {None}]
               /\ \A q \in Requests : active'[q] # None => active'[q].id = q
    BY <1>1, <1>3 DEF BookTypes
  <1>4. ASSUME NEW new \in S!Jobs, job' = [job EXCEPT ![t] = new]
        PROVE  job' \in [S!Tasks -> S!Jobs \cup {None}]
    BY <1>4 DEF BookTypes
  <1>5. CASE S!Started(t)
    <2>1. active' = [active EXCEPT ![r] = S!Row(r)]  BY <1>5 DEF S!Started
    <2> QED BY <1>1, <1>2, <1>3, <1>5, <2>1, RowIsRecord DEF S!Started, BookTypes, S!queueVars
  <1>6. CASE S!RouteDecided(t)
    <2> DEFINE row == [S!Row(r) EXCEPT !.target = S!Target(t)]
    <2>1. active' = [active EXCEPT ![r] = row]  BY <1>6 DEF S!RouteDecided
    <2>2. row \in S!Records /\ row.id = r
      BY <1>1, RowIsRecord, RowChanged DEF S!Target
    <2> HIDE DEF row
    <2> QED BY <1>1, <1>2, <1>3, <1>6, <2>1, <2>2 DEF S!RouteDecided, BookTypes, S!queueVars
  <1>7. CASE S!EstimateUsage(t)
    <2> DEFINE new == [op |-> "usage", tokens |-> Estimate]
    <2>1. job' = [job EXCEPT ![t] = new]  BY <1>7 DEF S!EstimateUsage, S!Begin
    <2>2. new \in S!Jobs  BY JobMade, UsageTokens
    <2> HIDE DEF new
    <2> QED BY <1>1, <1>2, <1>4, <1>7, <2>1, <2>2
            DEF S!EstimateUsage, BookTypes, S!queueVars, S!storeVars
  <1>8. CASE S!Post(t) \/ S!Deliver(t) \/ S!Abandon(t) \/ S!ObserverEnds(t)
    BY <1>1, <1>2, <1>8
       DEF S!Post, S!Deliver, S!Abandon, S!ObserverEnds, BookTypes, S!queueVars, S!storeVars
  <1>9. CASE S!Respond(t)
    <2> DEFINE row == [S!Row(r) EXCEPT !.target = IF kind[r] = "redirect" THEN "local" ELSE "remote"]
    <2>1. active' = [active EXCEPT ![r] = row] \/ active' = active
      BY <1>9 DEF S!Respond
    <2>2. row \in S!Records /\ row.id = r
      BY <1>1, RowIsRecord, RowChanged
    <2>3. UNCHANGED <<kind, job, chunk, queue, cut, abandoned, recent, forgotten, totals>>
      BY <1>9 DEF S!Respond, S!queueVars
    <2> HIDE DEF row
    <2> QED BY <1>1, <1>2, <1>3, <2>1, <2>2, <2>3 DEF BookTypes
  <1>10. CASE S!SendFails(t)
    <2>1. S!CloseRow(t, "error", None)  BY <1>10 DEF S!SendFails
    <2> QED BY <1>1, <1>2, <1>10, <2>1, TypesClose DEF S!SendFails, BookTypes, S!queueVars
  <1>11. CASE S!Errored(t)
    <2>1. S!CloseRow(t, "error", None)  BY <1>11 DEF S!Errored
    <2> QED BY <1>1, <1>2, <1>11, <2>1, TypesClose DEF S!Errored, BookTypes, S!queueVars
  <1>12. CASE S!Completed(t)
    <2>1. PICK x \in S!Tokens : S!CloseRow(t, "completed", x)
      BY <1>12, UsageTokens DEF S!Completed
    <2>2. UNCHANGED <<kind, chunk, queue, cut, abandoned>>  BY <1>12 DEF S!Completed, S!queueVars
    <2> QED BY <1>1, <1>2, <2>1, <2>2, TypesClose DEF BookTypes
  <1>13. CASE S!Chunk(t)
    <2> DEFINE i == chunk[t] + 1
               new == [op |-> "usage", tokens |-> Usage[i]]
    <2>1. i \in 1 .. Len(Usage) /\ chunk' = [chunk EXCEPT ![t] = i]
      BY <1>13, UsageTokens DEF S!Chunk, BookTypes
    <2>2. active' = [active EXCEPT ![r] = S!Row(r)] \/ active' = active
      BY <1>13 DEF S!Chunk
    <2>3. new \in S!Jobs  BY <2>1, JobMade, UsageTokens
    <2>4. job' = [job EXCEPT ![t] = new] \/ job' = job
      BY <1>13 DEF S!Chunk, S!Begin
    <2>5. /\ queue' \in [Requests -> Seq(DOMAIN Usage)]
          /\ \A q \in Requests : Len(queue'[q]) <= QueueCapacity
          /\ cut' \subseteq Requests
      <3>1. CASE UNCHANGED <<queue, cut>>  BY <3>1 DEF BookTypes
      <3>2. CASE UNCHANGED queue /\ cut' = cut \cup {r}  BY <1>1, <3>2 DEF BookTypes
      <3>3. CASE /\ UNCHANGED cut /\ Len(queue[r]) < QueueCapacity
                 /\ queue' = [queue EXCEPT ![r] = Append(@, i)]
        <4>1. i \in DOMAIN Usage  BY <2>1, UsageTokens
        <4> HIDE DEF i
        <4>2. queue[r] \in Seq(DOMAIN Usage) /\ Len(queue[r]) \in Nat
          BY <1>1 DEF BookTypes
        <4>3. Append(queue[r], i) \in Seq(DOMAIN Usage)
                /\ Len(Append(queue[r], i)) = Len(queue[r]) + 1
          BY <4>1, <4>2
        <4>4. Len(Append(queue[r], i)) <= QueueCapacity
          BY <3>3, <4>2, <4>3 DEF BookConstants
        <4> QED BY <1>1, <3>3, <4>3, <4>4 DEF BookTypes
      <3> QED BY <1>13, <3>1, <3>2, <3>3 DEF S!Chunk, S!queueVars
    <2>6. UNCHANGED <<kind, abandoned, recent, forgotten, totals>>
      BY <1>13 DEF S!Chunk
    <2> HIDE DEF i, new
    <2>7. active' \in [Requests -> S!Records \cup {None}]
            /\ \A q \in Requests : active'[q] # None => active'[q].id = q
      BY <1>1, <1>3, <2>2, RowIsRecord DEF BookTypes
    <2>8. job' \in [S!Tasks -> S!Jobs \cup {None}]
      BY <1>4, <2>3, <2>4 DEF BookTypes
    <2>9. chunk' \in [S!Tasks -> 0 .. Len(Usage)]
      BY <2>1, UsageTokens DEF BookTypes
    <2> QED BY <1>2, <2>5, <2>6, <2>7, <2>8, <2>9 DEF BookTypes
  <1>14. CASE S!StreamEnds(t)
    <2> DEFINE new == [op |-> "usage", tokens |-> Usage[chunk[t]]]
    <2>1. \/ chunk[t] > 0 /\ job' = [job EXCEPT ![t] = new]
          \/ job' = job
      BY <1>14 DEF S!StreamEnds, S!Begin, S!Decodable
    <2>2. chunk[t] > 0 => new \in S!Jobs
      BY JobMade, UsageTokens DEF BookTypes
    <2>3. UNCHANGED <<kind, chunk, queue, cut, abandoned, active, recent, forgotten, totals>>
      BY <1>14 DEF S!StreamEnds, S!queueVars, S!storeVars
    <2> HIDE DEF new
    <2> QED BY <1>2, <1>4, <2>1, <2>2, <2>3 DEF BookTypes
  <1>15. CASE S!Observe(t)
    <2> DEFINE new == [op |-> "usage", tokens |-> Usage[Head(queue[r])]]
    <2>1. queue[r] \in Seq(DOMAIN Usage) /\ queue[r] # <<>>
      BY <1>1, <1>15 DEF S!Observe, BookTypes
    <2>2. Head(queue[r]) \in DOMAIN Usage /\ Tail(queue[r]) \in Seq(DOMAIN Usage)
            /\ Len(Tail(queue[r])) = Len(queue[r]) - 1 /\ Len(queue[r]) \in Nat
      <3> HIDE DEF new
      <3> DEFINE q == queue[r]
      <3>1. q \in Seq(DOMAIN Usage) /\ q # <<>>  BY <2>1
      <3> HIDE DEF q
      <3>2. Head(q) \in DOMAIN Usage /\ Tail(q) \in Seq(DOMAIN Usage)
              /\ Len(Tail(q)) = Len(q) - 1 /\ Len(q) \in Nat
        BY <3>1
      <3> QED BY <3>2 DEF q
    <2>3. new \in S!Jobs  BY <2>2, JobMade, UsageTokens
    <2>4. queue' = [queue EXCEPT ![r] = Tail(queue[r])] /\ job' = [job EXCEPT ![t] = new]
      BY <1>15 DEF S!Observe, S!Begin
    <2>5. UNCHANGED <<kind, task, chunk, cut, abandoned, active, recent, forgotten, totals>>
      BY <1>15 DEF S!Observe, S!storeVars
    <2>6. \A q \in Requests : Len(queue'[q]) <= QueueCapacity
      BY <1>1, <2>2, <2>4 DEF BookTypes, BookConstants
    <2>7. queue' \in [Requests -> Seq(DOMAIN Usage)]
      BY <1>1, <2>2, <2>4 DEF BookTypes
    <2> HIDE DEF new
    <2> QED BY <1>2, <1>4, <2>3, <2>4, <2>5, <2>6, <2>7 DEF BookTypes
  <1> QED BY <1>5, <1>6, <1>7, <1>8, <1>9, <1>10, <1>11, <1>12, <1>13, <1>14, <1>15 DEF S!Serve

LEMMA TypesInit == ASSUME BookConstants, S!Init PROVE BookTypes
  <1>1. DOMAIN Usage = 1 .. Len(Usage) /\ Len(Usage) \in Nat \ {0}  BY UsageTokens
  <1>2. totals \in Total  BY DEF S!Init, Total
  <1>3. task \in [S!Tasks -> S!Pcs]  BY DEF S!Init, S!Pcs
  <1>4. kind \in [Requests -> Kinds] /\ job \in [S!Tasks -> S!Jobs \cup {None}]
          /\ chunk \in [S!Tasks -> 0 .. Len(Usage)] /\ cut = {} /\ abandoned = {}
    BY <1>1 DEF S!Init
  <1>5. \A r \in Requests : queue[r] = <<>> /\ active[r] = None
    BY DEF S!Init
  <1>6. queue \in [Requests -> Seq(DOMAIN Usage)] /\ active \in [Requests -> S!Records \cup {None}]
    BY DEF S!Init
  <1>7. recent = <<>> /\ forgotten = <<>>  BY DEF S!Init
  <1>8. recent \in Seq(S!Records) /\ Len(recent) <= RecentCapacity /\ forgotten \in Seq(S!Records)
    BY <1>7 DEF BookConstants
  <1>9. \A r \in Requests : Len(queue[r]) <= QueueCapacity
    BY <1>5 DEF BookConstants
  <1> QED BY <1>2, <1>3, <1>4, <1>5, <1>6, <1>8, <1>9 DEF BookTypes

LEMMA TypesStep == ASSUME BookConstants, BookTypes, [DaemonNext]_allVars PROVE BookTypes'
  <1>1. CASE S!Next
    BY <1>1, TypesApply, TypesServe DEF S!Next
  <1>2. CASE UNCHANGED metricsVars
    BY <1>2 DEF metricsVars, BookTypes
  <1> QED BY <1>1, <1>2 DEF DaemonNext, allVars

LEMMA BookTypesHold == DaemonSpec => []BookTypes
  <1>1. DaemonInit => BookTypes  BY BookAssumption, TypesInit DEF DaemonInit
  <1>2. BookTypes /\ [DaemonNext]_allVars => BookTypes'  BY BookAssumption, TypesStep
  <1> QED BY <1>1, <1>2, PTL DEF DaemonSpec

(* For any constants the three parts keep their types: among them that the *)
(* credential cache, the records and the observers' queues never hold more *)
(* than their capacity.                                                    *)
THEOREM DaemonTypesHold == DaemonSpec => []DaemonTypeOK
  <1>1. TurnInv => TypeOK  BY LocalTurnAssumption, TurnTypes
  <1>2. BookTypes => S!TypeOK  BY DEF BookTypes, S!TypeOK, Total
  <1>3. TurnInv /\ A!TypeOK /\ BookTypes => DaemonTypeOK
    BY <1>1, <1>2 DEF DaemonTypeOK
  <1>4. DaemonInit => A!TypeOK  BY CaConstants, CaInit DEF DaemonInit, CaInv
  <1>5. A!TypeOK /\ [DaemonNext]_allVars => A!TypeOK'
    BY CaConstants, CaTypes DEF DaemonNext, allVars, caVars, A!TypeOK
  <1> QED BY <1>3, <1>4, <1>5, TurnInvariant, BookTypesHold, PTL DEF DaemonSpec

-----------------------------------------------------------------------------
(* Sums over finite sets.                                                  *)
Pick(s) == CHOOSE x \in s : TRUE
SumStep(f, g, s) == IF s = {} THEN 0 ELSE g[Pick(s)] + f[s \ {Pick(s)}]
SumIter(g, D) == CHOOSE f : f = [s \in SUBSET D |-> SumStep(f, g, s)]
Sum(g, D) == SumIter(g, D)[D]

LEMMA FoldIsSum == ASSUME NEW g, NEW D PROVE S!FoldFunctionOnSet(+, 0, g, D) = Sum(g, D)
  BY Zenon DEF S!FoldFunctionOnSet, S!MapThenFoldSet, Sum, SumIter, SumStep, Pick

(* Induction, for a set of numbers.                                        *)
LEMMA AllNumbers ==
  ASSUME NEW N, 0 \in N, \A n \in Nat : n \in N => n + 1 \in N
  PROVE  \A n \in Nat : n \in N
  <1>1. SUFFICES ASSUME NEW n \in Nat, n \notin N PROVE FALSE
    OBVIOUS
  <1> DEFINE Out == {k \in Nat : k \notin N}
  <1>2. PICK m \in Out : \A j \in Out : ~(<<j, m>> \in OpToRel(<, Nat))
    <2>1. Out \subseteq Nat /\ Out # {}  BY <1>1
    <2> HIDE DEF Out
    <2> QED BY <2>1, NatLessThanWellFounded, WFMin
  <1>3. \A j \in Out : ~(j < m)
    BY <1>2 DEF OpToRel
  <1>4. m \in Nat /\ m \notin N /\ m # 0
    BY <1>2
  <1>5. m - 1 \in Nat /\ m - 1 < m
    BY <1>4
  <1>6. m - 1 \in N
    BY <1>3, <1>5
  <1>7. (m - 1) + 1 = m  BY <1>4
  <1> QED BY <1>4, <1>5, <1>6, <1>7

Summands(f, g, D) == \A s \in SUBSET D : f[s] = SumStep(f, g, s)

LEMMA Smaller ==
  ASSUME NEW s, IsFiniteSet(s), NEW x \in s
  PROVE  /\ IsFiniteSet(s \ {x}) /\ Cardinality(s) \in Nat \ {0}
         /\ Cardinality(s \ {x}) = Cardinality(s) - 1
  <1>1. Cardinality(s) \in Nat /\ Cardinality(s \ {x}) \in Nat
    BY FS_CardinalityType, FS_RemoveElement
  <1>2. Cardinality(s) # 0  BY FS_EmptySet
  <1> QED BY <1>1, <1>2, FS_RemoveElement

LEMMA PickIsIn == ASSUME NEW s, s # {} PROVE Pick(s) \in s
  BY DEF Pick

(* The function that the community module folds with exists.               *)
LEMMA SumExists ==
  ASSUME NEW D, IsFiniteSet(D), NEW g, \A x \in D : g[x] \in Int
  PROVE  \E f \in [SUBSET D -> Int] : Summands(f, g, D)
  <1> DEFINE Upto(f, k) == \A s \in SUBSET D : Cardinality(s) <= k => f[s] = SumStep(f, g, s)
             P(k) == \E f \in [SUBSET D -> Int] : Upto(f, k)
             N == {k \in Nat : P(k)}
  <1>1. \A s \in SUBSET D : IsFiniteSet(s) /\ Cardinality(s) \in Nat /\ Cardinality(s) <= Cardinality(D)
    BY FS_Subset, FS_CardinalityType
  <1>2. 0 \in N
    <2> DEFINE f == [s \in SUBSET D |-> 0]
    <2>1. ASSUME NEW s \in SUBSET D, Cardinality(s) <= 0 PROVE f[s] = SumStep(f, g, s)
      <3>1. s = {}  BY <1>1, <2>1, FS_EmptySet
      <3> QED BY <3>1 DEF SumStep
    <2>2. f \in [SUBSET D -> Int]  OBVIOUS
    <2>3. Upto(f, 0)
      <3> HIDE DEF f
      <3> QED BY <2>1
    <2>4. P(0)
      <3> HIDE DEF f, Upto
      <3> QED BY <2>2, <2>3
    <2> HIDE DEF P
    <2> QED BY <2>4
  <1>3. ASSUME NEW k \in Nat, k \in N PROVE k + 1 \in N
    <2>1. PICK f \in [SUBSET D -> Int] : Upto(f, k)
      <3> HIDE DEF Upto
      <3> QED BY <1>3
    <2> DEFINE h == [s \in SUBSET D |-> IF Cardinality(s) <= k THEN f[s] ELSE SumStep(f, g, s)]
    <2>2. h \in [SUBSET D -> Int]
      <3>1. ASSUME NEW s \in SUBSET D PROVE SumStep(f, g, s) \in Int
        <4>1. CASE s = {}  BY <4>1 DEF SumStep
        <4>2. CASE s # {}
          <5>1. Pick(s) \in D /\ s \ {Pick(s)} \in SUBSET D  BY <4>2, PickIsIn
          <5>2. g[Pick(s)] \in Int /\ f[s \ {Pick(s)}] \in Int  BY <5>1
          <5> QED BY <4>2, <5>2 DEF SumStep
        <4> QED BY <4>1, <4>2
      <3> QED BY <3>1
    <2>3. ASSUME NEW s \in SUBSET D, Cardinality(s) <= k + 1 PROVE h[s] = SumStep(h, g, s)
      <3>1. CASE s = {}
        <4>1. Cardinality(s) = 0  BY <3>1, FS_EmptySet
        <4>2. h[s] = f[s]  BY <4>1
        <4>3. f[s] = 0  BY <2>1, <3>1, <4>1 DEF SumStep
        <4> QED BY <3>1, <4>2, <4>3 DEF SumStep
      <3>2. CASE s # {}
        <4> DEFINE x == Pick(s)
        <4>1. x \in s  BY <3>2, PickIsIn
        <4>2. Cardinality(s \ {x}) = Cardinality(s) - 1 /\ Cardinality(s) \in Nat
          BY <1>1, <4>1, Smaller
        <4>3. s \ {x} \in SUBSET D /\ Cardinality(s \ {x}) <= k
          BY <2>3, <4>2
        <4>4. h[s \ {x}] = f[s \ {x}]  BY <4>3
        <4>5. h[s] = SumStep(f, g, s)
          <5>1. CASE Cardinality(s) <= k  BY <2>1, <5>1
          <5>2. CASE ~(Cardinality(s) <= k)  BY <5>2
          <5> QED BY <5>1, <5>2
        <4> HIDE DEF h
        <4> QED BY <3>2, <4>4, <4>5 DEF SumStep
      <3> QED BY <3>1, <3>2
    <2>4. Upto(h, k + 1)
      <3> HIDE DEF h
      <3> QED BY <2>3
    <2>5. P(k + 1)
      <3> HIDE DEF h, Upto
      <3> QED BY <2>2, <2>4
    <2> HIDE DEF P
    <2> QED BY <2>5
  <1>4. Cardinality(D) \in N
    <2> HIDE DEF N
    <2>1. \A k \in Nat : k \in N  BY <1>2, <1>3, AllNumbers
    <2> QED BY <2>1, FS_CardinalityType
  <1>5. PICK f \in [SUBSET D -> Int] : Upto(f, Cardinality(D))
    <2> HIDE DEF Upto
    <2> QED BY <1>4
  <1>6. Summands(f, g, D)  BY <1>1, <1>5 DEF Summands
  <1> QED BY <1>6

LEMMA SumIterates ==
  ASSUME NEW D, IsFiniteSet(D), NEW g, \A x \in D : g[x] \in Int
  PROVE  Summands(SumIter(g, D), g, D)
  <1>1. PICK f \in [SUBSET D -> Int] : Summands(f, g, D)  BY SumExists
  <1>2. f = [s \in SUBSET D |-> SumStep(f, g, s)]  BY <1>1 DEF Summands
  <1>3. SumIter(g, D) = [s \in SUBSET D |-> SumStep(SumIter(g, D), g, s)]
    BY <1>2 DEF SumIter
  <1> QED BY <1>3 DEF Summands

(* It is determined by the summands, and takes them in any order.          *)
LEMMA SumsAgree ==
  ASSUME NEW D, IsFiniteSet(D), NEW g, NEW h, NEW e, NEW f, NEW E,
         Summands(e, g, D), Summands(f, h, E), D \subseteq E,
         \A x \in D : g[x] = h[x] /\ g[x] \in Int
  PROVE  \A s \in SUBSET D : e[s] = f[s] /\ e[s] \in Int
  <1> DEFINE Like(s) == e[s] = f[s] /\ e[s] \in Int
             N == {k \in Nat : \A s \in SUBSET D : Cardinality(s) = k => Like(s)}
  <1>1. \A s \in SUBSET D : IsFiniteSet(s) /\ Cardinality(s) \in Nat
    BY FS_Subset, FS_CardinalityType
  <1>2. 0 \in N
    <2>1. ASSUME NEW s \in SUBSET D, Cardinality(s) = 0 PROVE Like(s)
      <3>1. s = {}  BY <1>1, <2>1, FS_EmptySet
      <3> QED BY <3>1 DEF Summands, SumStep
    <2> HIDE DEF Like
    <2> QED BY <2>1
  <1>3. ASSUME NEW k \in Nat, k \in N PROVE k + 1 \in N
    <2>1. ASSUME NEW s \in SUBSET D, Cardinality(s) = k + 1 PROVE Like(s)
      <3> DEFINE x == Pick(s)
      <3>1. s # {}  BY <2>1, FS_EmptySet
      <3>2. x \in s /\ x \in D  BY <3>1, PickIsIn
      <3>3. Cardinality(s \ {x}) = k  BY <1>1, <2>1, <3>2, Smaller
      <3>4. s \ {x} \in SUBSET D  OBVIOUS
      <3>5. Like(s \ {x})
        <4> HIDE DEF Like, x
        <4> QED BY <1>3, <3>3, <3>4
      <3>6. e[s] = g[x] + e[s \ {x}] /\ f[s] = h[x] + f[s \ {x}]
        BY <3>1 DEF Summands, SumStep
      <3> QED BY <3>2, <3>5, <3>6
    <2> HIDE DEF Like
    <2> QED BY <2>1
  <1>4. \A k \in Nat : k \in N
    <2> HIDE DEF N
    <2> QED BY <1>2, <1>3, AllNumbers
  <1>5. ASSUME NEW s \in SUBSET D PROVE Like(s)
    <2> HIDE DEF Like
    <2> QED BY <1>1, <1>4
  <1> QED BY <1>5

LEMMA SumAnyOrder ==
  ASSUME NEW D, IsFiniteSet(D), NEW g, \A x \in D : g[x] \in Int,
         NEW f, Summands(f, g, D)
  PROVE  \A s \in SUBSET D : \A x \in s : f[s] = g[x] + f[s \ {x}]
  <1> DEFINE Free(s) == \A x \in s : f[s] = g[x] + f[s \ {x}]
             N == {k \in Nat : \A s \in SUBSET D : Cardinality(s) = k => Free(s)}
  <1>1. \A s \in SUBSET D : IsFiniteSet(s) /\ Cardinality(s) \in Nat /\ f[s] \in Int
    BY FS_Subset, FS_CardinalityType, SumsAgree
  <1>2. 0 \in N
    <2>1. ASSUME NEW s \in SUBSET D, Cardinality(s) = 0 PROVE Free(s)
      <3>1. s = {}  BY <1>1, <2>1, FS_EmptySet
      <3> QED BY <3>1
    <2> HIDE DEF Free
    <2> QED BY <2>1
  <1>3. ASSUME NEW k \in Nat, k \in N PROVE k + 1 \in N
    <2>1. ASSUME NEW s \in SUBSET D, Cardinality(s) = k + 1, NEW x \in s
          PROVE  f[s] = g[x] + f[s \ {x}]
      <3> DEFINE y == Pick(s)
      <3>1. y \in s /\ f[s] = g[y] + f[s \ {y}]
        <4>1. s # {}  OBVIOUS
        <4> QED BY <4>1, PickIsIn DEF Summands, SumStep
      <3> HIDE DEF y
      <3>2. CASE x = y  BY <3>1, <3>2
      <3>3. CASE x # y
        <4>1. /\ s \ {x} \in SUBSET D /\ Cardinality(s \ {x}) = k
              /\ s \ {y} \in SUBSET D /\ Cardinality(s \ {y}) = k
          BY <1>1, <2>1, <3>1, Smaller
        <4>2. Free(s \ {x}) /\ Free(s \ {y})
          <5> HIDE DEF Free
          <5> QED BY <1>3, <4>1
        <4>3. y \in s \ {x} /\ x \in s \ {y} /\ (s \ {x}) \ {y} = (s \ {y}) \ {x}
          BY <3>1, <3>3
        <4>4. /\ f[s \ {x}] = g[y] + f[(s \ {x}) \ {y}]
              /\ f[s \ {y}] = g[x] + f[(s \ {x}) \ {y}]
          BY <4>2, <4>3
        <4>5. g[x] \in Int /\ g[y] \in Int /\ f[(s \ {x}) \ {y}] \in Int
          BY <1>1, <3>1
        <4> QED BY <3>1, <4>4, <4>5
      <3> QED BY <3>2, <3>3
    <2> QED BY <2>1
  <1>4. \A k \in Nat : k \in N
    <2> HIDE DEF N
    <2> QED BY <1>2, <1>3, AllNumbers
  <1>5. ASSUME NEW s \in SUBSET D PROVE Free(s)
    <2> HIDE DEF Free
    <2> QED BY <1>1, <1>4
  <1> QED BY <1>5

(* What the proofs need of a sum.                                          *)
LEMMA SumOfNone == ASSUME NEW g PROVE Sum(g, {}) = 0
  <1>1. Summands(SumIter(g, {}), g, {})  BY FS_EmptySet, SumIterates
  <1> QED BY <1>1 DEF Summands, SumStep, Sum

LEMMA SumIsInt ==
  ASSUME NEW D, IsFiniteSet(D), NEW g, \A x \in D : g[x] \in Int
  PROVE  Sum(g, D) \in Int
  BY SumIterates, SumsAgree DEF Sum

LEMMA SumIsSame ==
  ASSUME NEW D, IsFiniteSet(D), NEW g, NEW h, \A x \in D : g[x] = h[x] /\ g[x] \in Int
  PROVE  Sum(g, D) = Sum(h, D)
  <1>1. Summands(SumIter(g, D), g, D) /\ Summands(SumIter(h, D), h, D)  BY SumIterates
  <1> QED BY <1>1, SumsAgree DEF Sum

LEMMA SumWithout ==
  ASSUME NEW D, IsFiniteSet(D), NEW g, \A y \in D : g[y] \in Int, NEW x \in D
  PROVE  Sum(g, D) = g[x] + Sum(g, D \ {x})
  <1> DEFINE E == D \ {x}
  <1>1. IsFiniteSet(E) /\ E \subseteq D  BY FS_Subset
  <1>2. Summands(SumIter(g, D), g, D) /\ Summands(SumIter(g, E), g, E)
    BY <1>1, SumIterates
  <1>3. SumIter(g, E)[E] = SumIter(g, D)[E]
    <2>1. E \in SUBSET E  OBVIOUS
    <2>2. \A y \in E : g[y] = g[y] /\ g[y] \in Int  OBVIOUS
    <2> HIDE DEF E
    <2> QED BY <1>1, <1>2, <2>1, <2>2, SumsAgree
  <1>4. SumIter(g, D)[D] = g[x] + SumIter(g, D)[E]
    BY <1>2, SumAnyOrder
  <1> QED BY <1>3, <1>4 DEF Sum

LEMMA SumWith ==
  ASSUME NEW D, IsFiniteSet(D), NEW g, \A y \in D : g[y] \in Int, NEW x, x \notin D, g[x] \in Int
  PROVE  Sum(g, D \cup {x}) = g[x] + Sum(g, D)
  <1>1. IsFiniteSet(D \cup {x}) /\ (D \cup {x}) \ {x} = D /\ x \in D \cup {x}
    BY FS_AddElement
  <1>2. \A y \in D \cup {x} : g[y] \in Int  OBVIOUS
  <1> QED BY <1>1, <1>2, SumWithout

(* One summand changes.                                                    *)
LEMMA SumChanges ==
  ASSUME NEW D, IsFiniteSet(D), NEW g, NEW h, NEW x \in D,
         \A y \in D : g[y] \in Int /\ h[y] \in Int,
         \A y \in D \ {x} : h[y] = g[y]
  PROVE  Sum(h, D) = Sum(g, D) - g[x] + h[x]
  <1> DEFINE E == D \ {x}
  <1>1. IsFiniteSet(E)  BY FS_Subset
  <1>2. Sum(g, D) = g[x] + Sum(g, E) /\ Sum(h, D) = h[x] + Sum(h, E)  BY SumWithout
  <1>3. Sum(g, E) = Sum(h, E)  BY <1>1, SumIsSame
  <1>4. Sum(g, E) \in Int  BY <1>1, SumIsInt
  <1>5. g[x] \in Int /\ h[x] \in Int  OBVIOUS
  <1> QED BY <1>2, <1>3, <1>4, <1>5

LEMMA SumIsNat ==
  ASSUME NEW D, IsFiniteSet(D), NEW g, \A x \in D : g[x] \in Nat
  PROVE  Sum(g, D) \in Nat
  <1> DEFINE N == {k \in Nat : \A s \in SUBSET D : Cardinality(s) = k => Sum(g, s) \in Nat}
  <1>1. \A s \in SUBSET D : IsFiniteSet(s) /\ Cardinality(s) \in Nat
    BY FS_Subset, FS_CardinalityType
  <1>2. 0 \in N
    <2>1. ASSUME NEW s \in SUBSET D, Cardinality(s) = 0 PROVE Sum(g, s) \in Nat
      <3>1. s = {}  BY <1>1, <2>1, FS_EmptySet
      <3> QED BY <3>1, SumOfNone
    <2> QED BY <2>1
  <1>3. ASSUME NEW k \in Nat, k \in N PROVE k + 1 \in N
    <2>1. ASSUME NEW s \in SUBSET D, Cardinality(s) = k + 1 PROVE Sum(g, s) \in Nat
      <3>1. s # {}  BY <2>1, FS_EmptySet
      <3>2. PICK x \in s : TRUE  BY <3>1
      <3>3. Cardinality(s \ {x}) = k  BY <1>1, <2>1, Smaller
      <3>4. Sum(g, s \ {x}) \in Nat  BY <1>3, <3>3
      <3>5. Sum(g, s) = g[x] + Sum(g, s \ {x})  BY <1>1, SumWithout
      <3>6. g[x] \in Nat  OBVIOUS
      <3> QED BY <3>4, <3>5, <3>6
    <2> QED BY <2>1
  <1>4. \A k \in Nat : k \in N
    <2> HIDE DEF N
    <2> QED BY <1>2, <1>3, AllNumbers
  <1>5. D \in SUBSET D /\ Cardinality(D) \in Nat  BY FS_CardinalityType
  <1> QED BY <1>4, <1>5

(* What is summed up elsewhere, at a place of its own for each.            *)
LEMMA SumBelow ==
  ASSUME NEW I, IsFiniteSet(I), NEW h, \A i \in I : h[i] \in Nat,
         NEW V, IsFiniteSet(V), NEW g, \A t \in V : g[t] \in Int,
         NEW e, \A t \in V : e[t] \in I /\ g[t] <= h[e[t]],
         \A t, u \in V : e[t] = e[u] => t = u
  PROVE  Sum(g, V) <= Sum(h, I)
  <1> DEFINE Place(s) == {e[t] : t \in s}
             N == {k \in Nat : \A s \in SUBSET V, J \in SUBSET I :
                      Cardinality(s) = k /\ Place(s) \subseteq J => Sum(g, s) <= Sum(h, J)}
  <1>1. /\ \A s \in SUBSET V : IsFiniteSet(s) /\ Cardinality(s) \in Nat
        /\ \A J \in SUBSET I : IsFiniteSet(J)
    BY FS_Subset, FS_CardinalityType
  <1>2. 0 \in N
    <2>1. ASSUME NEW s \in SUBSET V, NEW J \in SUBSET I, Cardinality(s) = 0
          PROVE  Sum(g, s) <= Sum(h, J)
      <3>1. s = {}  BY <1>1, <2>1, FS_EmptySet
      <3>2. Sum(g, s) = 0  BY <3>1, SumOfNone
      <3>3. Sum(h, J) \in Nat  BY <1>1, SumIsNat
      <3> QED BY <3>2, <3>3
    <2> QED BY <2>1
  <1>3. ASSUME NEW k \in Nat, k \in N PROVE k + 1 \in N
    <2>1. ASSUME NEW s \in SUBSET V, NEW J \in SUBSET I, Cardinality(s) = k + 1,
                 Place(s) \subseteq J
          PROVE  Sum(g, s) <= Sum(h, J)
      <3>1. s # {}  BY <2>1, FS_EmptySet
      <3>2. PICK x \in s : TRUE  BY <3>1
      <3>3. Cardinality(s \ {x}) = k  BY <1>1, <2>1, Smaller
      <3>4. e[x] \in J  BY <2>1
      <3>5. Place(s \ {x}) \subseteq J \ {e[x]}  BY <2>1
      <3>6. Sum(g, s \ {x}) <= Sum(h, J \ {e[x]})
        <4> HIDE DEF Place
        <4> QED BY <1>3, <3>3, <3>5
      <3>7. Sum(g, s) = g[x] + Sum(g, s \ {x})  BY <1>1, SumWithout
      <3>8. Sum(h, J) = h[e[x]] + Sum(h, J \ {e[x]})
        <4>1. IsFiniteSet(J) /\ \A y \in J : h[y] \in Int  BY <1>1
        <4> QED BY <3>4, <4>1, SumWithout
      <3>9. g[x] \in Int /\ h[e[x]] \in Nat /\ g[x] <= h[e[x]]  OBVIOUS
      <3>10. Sum(g, s \ {x}) \in Int /\ Sum(h, J \ {e[x]}) \in Int
        <4>1. IsFiniteSet(s \ {x}) /\ IsFiniteSet(J \ {e[x]})  BY <1>1, FS_Subset
        <4> QED BY <4>1, SumIsInt
      <3> QED BY <3>6, <3>7, <3>8, <3>9, <3>10
    <2> HIDE DEF Place
    <2> QED BY <2>1
  <1>4. \A k \in Nat : k \in N
    <2> HIDE DEF N
    <2> QED BY <1>2, <1>3, AllNumbers
  <1>5. V \in SUBSET V /\ I \in SUBSET I /\ Cardinality(V) \in Nat /\ Place(V) \subseteq I
    BY FS_CardinalityType
  <1> HIDE DEF Place
  <1> QED BY <1>4, <1>5

-----------------------------------------------------------------------------
(* The request metrics: the books.  What the two tasks of a request do to  *)
(* each other is seen from where they are (x: main, y: helper), what       *)
(* update they are in (o, p), whether the row is open (a) and whether the  *)
(* request was abandoned (g).                                              *)
Op(t)   == IF job[t] = None THEN "none" ELSE job[t].op
Open(r) == IF active[r] = None THEN "no" ELSE "yes"
Gone(r) == IF r \in abandoned THEN "yes" ELSE "no"
Ops == {"none", "usage", "late", "adjust", "errors", "count", "push"}
Closings == {"errors", "count", "push"}
YesNo == {"yes", "no"}
Mine(r) == {i \in DOMAIN S!Finished : S!Finished[i].id = r}

(* An update of either task: o to o1, with the row from a to a1.           *)
Applies(o, a, o1, a1) ==
  \/ o = "usage" /\ a = "yes" /\ o1 = "none" /\ a1 = "yes"
  \/ o = "usage" /\ a = "no" /\ o1 = "late" /\ a1 = "no"
  \/ o = "late" /\ o1 \in {"none", "adjust"} /\ a1 = a
  \/ o = "adjust" /\ o1 = "none" /\ a1 = a
  \/ o = "errors" /\ o1 = "count" /\ a1 = a
  \/ o = "count" /\ o1 = "push" /\ a1 = a
  \/ o = "push" /\ o1 = "none" /\ a1 = a

(* What the main task of a request of kind k does.                         *)
MainMoves(k, x, y, o, a, g, c) ==
  \/ \E o1 \in Ops, a1 \in YesNo : Applies(o, a, o1, a1) /\ c = <<x, y, o1, a1, g>>
  \/ /\ o = "none"
     /\ \/ x = "start" /\ c = <<"route", y, "none", "yes", g>>
        \/ x = "route" /\ c = <<"send", y, "none", "yes", g>>
        \/ /\ x = "estimate"
           /\ \/ c = <<"stream", y, "usage", a, g>>
              \/ k \in {"encoded", "opaque"} /\ c = <<"stream", "observe", "usage", a, g>>
        \/ x = "send" /\ k = "codex" /\ c = <<"await", "start", "none", a, g>>
        \/ x = "send" /\ k = "redirect" /\ c = <<"forward", y, "none", "yes", g>>
        \/ /\ x = "send" /\ k = "unary"
           /\ \E l \in {"done", "close"} : c = <<l, y, "none", a, g>>
        \/ x = "send" /\ k = "routed" /\ c = <<"estimate", y, "none", a, g>>
        \/ x = "send" /\ k \in {"plain", "encoded", "opaque"} /\ c = <<"estimate", y, "none", "yes", g>>
        \/ /\ x = "await" /\ k = "codex" /\ y \in {"stream", "close", "done"}
           /\ c = <<"estimate", y, "none", a, g>>
        \/ x = "send" /\ c = <<"done", y, "errors", "no", g>>
        \/ x \in {"send", "forward", "await"} /\ c = <<"done", y, "none", a, "yes">>
        \/ /\ x = "stream"
           /\ \E a1 \in {a, "yes"} :
                c = <<"stream", y, IF k \in {"encoded", "opaque"} THEN "none" ELSE "usage", a1, g>>
        \/ /\ x = "stream" /\ (k = "codex" => y = "done")
           /\ \E o1 \in {"none", "usage"} :
                /\ o1 = "usage" => k \in {"encoded", "opaque"}
                /\ c = <<"close", y, o1, a, g>>
        \/ x = "close" /\ \E o1 \in {"errors", "count"} : c = <<"done", y, o1, "no", g>>
  \/ x = "forward" /\ c = <<"done", "start", o, a, g>>

(* ... and the helper.                                                     *)
HelperMoves(k, x, y, p, a, g, c) ==
  \/ \E p1 \in Ops, a1 \in YesNo : Applies(p, a, p1, a1) /\ c = <<x, y, p1, a1, g>>
  \/ /\ p = "none" /\ k \in {"redirect", "codex"}
     /\ \/ y = "start" /\ c = <<x, "route", "none", "yes", g>>
        \/ y = "route" /\ c = <<x, "estimate", "none", "yes", g>>
        \/ y = "estimate" /\ c = <<x, "send", "usage", a, g>>
        \/ y = "send" /\ c = <<x, "stream", "none", a, g>>
        \/ y = "send" /\ c = <<x, "done", "errors", "no", g>>
        \/ y = "send" /\ c = <<x, "done", "none", a, "yes">>
        \/ y = "stream" /\ \E a1 \in {a, "yes"} : c = <<x, "stream", "usage", a1, g>>
        \/ y = "stream" /\ c = <<x, "close", "none", a, g>>
        \/ y = "close" /\ \E o1 \in {"errors", "count"} : c = <<x, "done", o1, "no", g>>
  \/ /\ p = "none" /\ k \in {"encoded", "opaque"} /\ y = "observe"
     /\ c = <<x, "observe", "usage", a, g>> \/ c = <<x, "done", "none", a, g>>

(* Where the two tasks of a request can be.                                *)
Settled(o) == o \in {"none"} \cup Closings
Pairs(k, x, y, o, p, a, g) ==
  /\ x \notin {"wait", "observe"}
  /\ y = "wait" => p = "none"
  /\ x = "done" => Settled(o)
  /\ o \in Closings => x = "done"
  /\ p \in Closings => y = "done" /\ k \in {"redirect", "codex"}
  /\ k \in {"plain", "routed", "unary"} => y = "wait"
  /\ k \in {"redirect", "codex"} =>
       y \in {"wait", "start", "route", "estimate", "send", "stream", "close", "done"}
  /\ k \in {"encoded", "opaque"} =>
       /\ y \in {"wait", "observe", "done"}
       /\ x \in {"start", "route", "send", "estimate"} => y = "wait"
  /\ x \in {"forward"} => k = "redirect"
  /\ k = "redirect" =>
       /\ x \in {"start", "route", "send", "forward", "done"}
       /\ Settled(o)
       /\ y # "wait" => x = "done" /\ o = "none"
       /\ y = "done" => Settled(p)
  /\ k = "codex" =>
       /\ x \in {"start", "route", "send"} => y = "wait"
       /\ x \in {"estimate", "stream", "close"} => y \in {"stream", "close", "done"}
       /\ x = "close" => y = "done"
       /\ x = "done" /\ g = "no" => y \in {"wait", "done"}
       /\ y = "done" => Settled(p)
       /\ x = "send" \/ y \notin {"wait", "done"} => a = "yes"
       /\ p \notin {"late", "adjust"}

LEMMA PairsMain ==
  ASSUME NEW k \in S!AllKinds, NEW x, NEW y, NEW o \in Ops, NEW p \in Ops,
         NEW a \in YesNo, NEW g \in YesNo, NEW x1, NEW y1, NEW o1, NEW a1, NEW g1,
         Pairs(k, x, y, o, p, a, g), MainMoves(k, x, y, o, a, g, <<x1, y1, o1, a1, g1>>)
  PROVE  Pairs(k, x1, y1, o1, p, a1, g1)
  BY DEF Pairs, MainMoves, Applies, Ops, Closings, YesNo, Settled, S!AllKinds

LEMMA PairsHelper ==
  ASSUME NEW k \in S!AllKinds, NEW x, NEW y, NEW o \in Ops, NEW p \in Ops,
         NEW a \in YesNo, NEW g \in YesNo, NEW x1, NEW y1, NEW p1, NEW a1, NEW g1,
         Pairs(k, x, y, o, p, a, g), HelperMoves(k, x, y, p, a, g, <<x1, y1, p1, a1, g1>>)
  PROVE  Pairs(k, x1, y1, o, p1, a1, g1)
  BY DEF Pairs, HelperMoves, Applies, Ops, Closings, YesNo, Settled, S!AllKinds

(* The records F of a request: a push adds one.                            *)
Records1(o, F, F1) ==
  IF o = "push" THEN \E n : n \notin F /\ F1 = F \cup {n} ELSE F1 = F

(* A request that is counted, or about to be, is at its end and is counted *)
(* once, and a task that has ended has closed the row.                     *)
Ends(k, x, y, o, p, a, g, F) ==
  /\ k # "codex" =>
       /\ F # {} \/ o \in Closings \/ p \in Closings =>
            a = "no" /\ x = "done" /\ (k = "redirect" => y \in {"wait", "done"})
       /\ ~(o \in Closings /\ p \in Closings)
       /\ o \in Closings \/ p \in Closings => F = {}
       /\ \A i, j \in F : i = j
  /\ g = "no" =>
       /\ k \in {"plain", "encoded", "opaque", "routed", "codex"} /\ x = "done" =>
            a = "no" /\ (F # {} \/ o \in Closings)
       /\ k = "redirect" /\ x = "done" /\ y = "wait" => F # {} \/ o \in Closings
       /\ k = "redirect" /\ y = "done" => F # {} \/ p \in Closings

LEMMA EndsMain ==
  ASSUME NEW k \in S!AllKinds, NEW x, NEW y, NEW o \in Ops, NEW p \in Ops,
         NEW a \in YesNo, NEW g \in YesNo, NEW x1, NEW y1, NEW o1, NEW a1, NEW g1, NEW F, NEW F1,
         Pairs(k, x, y, o, p, a, g), MainMoves(k, x, y, o, a, g, <<x1, y1, o1, a1, g1>>),
         Ends(k, x, y, o, p, a, g, F), Records1(o, F, F1)
  PROVE  Ends(k, x1, y1, o1, p, a1, g1, F1)
  <1>1. CASE o = "push"
    BY <1>1 DEF Pairs, MainMoves, Applies, Ops, Closings, YesNo, Settled, S!AllKinds, Ends, Records1
  <1>2. CASE o # "push"
    BY <1>2 DEF Pairs, MainMoves, Applies, Ops, Closings, YesNo, Settled, S!AllKinds, Ends, Records1
  <1> QED BY <1>1, <1>2

LEMMA EndsHelper ==
  ASSUME NEW k \in S!AllKinds, NEW x, NEW y, NEW o \in Ops, NEW p \in Ops,
         NEW a \in YesNo, NEW g \in YesNo, NEW x1, NEW y1, NEW p1, NEW a1, NEW g1, NEW F, NEW F1,
         Pairs(k, x, y, o, p, a, g), HelperMoves(k, x, y, p, a, g, <<x1, y1, p1, a1, g1>>),
         Ends(k, x, y, o, p, a, g, F), Records1(p, F, F1)
  PROVE  Ends(k, x1, y1, o, p1, a1, g1, F1)
  <1>1. CASE p = "push"
    BY <1>1 DEF Pairs, HelperMoves, Applies, Ops, Closings, YesNo, Settled, S!AllKinds, Ends, Records1
  <1>2. CASE p # "push"
    BY <1>2 DEF Pairs, HelperMoves, Applies, Ops, Closings, YesNo, Settled, S!AllKinds, Ends, Records1
  <1> QED BY <1>1, <1>2

(* The row is open while a task reports, but for a Responses request.      *)
Rows(k, x, y, o, p, a) ==
  /\ k # "codex" /\ x \in {"send", "estimate", "stream", "close"} => a = "yes"
  /\ k = "redirect" /\ y \in {"estimate", "send", "stream", "close"} => a = "yes"
  /\ o \in {"usage", "late", "adjust"} => x \in {"stream", "close"}
  /\ p = "usage" /\ k = "redirect" => y \in {"send", "stream", "close"}
  /\ o \in {"late", "adjust"} => k = "codex"
  /\ p \in {"late", "adjust"} => k \in {"encoded", "opaque"}

LEMMA RowsMain ==
  ASSUME NEW k \in S!AllKinds, NEW x, NEW y, NEW o \in Ops, NEW p \in Ops,
         NEW a \in YesNo, NEW g \in YesNo, NEW x1, NEW y1, NEW o1, NEW a1, NEW g1,
         Pairs(k, x, y, o, p, a, g), MainMoves(k, x, y, o, a, g, <<x1, y1, o1, a1, g1>>),
         Rows(k, x, y, o, p, a)
  PROVE  Rows(k, x1, y1, o1, p, a1)
  BY DEF Pairs, MainMoves, Applies, Ops, Closings, YesNo, Settled, S!AllKinds, Rows

LEMMA RowsHelper ==
  ASSUME NEW k \in S!AllKinds, NEW x, NEW y, NEW o \in Ops, NEW p \in Ops,
         NEW a \in YesNo, NEW g \in YesNo, NEW x1, NEW y1, NEW p1, NEW a1, NEW g1,
         Pairs(k, x, y, o, p, a, g), HelperMoves(k, x, y, p, a, g, <<x1, y1, p1, a1, g1>>),
         Rows(k, x, y, o, p, a)
  PROVE  Rows(k, x1, y1, o, p1, a1)
  BY DEF Pairs, HelperMoves, Applies, Ops, Closings, YesNo, Settled, S!AllKinds, Rows

(* The two tasks of a request.                                             *)
TasksOf(r, m, h) ==
  /\ m \in S!Tasks /\ h \in S!Tasks /\ m # h
  /\ S!Req(m) = r /\ S!Req(h) = r
  /\ m[1] = "main" /\ h[1] = "helper" /\ S!Adapter(r) = h
  /\ <<"main", r>> = m /\ <<"helper", r>> = h

LEMMA OpTypes == ASSUME BookConstants, BookTypes, NEW t \in S!Tasks PROVE Op(t) \in Ops
  BY JobParts DEF BookTypes, Op, Ops

(* An update, whoever makes it.                                            *)
LEMMA FlatApply ==
  ASSUME BookConstants, BookTypes, NEW r \in Requests, NEW t \in S!Tasks, S!Req(t) = r,
         S!Apply(t)
  PROVE  /\ Applies(Op(t), Open(r), Op(t)', Open(r)') /\ Op(t)' \in Ops /\ Open(r)' \in YesNo
         /\ Gone(r)' = Gone(r) /\ kind' = kind /\ task' = task /\ chunk' = chunk
         /\ queue' = queue /\ cut' = cut
         /\ \A u \in S!Tasks \ {t} : job'[u] = job[u]
         /\ \A q \in Requests \ {r} : active'[q] = active[q]
  <1>0. /\ job \in [S!Tasks -> S!Jobs \cup {None}]
        /\ active \in [Requests -> S!Records \cup {None}] /\ None \notin S!Records /\ None \notin S!Jobs
    BY DEF BookTypes, BookConstants
  <1>1. CASE S!ApplyUsage(t)
    <2>0. job[t] # None /\ Op(t) = "usage" /\ abandoned' = abandoned /\ kind' = kind /\ task' = task
            /\ chunk' = chunk /\ queue' = queue /\ cut' = cut
      BY <1>1 DEF S!ApplyUsage, Op, S!queueVars
    <2>1. CASE active[r] # None
      <3>0. PICK v : active' = [active EXCEPT ![r] = v] /\ v # None
        <4>1. active' = [active EXCEPT ![r] = [active[r] EXCEPT !.tokens = S!Merge(@, job[t].tokens)]]
          BY <1>1, <2>1 DEF S!ApplyUsage
        <4>2. [active[r] EXCEPT !.tokens = S!Merge(@, job[t].tokens)] # None
          <5>1. job[t] \in S!Jobs /\ job[t].op = "usage"
            BY <1>0, <1>1 DEF S!ApplyUsage
          <5>2. job[t].tokens \in S!Tokens  BY <5>1, JobParts
          <5>3. active[r] \in S!Records  BY <1>0, <2>1
          <5>4. \A x \in S!Tokens \cup {None} : [active[r] EXCEPT !.tokens = S!Merge(@, x)] \in S!Records
            BY <5>3, RowChanged
          <5>5. [active[r] EXCEPT !.tokens = S!Merge(@, job[t].tokens)] \in S!Records
            BY <5>2, <5>4
          <5> QED BY <1>0, <5>5
        <4> QED BY <4>1, <4>2
      <3>1. job' = [job EXCEPT ![t] = None]
        BY <1>1, <2>1 DEF S!ApplyUsage, S!End
      <3>2. job'[t] = None /\ active'[r] # None  BY <1>0, <3>0, <3>1
      <3>3. Op(t)' = "none" /\ Open(r)' = "yes" /\ Open(r) = "yes" /\ Gone(r)' = Gone(r)
        BY <2>0, <2>1, <3>2 DEF Op, Open, Gone
      <3>4. Applies(Op(t), Open(r), Op(t)', Open(r)')
        BY <2>0, <3>3 DEF Applies
      <3> QED BY <1>0, <2>0, <3>0, <3>1, <3>3, <3>4 DEF Ops, YesNo
    <2>2. CASE active[r] = None
      <3>1. job' = [job EXCEPT ![t] = [op |-> "late", tokens |-> job[t].tokens]] /\ active' = active
        BY <1>1, <2>2 DEF S!ApplyUsage, S!Begin
      <3>2. [op |-> "late", tokens |-> job[t].tokens] # None
        <4>1. job[t].tokens \in S!Tokens  BY <1>0, <1>1, JobParts DEF S!ApplyUsage
        <4> QED BY <4>1, <1>0, JobMade
      <3>3. Op(t)' = "late" /\ Open(r)' = "no" /\ Open(r) = "no" /\ Gone(r)' = Gone(r)
        BY <1>0, <2>0, <2>2, <3>1, <3>2 DEF Op, Open, Gone
      <3>4. Applies(Op(t), Open(r), Op(t)', Open(r)')
        BY <2>0, <3>3 DEF Applies
      <3> QED BY <1>0, <2>0, <3>1, <3>3, <3>4 DEF Ops, YesNo
    <2> QED BY <2>1, <2>2
  <1>2. ASSUME ~S!ApplyUsage(t)
        PROVE  /\ Op(t) \in {"late", "adjust", "errors", "count", "push"}
               /\ abandoned' = abandoned /\ kind' = kind /\ task' = task /\ active' = active
               /\ chunk' = chunk /\ queue' = queue /\ cut' = cut
               /\ \E j \in S!Jobs \cup {None} : job' = [job EXCEPT ![t] = j]
               /\ Op(t) = "late" => Op(t)' \in {"none", "adjust"}
               /\ Op(t) = "adjust" => Op(t)' = "none"
               /\ Op(t) = "errors" => Op(t)' = "count"
               /\ Op(t) = "count" => Op(t)' = "push"
               /\ Op(t) = "push" => Op(t)' = "none"
    <2>0. job' \in [S!Tasks -> S!Jobs \cup {None}]  BY TypesApply DEF BookTypes
    <2>a. ASSUME NEW j, job' = [job EXCEPT ![t] = j]
          PROVE  j \in S!Jobs \cup {None} /\ Op(t)' = IF j = None THEN "none" ELSE j.op
      BY <2>0, <2>a, <1>0 DEF Op
    <2>1. CASE S!MergeRecent(t)
      <3>1. Op(t) = "late" /\ abandoned' = abandoned /\ kind' = kind /\ task' = task /\ active' = active
               /\ chunk' = chunk /\ queue' = queue /\ cut' = cut
        BY <2>1 DEF S!MergeRecent, Op, S!queueVars
      <3>2. PICK j : job' = [job EXCEPT ![t] = j] /\ (j = None \/ j.op = "adjust")
        BY <2>1 DEF S!MergeRecent, S!End, S!Begin
      <3> QED BY <3>1, <3>2, <2>a
    <2>2. CASE S!Adjust(t)
      <3>1. Op(t) = "adjust" /\ abandoned' = abandoned /\ kind' = kind /\ task' = task /\ active' = active
               /\ chunk' = chunk /\ queue' = queue /\ cut' = cut /\ job' = [job EXCEPT ![t] = None]
        BY <2>2 DEF S!Adjust, Op, S!queueVars, S!End
      <3> QED BY <3>1, <2>a
    <2>3. CASE S!CountError(t)
      <3>1. job[t] # None /\ Op(t) = "errors" /\ abandoned' = abandoned /\ kind' = kind /\ task' = task /\ active' = active
               /\ chunk' = chunk /\ queue' = queue /\ cut' = cut
        BY <2>3 DEF S!CountError, Op, S!queueVars
      <3>2. job' = [job EXCEPT ![t] = [job[t] EXCEPT !.op = "count"]]
        BY <2>3 DEF S!CountError, S!Begin
      <3>3. [job[t] EXCEPT !.op = "count"].op = "count" /\ [job[t] EXCEPT !.op = "count"] # None
        <4>1. job[t].op = "errors" /\ job[t] \in S!Jobs  BY <1>0, <2>3 DEF S!CountError
        <4>2. [job[t] EXCEPT !.op = "count"] \in S!Jobs /\ [job[t] EXCEPT !.op = "count"].op = "count"
          BY <4>1 DEF S!Jobs
        <4> QED BY <1>0, <4>2
      <3> QED BY <3>1, <3>2, <3>3, <2>a
    <2>4. CASE S!CountTotals(t)
      <3>1. job[t] # None /\ Op(t) = "count" /\ abandoned' = abandoned /\ kind' = kind /\ task' = task /\ active' = active
               /\ chunk' = chunk /\ queue' = queue /\ cut' = cut
        BY <2>4 DEF S!CountTotals, Op, S!queueVars
      <3>2. job' = [job EXCEPT ![t] = [job[t] EXCEPT !.op = "push"]]
        BY <2>4 DEF S!CountTotals, S!Begin
      <3>3. [job[t] EXCEPT !.op = "push"].op = "push" /\ [job[t] EXCEPT !.op = "push"] # None
        <4>1. job[t].op = "count" /\ job[t] \in S!Jobs  BY <1>0, <2>4 DEF S!CountTotals
        <4>2. [job[t] EXCEPT !.op = "push"] \in S!Jobs /\ [job[t] EXCEPT !.op = "push"].op = "push"
          BY <4>1 DEF S!Jobs
        <4> QED BY <1>0, <4>2
      <3> QED BY <3>1, <3>2, <3>3, <2>a
    <2>5. CASE S!Push(t)
      <3>1. Op(t) = "push" /\ abandoned' = abandoned /\ kind' = kind /\ task' = task /\ active' = active
               /\ chunk' = chunk /\ queue' = queue /\ cut' = cut /\ job' = [job EXCEPT ![t] = None]
        BY <2>5 DEF S!Push, Op, S!queueVars, S!End
      <3> QED BY <3>1, <2>a
    <2> QED BY <1>2, <2>1, <2>2, <2>3, <2>4, <2>5 DEF S!Apply
  <1>3. CASE ~S!ApplyUsage(t)
    <2>1. PICK j \in S!Jobs \cup {None} : job' = [job EXCEPT ![t] = j]  BY <1>2, <1>3
    <2>2. Open(r)' = Open(r) /\ Gone(r)' = Gone(r) /\ Open(r) \in YesNo
      BY <1>2, <1>3 DEF Open, Gone, YesNo
    <2>3. Applies(Op(t), Open(r), Op(t)', Open(r)')
      BY <1>2, <1>3, <2>2 DEF Applies
    <2>4. Op(t)' \in Ops
      BY <1>2, <1>3 DEF Ops
    <2> QED BY <1>0, <1>2, <1>3, <2>1, <2>2, <2>3, <2>4
  <1> QED BY <1>1, <1>3

(* What a task writes when it writes its update and its row.               *)
LEMMA Writes ==
  ASSUME BookConstants, BookTypes, NEW r \in Requests, NEW t \in S!Tasks, S!Req(t) = r
  PROVE  /\ \A l : task' = [task EXCEPT ![t] = l] =>
              task'[t] = l /\ \A u \in S!Tasks \ {t} : task'[u] = task[u]
         /\ job' = job => \A u \in S!Tasks : Op(u)' = Op(u)
         /\ \A j \in S!Jobs : job' = [job EXCEPT ![t] = j] =>
              job'[t] = j /\ Op(t)' = j.op /\ \A u \in S!Tasks \ {t} : job'[u] = job[u] /\ Op(u)' = Op(u)
         /\ active' = active => Open(r)' = Open(r)
         /\ \A row \in S!Records : active' = [active EXCEPT ![r] = row] =>
              Open(r)' = "yes" /\ \A q \in Requests \ {r} : active'[q] = active[q]
         /\ active' = [active EXCEPT ![r] = None] =>
              Open(r)' = "no" /\ \A q \in Requests \ {r} : active'[q] = active[q]
         /\ abandoned' = abandoned => Gone(r)' = Gone(r)
  <1>1. ASSUME NEW l, task' = [task EXCEPT ![t] = l]
        PROVE  task'[t] = l /\ \A u \in S!Tasks \ {t} : task'[u] = task[u]
    BY <1>1 DEF BookTypes
  <1>2. ASSUME job' = job PROVE \A u \in S!Tasks : Op(u)' = Op(u)
    BY <1>2 DEF Op
  <1>3. ASSUME NEW j \in S!Jobs, job' = [job EXCEPT ![t] = j]
        PROVE  job'[t] = j /\ Op(t)' = j.op
                 /\ \A u \in S!Tasks \ {t} : job'[u] = job[u] /\ Op(u)' = Op(u)
    <2>1. job'[t] = j /\ \A u \in S!Tasks \ {t} : job'[u] = job[u]
      BY <1>3 DEF BookTypes
    <2>2. j # None  BY DEF BookConstants
    <2> QED BY <2>1, <2>2 DEF Op
  <1>4. ASSUME active' = active PROVE Open(r)' = Open(r)
    BY <1>4 DEF Open
  <1>5. ASSUME NEW row \in S!Records, active' = [active EXCEPT ![r] = row]
        PROVE  Open(r)' = "yes" /\ \A q \in Requests \ {r} : active'[q] = active[q]
    BY <1>5 DEF Open, BookTypes, BookConstants
  <1>6. ASSUME active' = [active EXCEPT ![r] = None]
        PROVE  Open(r)' = "no" /\ \A q \in Requests \ {r} : active'[q] = active[q]
    BY <1>6 DEF Open, BookTypes, BookConstants
  <1>7. ASSUME abandoned' = abandoned PROVE Gone(r)' = Gone(r)
    BY <1>7 DEF Gone
  <1> HIDE DEF Op, Open, Gone
  <1> QED BY <1>1, <1>2, <1>3, <1>4, <1>5, <1>6, <1>7

(* The main task does what MainMoves says.                                 *)
LEMMA FlatMain ==
  ASSUME BookConstants, BookTypes, NEW r \in Requests, NEW m, NEW h, TasksOf(r, m, h),
         Pairs(kind[r], task[m], task[h], Op(m), Op(h), Open(r), Gone(r)),
         S!Serve(m) \/ S!Observe(m) \/ S!ObserverEnds(m)
  PROVE  MainMoves(kind[r], task[m], task[h], Op(m), Open(r), Gone(r),
                   <<task'[m], task'[h], Op(m)', Open(r)', Gone(r)'>>)
  <1>0. /\ m \in S!Tasks /\ h \in S!Tasks /\ S!Req(m) = r /\ S!Adapter(r) = h /\ m # h
        /\ ~S!IsAdapter(m) /\ <<"helper", r>> = h /\ m[1] = "main"
        /\ task \in [S!Tasks -> S!Pcs]
    BY DEF TasksOf, S!IsAdapter, BookTypes
  <1>k. kind[r] \in S!AllKinds  BY DEF BookTypes, BookConstants
  <1>w. /\ \A l : task' = [task EXCEPT ![m] = l] => task'[m] = l /\ task'[h] = task[h]
        /\ job' = job => Op(m)' = Op(m)
        /\ \A j \in S!Jobs : job' = [job EXCEPT ![m] = j] => Op(m)' = j.op
        /\ active' = active => Open(r)' = Open(r)
        /\ \A row \in S!Records : active' = [active EXCEPT ![r] = row] => Open(r)' = "yes"
        /\ active' = [active EXCEPT ![r] = None] => Open(r)' = "no"
        /\ abandoned' = abandoned => Gone(r)' = Gone(r)
    BY <1>0, Writes
  <1>r. S!Row(r) \in S!Records
          /\ \A x \in {None, "local", "remote"} : [S!Row(r) EXCEPT !.target = x] \in S!Records
    <2> DEFINE row == S!Row(r)
    <2>1. row \in S!Records  BY RowIsRecord
    <2> HIDE DEF row
    <2>2. \A x \in {None, "local", "remote"} : [row EXCEPT !.target = x] \in S!Records
      BY <2>1, RowChanged
    <2> QED BY <2>1, <2>2 DEF row
  <1>i. job[m] = None => Op(m) = "none"  BY DEF Op
  <1>1. CASE S!Started(m)
    <2>1. task[m] = "start" /\ job[m] = None /\ job' = job /\ abandoned' = abandoned
            /\ task' = [task EXCEPT ![m] = "route"] /\ active' = [active EXCEPT ![r] = S!Row(r)]
      BY <1>0, <1>1, Zenon DEF S!Started, S!Idle, S!Goto
    <2>2. task'[m] = "route" /\ task'[h] = task[h] /\ Op(m)' = "none" /\ Op(m) = "none"
            /\ Open(r)' = "yes" /\ Gone(r)' = Gone(r)
      BY <2>1, <1>w, <1>r, <1>i
    <2> QED BY <2>1, <2>2 DEF MainMoves
  <1>2. CASE S!RouteDecided(m)
    <2>1. task[m] = "route" /\ job[m] = None /\ job' = job /\ abandoned' = abandoned
            /\ task' = [task EXCEPT ![m] = "send"]
            /\ active' = [active EXCEPT ![r] = [S!Row(r) EXCEPT !.target = S!Target(m)]]
      BY <1>0, <1>2 DEF S!RouteDecided, S!Idle, S!Goto
    <2>2. S!Target(m) \in {None, "local", "remote"}  BY DEF S!Target
    <2>3. task'[m] = "send" /\ task'[h] = task[h] /\ Op(m)' = "none" /\ Op(m) = "none"
            /\ Open(r)' = "yes" /\ Gone(r)' = Gone(r)
      BY <2>1, <2>2, <1>w, <1>r, <1>i
    <2> QED BY <2>1, <2>3 DEF MainMoves
  <1>3. CASE S!EstimateUsage(m)
    <2>1. task[m] = "estimate" /\ job[m] = None /\ abandoned' = abandoned /\ active' = active
            /\ job' = [job EXCEPT ![m] = [op |-> "usage", tokens |-> Estimate]]
            /\ \/ task' = [task EXCEPT ![m] = "stream"]
               \/ /\ kind[r] \in {"encoded", "opaque"}
                  /\ task' = [task EXCEPT ![m] = "stream", ![h] = "observe"]
      BY <1>0, <1>3 DEF S!EstimateUsage, S!Idle, S!Begin, S!Goto, S!Compressed, S!storeVars
    <2>2. [op |-> "usage", tokens |-> Estimate] \in S!Jobs  BY JobMade, UsageTokens
    <2>3. Op(m)' = "usage" /\ Op(m) = "none" /\ Open(r)' = Open(r) /\ Gone(r)' = Gone(r)
      BY <2>1, <2>2, <1>w, <1>i
    <2>4. /\ task'[m] = "stream"
          /\ \/ task'[h] = task[h]
             \/ kind[r] \in {"encoded", "opaque"} /\ task'[h] = "observe"
      BY <1>0, <2>1
    <2> QED BY <2>1, <2>3, <2>4 DEF MainMoves
  <1>4. CASE S!Post(m)
    <2>1. task[m] = "send" /\ job[m] = None /\ abandoned' = abandoned /\ active' = active /\ job' = job
            /\ kind[r] = "codex" /\ task' = [task EXCEPT ![m] = "await", ![h] = "start"]
      BY <1>0, <1>4 DEF S!Post, S!Idle, S!storeVars
    <2>3. Op(m)' = "none" /\ Op(m) = "none" /\ Open(r)' = Open(r) /\ Gone(r)' = Gone(r)
      BY <2>1, <1>w, <1>i
    <2>4. task'[m] = "await" /\ task'[h] = "start"
      BY <1>0, <2>1
    <2> QED BY <2>1, <2>3, <2>4 DEF MainMoves
  <1>5. CASE S!Respond(m)
    <2>1. /\ job[m] = None /\ abandoned' = abandoned /\ job' = job
          /\ IF kind[r] = "codex" THEN task[m] = "await" /\ task[h] \in {"stream", "close", "done"}
             ELSE task[m] = "send"
      BY <1>0, <1>5 DEF S!Respond, S!Idle, S!Answered
    <2>2. PICK l : /\ task' = [task EXCEPT ![m] = l]
                   /\ kind[r] = "redirect" => l = "forward"
                   /\ kind[r] = "unary" => l \in {"done", "close"}
                   /\ kind[r] \notin {"redirect", "unary"} => l = "estimate"
      BY <1>0, <1>5 DEF S!Respond, S!Goto
    <2>3. Op(m)' = "none" /\ Op(m) = "none" /\ Gone(r)' = Gone(r) /\ task'[m] = l /\ task'[h] = task[h]
      BY <2>1, <2>2, <1>w, <1>i
    <2>4. Open(r)' = IF kind[r] \in {"plain", "encoded", "opaque", "redirect"} THEN "yes" ELSE Open(r)
      <3>1. CASE kind[r] \in {"plain", "encoded", "opaque", "redirect"}
        <4>1. active' = [active EXCEPT ![r] =
                [S!Row(r) EXCEPT !.target = IF kind[r] = "redirect" THEN "local" ELSE "remote"]]
          BY <1>0, <1>5, <3>1 DEF S!Respond, S!Proxied
        <4> QED BY <3>1, <4>1, <1>w, <1>r
      <3>2. CASE kind[r] \notin {"plain", "encoded", "opaque", "redirect"}
        <4>1. active' = active  BY <1>0, <1>5, <3>2 DEF S!Respond, S!Proxied
        <4> QED BY <3>2, <4>1, <1>w
      <3> QED BY <3>1, <3>2
    <2> QED BY <1>k, <2>1, <2>2, <2>3, <2>4 DEF MainMoves, S!AllKinds
  <1>6. CASE S!SendFails(m)
    <2>1. task[m] = "send" /\ job[m] = None /\ abandoned' = abandoned /\ S!CloseRow(m, "error", None)
            /\ task' = [task EXCEPT ![m] = "done"]
      BY <1>6, Zenon DEF S!SendFails, S!Goto, S!Idle
    <2>2. PICK rec \in S!Records : job' = [job EXCEPT ![m] = [op |-> "errors", rec |-> rec]]
      BY <1>0, <2>1, TypesClose
    <2>3. [op |-> "errors", rec |-> rec] \in S!Jobs  BY JobMade
    <2>4. active' = [active EXCEPT ![r] = None]  BY <1>0, <2>1, TypesClose
    <2>5. task'[m] = "done" /\ task'[h] = task[h] /\ Op(m)' = "errors" /\ Op(m) = "none"
            /\ Open(r)' = "no" /\ Gone(r)' = Gone(r)
      BY <2>1, <2>2, <2>3, <2>4, <1>w, <1>i
    <2> QED BY <2>1, <2>5 DEF MainMoves
  <1>7. CASE S!Deliver(m)
    <2>1. task[m] = "forward" /\ abandoned' = abandoned /\ active' = active /\ job' = job
            /\ task' = [task EXCEPT ![m] = "done", ![h] = "start"]
      BY <1>0, <1>7 DEF S!Deliver, S!storeVars
    <2>3. Op(m)' = Op(m) /\ Open(r)' = Open(r) /\ Gone(r)' = Gone(r)
      BY <2>1, <1>w
    <2>4. task'[m] = "done" /\ task'[h] = "start"
      BY <1>0, <2>1
    <2> QED BY <2>1, <2>3, <2>4 DEF MainMoves
  <1>8. CASE S!Abandon(m)
    <2>1. task[m] \in {"send", "forward", "await"} /\ job[m] = None /\ active' = active /\ job' = job
            /\ abandoned' = abandoned \cup {r} /\ task' = [task EXCEPT ![m] = "done"]
      BY <1>0, <1>8 DEF S!Abandon, S!storeVars, S!Idle, S!Goto
    <2>2. Gone(r)' = "yes"  BY <2>1 DEF Gone
    <2>3. task'[m] = "done" /\ task'[h] = task[h] /\ Op(m)' = "none" /\ Op(m) = "none"
            /\ Open(r)' = Open(r)
      BY <2>1, <1>w, <1>i
    <2> QED BY <2>1, <2>2, <2>3 DEF MainMoves
  <1>9. CASE S!Chunk(m)
    <2>1. task[m] = "stream" /\ job[m] = None /\ abandoned' = abandoned /\ task' = task
            /\ (active' = [active EXCEPT ![r] = S!Row(r)] \/ active' = active)
      BY <1>0, <1>9 DEF S!Chunk, S!Idle
    <2>2. Op(m)' = IF kind[r] \in {"encoded", "opaque"} THEN "none" ELSE "usage"
      <3>1. CASE kind[r] \in {"encoded", "opaque"}
        <4>1. job' = job  BY <1>0, <1>9, <3>1 DEF S!Chunk, S!Compressed
        <4> QED BY <2>1, <3>1, <4>1, <1>w, <1>i
      <3>2. CASE kind[r] \notin {"encoded", "opaque"}
        <4>1. job' = [job EXCEPT ![m] = [op |-> "usage", tokens |-> Usage[chunk[m] + 1]]]
          BY <1>0, <1>9, <3>2 DEF S!Chunk, S!Begin, S!Compressed
        <4>2. chunk[m] + 1 \in 1 .. Len(Usage)
          BY <1>0, <1>9, UsageTokens DEF S!Chunk, BookTypes
        <4>3. [op |-> "usage", tokens |-> Usage[chunk[m] + 1]] \in S!Jobs
          BY <4>2, JobMade, UsageTokens
        <4> QED BY <3>2, <4>1, <4>3, <1>w
      <3> QED BY <3>1, <3>2
    <2>3. Open(r)' \in {Open(r), "yes"}  BY <2>1, <1>w, <1>r
    <2>4. Op(m) = "none" /\ Gone(r)' = Gone(r) /\ task'[m] = "stream" /\ task'[h] = task[h]
      BY <2>1, <1>w, <1>i
    <2> QED BY <2>1, <2>2, <2>3, <2>4 DEF MainMoves
  <1>10. CASE S!StreamEnds(m)
    <2>1. task[m] = "stream" /\ job[m] = None /\ abandoned' = abandoned /\ active' = active
            /\ task' = [task EXCEPT ![m] = "close"] /\ (kind[r] = "codex" => task[h] = "done")
      BY <1>0, <1>10 DEF S!StreamEnds, S!Idle, S!Goto, S!storeVars, S!Behind
    <2>2. \/ job' = job
          \/ kind[r] \in {"encoded", "opaque"} /\ chunk[m] > 0
               /\ job' = [job EXCEPT ![m] = [op |-> "usage", tokens |-> Usage[chunk[m]]]]
      BY <1>0, <1>10 DEF S!StreamEnds, S!Begin, S!Decodable, S!Compressed
    <2>3. Op(m)' = "none" \/ (kind[r] \in {"encoded", "opaque"} /\ Op(m)' = "usage")
      <3>1. CASE job' = job  BY <2>1, <3>1, <1>w, <1>i
      <3>2. CASE kind[r] \in {"encoded", "opaque"} /\ chunk[m] > 0
               /\ job' = [job EXCEPT ![m] = [op |-> "usage", tokens |-> Usage[chunk[m]]]]
        <4>1. chunk[m] \in 1 .. Len(Usage)  BY <1>0, <3>2, UsageTokens DEF BookTypes
        <4>2. [op |-> "usage", tokens |-> Usage[chunk[m]]] \in S!Jobs
          BY <4>1, JobMade, UsageTokens
        <4> QED BY <3>2, <4>2, <1>w
      <3> QED BY <2>2, <3>1, <3>2
    <2>4. Op(m) = "none" /\ Open(r)' = Open(r) /\ Gone(r)' = Gone(r)
            /\ task'[m] = "close" /\ task'[h] = task[h]
      BY <2>1, <1>w, <1>i
    <2> QED BY <2>1, <2>3, <2>4 DEF MainMoves
  <1>11. CASE S!Completed(m) \/ S!Errored(m)
    <2>1. PICK o \in {"completed", "error"}, x \in S!Tokens \cup {None} : S!CloseRow(m, o, x)
      BY <1>11, UsageTokens DEF S!Completed, S!Errored
    <2>2. task[m] = "close" /\ job[m] = None /\ abandoned' = abandoned
            /\ task' = [task EXCEPT ![m] = "done"]
      BY <1>11, Zenon DEF S!Completed, S!Errored, S!Goto, S!Idle
    <2>3. PICK rec \in S!Records :
            job' = [job EXCEPT ![m] = [op |-> IF o = "error" THEN "errors" ELSE "count", rec |-> rec]]
      BY <1>0, <2>1, TypesClose
    <2>4. PICK e \in {"errors", "count"} : e = IF o = "error" THEN "errors" ELSE "count"
      OBVIOUS
    <2>5. [op |-> e, rec |-> rec] \in S!Jobs  BY JobMade
    <2>6. active' = [active EXCEPT ![r] = None]  BY <1>0, <2>1, TypesClose
    <2>7. task'[m] = "done" /\ task'[h] = task[h] /\ Op(m)' = e /\ Op(m) = "none"
            /\ Open(r)' = "no" /\ Gone(r)' = Gone(r)
      BY <2>2, <2>3, <2>4, <2>5, <2>6, <1>w, <1>i
    <2> QED BY <2>2, <2>7 DEF MainMoves
  <1>12. CASE S!Observe(m) \/ S!ObserverEnds(m)
    <2>1. task[m] = "observe"  BY <1>12 DEF S!Observe, S!ObserverEnds
    <2> QED BY <2>1 DEF Pairs
  <1> QED BY <1>1, <1>2, <1>3, <1>4, <1>5, <1>6, <1>7, <1>8, <1>9, <1>10, <1>11, <1>12 DEF S!Serve

(* The helper does what HelperMoves says.                                  *)
LEMMA FlatHelper ==
  ASSUME BookConstants, BookTypes, NEW r \in Requests, NEW m, NEW h, TasksOf(r, m, h),
         Pairs(kind[r], task[m], task[h], Op(m), Op(h), Open(r), Gone(r)),
         S!Serve(h) \/ S!Observe(h) \/ S!ObserverEnds(h)
  PROVE  HelperMoves(kind[r], task[m], task[h], Op(h), Open(r), Gone(r),
                     <<task'[m], task'[h], Op(h)', Open(r)', Gone(r)'>>)
  <1>0. /\ m \in S!Tasks /\ h \in S!Tasks /\ S!Req(h) = r /\ m # h
        /\ S!IsAdapter(h) = (kind[r] \in {"redirect", "codex"}) /\ <<"helper", r>> = h /\ h[1] = "helper"
        /\ task \in [S!Tasks -> S!Pcs]
    BY DEF TasksOf, S!IsAdapter, BookTypes
  <1>k. kind[r] \in S!AllKinds  BY DEF BookTypes, BookConstants
  <1>w. /\ \A l : task' = [task EXCEPT ![h] = l] => task'[h] = l /\ task'[m] = task[m]
        /\ job' = job => Op(h)' = Op(h)
        /\ \A j \in S!Jobs : job' = [job EXCEPT ![h] = j] => Op(h)' = j.op
        /\ active' = active => Open(r)' = Open(r)
        /\ \A row \in S!Records : active' = [active EXCEPT ![r] = row] => Open(r)' = "yes"
        /\ active' = [active EXCEPT ![r] = None] => Open(r)' = "no"
        /\ abandoned' = abandoned => Gone(r)' = Gone(r)
    BY <1>0, Writes
  <1>r. S!Row(r) \in S!Records
          /\ \A x \in {None, "local", "remote"} : [S!Row(r) EXCEPT !.target = x] \in S!Records
    <2> DEFINE row == S!Row(r)
    <2>1. row \in S!Records  BY RowIsRecord
    <2> HIDE DEF row
    <2>2. \A x \in {None, "local", "remote"} : [row EXCEPT !.target = x] \in S!Records
      BY <2>1, RowChanged
    <2> QED BY <2>1, <2>2 DEF row
  <1>i. job[h] = None => Op(h) = "none"  BY DEF Op
  <1>a. task[h] \notin {"wait", "observe", "done"} => kind[r] \in {"redirect", "codex"}
    BY <1>k DEF Pairs, S!AllKinds
  <1>b. /\ task[h] = "observe" => kind[r] \in {"encoded", "opaque"}
        /\ task[h] \notin {"forward", "await"}
    BY <1>k DEF Pairs, S!AllKinds
  <1>1. CASE S!Started(h)
    <2>1. task[h] = "start" /\ job[h] = None /\ job' = job /\ abandoned' = abandoned
            /\ task' = [task EXCEPT ![h] = "route"] /\ active' = [active EXCEPT ![r] = S!Row(r)]
      BY <1>0, <1>1, Zenon DEF S!Started, S!Idle, S!Goto
    <2>2. task'[h] = "route" /\ task'[m] = task[m] /\ Op(h)' = "none" /\ Op(h) = "none"
            /\ Open(r)' = "yes" /\ Gone(r)' = Gone(r)
      BY <2>1, <1>w, <1>r, <1>i
    <2> QED BY <1>a, <2>1, <2>2 DEF HelperMoves
  <1>2. CASE S!RouteDecided(h)
    <2>1. task[h] = "route" /\ job[h] = None /\ job' = job /\ abandoned' = abandoned
            /\ task' = [task EXCEPT ![h] = "estimate"]
            /\ active' = [active EXCEPT ![r] = [S!Row(r) EXCEPT !.target = S!Target(h)]]
      BY <1>0, <1>a, <1>2 DEF S!RouteDecided, S!Idle, S!Goto
    <2>2. S!Target(h) \in {None, "local", "remote"}  BY DEF S!Target
    <2>3. task'[h] = "estimate" /\ task'[m] = task[m] /\ Op(h)' = "none" /\ Op(h) = "none"
            /\ Open(r)' = "yes" /\ Gone(r)' = Gone(r)
      BY <2>1, <2>2, <1>w, <1>r, <1>i
    <2> QED BY <1>a, <2>1, <2>3 DEF HelperMoves
  <1>3. CASE S!EstimateUsage(h)
    <2>1. task[h] = "estimate" /\ job[h] = None /\ abandoned' = abandoned /\ active' = active
            /\ job' = [job EXCEPT ![h] = [op |-> "usage", tokens |-> Estimate]]
      BY <1>0, <1>3 DEF S!EstimateUsage, S!Idle, S!Begin, S!storeVars
    <2>2. [op |-> "usage", tokens |-> Estimate] \in S!Jobs  BY JobMade, UsageTokens
    <2>3. Op(h)' = "usage" /\ Op(h) = "none" /\ Open(r)' = Open(r) /\ Gone(r)' = Gone(r)
      BY <2>1, <2>2, <1>w, <1>i
    <2>a. kind[r] \in {"redirect", "codex"} /\ kind[r] \notin {"encoded", "opaque"}  BY <1>a, <2>1
    <2>4. task'[h] = "send" /\ task'[m] = task[m]
      BY <1>0, <1>3, <2>a DEF S!EstimateUsage, S!Goto, S!Compressed
    <2> QED BY <2>a, <2>1, <2>3, <2>4 DEF HelperMoves
  <1>4. CASE S!Post(h)
    BY <1>0, <1>4 DEF S!Post
  <1>5. CASE S!Respond(h)
    <2>1. /\ job[h] = None /\ abandoned' = abandoned /\ job' = job /\ active' = active /\ task[h] = "send"
      BY <1>0, <1>5 DEF S!Respond, S!Idle, S!Answered
    <2>a. kind[r] \in {"redirect", "codex"}  BY <1>a, <2>1
    <2>2. task' = [task EXCEPT ![h] = "stream"]
      <3>1. S!IsAdapter(h)  BY <1>0, <2>a
      <3>2. \E l \in {"stream"} : S!Goto(h, l)
        BY <1>5, <3>1 DEF S!Respond
      <3> QED BY <3>2 DEF S!Goto
    <2>3. Op(h)' = "none" /\ Op(h) = "none" /\ Gone(r)' = Gone(r) /\ task'[h] = "stream" /\ task'[m] = task[m]
            /\ Open(r)' = Open(r)
      BY <2>1, <2>2, <1>w, <1>i
    <2> QED BY <2>a, <2>1, <2>3 DEF HelperMoves
  <1>6. CASE S!SendFails(h)
    <2>1. task[h] = "send" /\ job[h] = None /\ abandoned' = abandoned /\ S!CloseRow(h, "error", None)
            /\ task' = [task EXCEPT ![h] = "done"]
      BY <1>6, Zenon DEF S!SendFails, S!Goto, S!Idle
    <2>2. PICK rec \in S!Records : job' = [job EXCEPT ![h] = [op |-> "errors", rec |-> rec]]
      BY <1>0, <2>1, TypesClose
    <2>3. [op |-> "errors", rec |-> rec] \in S!Jobs  BY JobMade
    <2>4. active' = [active EXCEPT ![r] = None]  BY <1>0, <2>1, TypesClose
    <2>5. task'[h] = "done" /\ task'[m] = task[m] /\ Op(h)' = "errors" /\ Op(h) = "none"
            /\ Open(r)' = "no" /\ Gone(r)' = Gone(r)
      BY <2>1, <2>2, <2>3, <2>4, <1>w, <1>i
    <2> QED BY <1>a, <2>1, <2>5 DEF HelperMoves
  <1>7. CASE S!Deliver(h)
    BY <1>b, <1>7 DEF S!Deliver
  <1>8. CASE S!Abandon(h)
    <2>1. task[h] = "send" /\ job[h] = None /\ active' = active /\ job' = job
            /\ abandoned' = abandoned \cup {r} /\ task' = [task EXCEPT ![h] = "done"]
      BY <1>0, <1>b, <1>8 DEF S!Abandon, S!storeVars, S!Idle, S!Goto
    <2>2. Gone(r)' = "yes"  BY <2>1 DEF Gone
    <2>3. task'[h] = "done" /\ task'[m] = task[m] /\ Op(h)' = "none" /\ Op(h) = "none"
            /\ Open(r)' = Open(r)
      BY <2>1, <1>w, <1>i
    <2> QED BY <1>a, <2>1, <2>2, <2>3 DEF HelperMoves
  <1>9. CASE S!Chunk(h)
    <2>1. task[h] = "stream" /\ job[h] = None /\ abandoned' = abandoned /\ task' = task
            /\ (active' = [active EXCEPT ![r] = S!Row(r)] \/ active' = active)
      BY <1>0, <1>9 DEF S!Chunk, S!Idle
    <2>a. kind[r] \in {"redirect", "codex"} /\ kind[r] \notin {"encoded", "opaque"}  BY <1>a, <2>1
    <2>2. Op(h)' = "usage"
      <3>1. job' = [job EXCEPT ![h] = [op |-> "usage", tokens |-> Usage[chunk[h] + 1]]]
        BY <1>0, <1>9, <2>a DEF S!Chunk, S!Begin, S!Compressed
      <3>2. chunk[h] + 1 \in 1 .. Len(Usage)
        BY <1>0, <1>9, UsageTokens DEF S!Chunk, BookTypes
      <3>3. [op |-> "usage", tokens |-> Usage[chunk[h] + 1]] \in S!Jobs
        BY <3>2, JobMade, UsageTokens
      <3> QED BY <3>1, <3>3, <1>w
    <2>3. Open(r)' \in {Open(r), "yes"}  BY <2>1, <1>w, <1>r
    <2>4. Op(h) = "none" /\ Gone(r)' = Gone(r) /\ task'[h] = "stream" /\ task'[m] = task[m]
      BY <2>1, <1>w, <1>i
    <2> QED BY <2>a, <2>1, <2>2, <2>3, <2>4 DEF HelperMoves
  <1>10. CASE S!StreamEnds(h)
    <2>1. task[h] = "stream" /\ job[h] = None /\ abandoned' = abandoned /\ active' = active
            /\ task' = [task EXCEPT ![h] = "close"]
      BY <1>0, <1>10 DEF S!StreamEnds, S!Idle, S!Goto, S!storeVars
    <2>a. kind[r] \in {"redirect", "codex"} /\ kind[r] \notin {"encoded", "opaque"}  BY <1>a, <2>1
    <2>2. job' = job  BY <1>0, <1>10, <2>a DEF S!StreamEnds, S!Decodable, S!Compressed
    <2>4. Op(h) = "none" /\ Op(h)' = "none" /\ Open(r)' = Open(r) /\ Gone(r)' = Gone(r)
            /\ task'[h] = "close" /\ task'[m] = task[m]
      BY <2>1, <2>2, <1>w, <1>i
    <2> QED BY <2>a, <2>1, <2>4 DEF HelperMoves
  <1>11. CASE S!Completed(h) \/ S!Errored(h)
    <2>1. PICK o \in {"completed", "error"}, x \in S!Tokens \cup {None} : S!CloseRow(h, o, x)
      BY <1>11, UsageTokens DEF S!Completed, S!Errored
    <2>2. task[h] = "close" /\ job[h] = None /\ abandoned' = abandoned
            /\ task' = [task EXCEPT ![h] = "done"]
      BY <1>11, Zenon DEF S!Completed, S!Errored, S!Goto, S!Idle
    <2>3. PICK rec \in S!Records :
            job' = [job EXCEPT ![h] = [op |-> IF o = "error" THEN "errors" ELSE "count", rec |-> rec]]
      BY <1>0, <2>1, TypesClose
    <2>4. PICK e \in {"errors", "count"} : e = IF o = "error" THEN "errors" ELSE "count"
      OBVIOUS
    <2>5. [op |-> e, rec |-> rec] \in S!Jobs  BY JobMade
    <2>6. active' = [active EXCEPT ![r] = None]  BY <1>0, <2>1, TypesClose
    <2>7. task'[h] = "done" /\ task'[m] = task[m] /\ Op(h)' = e /\ Op(h) = "none"
            /\ Open(r)' = "no" /\ Gone(r)' = Gone(r)
      BY <2>2, <2>3, <2>4, <2>5, <2>6, <1>w, <1>i
    <2> QED BY <1>a, <2>2, <2>7 DEF HelperMoves
  <1>12. CASE S!Observe(h)
    <2>1. task[h] = "observe" /\ job[h] = None /\ abandoned' = abandoned /\ active' = active
            /\ task' = task /\ queue[r] # <<>>
            /\ job' = [job EXCEPT ![h] = [op |-> "usage", tokens |-> Usage[Head(queue[r])]]]
      BY <1>0, <1>12 DEF S!Observe, S!Idle, S!storeVars, S!Begin
    <2>2. Head(queue[r]) \in 1 .. Len(Usage)
      <3>1. PICK q : q = queue[r]  OBVIOUS
      <3>2. q \in Seq(DOMAIN Usage) /\ q # <<>>  BY <2>1, <3>1 DEF BookTypes
      <3>3. Head(q) \in DOMAIN Usage  BY <3>2
      <3> QED BY <3>1, <3>3, UsageTokens
    <2>3. [op |-> "usage", tokens |-> Usage[Head(queue[r])]] \in S!Jobs
      BY <2>2, JobMade, UsageTokens
    <2>4. Op(h) = "none" /\ Op(h)' = "usage" /\ Open(r)' = Open(r) /\ Gone(r)' = Gone(r)
            /\ task'[h] = "observe" /\ task'[m] = task[m]
      BY <2>1, <2>3, <1>w, <1>i
    <2> QED BY <1>b, <2>1, <2>4 DEF HelperMoves
  <1>13. CASE S!ObserverEnds(h)
    <2>1. task[h] = "observe" /\ job[h] = None /\ abandoned' = abandoned /\ active' = active
            /\ task' = [task EXCEPT ![h] = "done"] /\ job' = job
      BY <1>0, <1>13 DEF S!ObserverEnds, S!Idle, S!storeVars, S!Goto
    <2>4. Op(h) = "none" /\ Op(h)' = "none" /\ Open(r)' = Open(r) /\ Gone(r)' = Gone(r)
            /\ task'[h] = "done" /\ task'[m] = task[m]
      BY <2>1, <1>w, <1>i
    <2> QED BY <1>b, <2>1, <2>4 DEF HelperMoves
  <1> QED BY <1>1, <1>2, <1>3, <1>4, <1>5, <1>6, <1>7, <1>8, <1>9, <1>10, <1>11, <1>12, <1>13 DEF S!Serve

(* ... and leaves the other requests alone.                                *)
LEMMA OtherRequests ==
  ASSUME BookConstants, BookTypes, NEW r \in Requests, NEW t \in S!Tasks, S!Req(t) = r,
         S!Serve(t) \/ S!Observe(t) \/ S!ObserverEnds(t)
  PROVE  /\ kind' = kind /\ UNCHANGED <<recent, forgotten, totals>>
         /\ \A u \in S!Tasks \ {t} : job'[u] = job[u] /\ chunk'[u] = chunk[u]
         /\ \A u \in S!Tasks : S!Req(u) # r => task'[u] = task[u]
         /\ \A q \in Requests \ {r} :
              /\ active'[q] = active[q] /\ queue'[q] = queue[q]
              /\ (q \in cut') = (q \in cut) /\ (q \in abandoned') = (q \in abandoned)
  <1>0. /\ task \in [S!Tasks -> S!Pcs] /\ job \in [S!Tasks -> S!Jobs \cup {None}]
        /\ chunk \in [S!Tasks -> 0 .. Len(Usage)] /\ queue \in [Requests -> Seq(DOMAIN Usage)]
        /\ active \in [Requests -> S!Records \cup {None}]
    BY DEF BookTypes
  <1>1. kind' = kind /\ UNCHANGED <<recent, forgotten, totals>>
    BY DEF S!Serve, S!Observe, S!ObserverEnds, S!Started, S!RouteDecided, S!EstimateUsage, S!Post,
           S!Respond, S!SendFails, S!Deliver, S!Abandon, S!Chunk, S!StreamEnds, S!Completed,
           S!Errored, S!CloseRow, S!storeVars
  <1>2. \A u \in S!Tasks \ {t} : job'[u] = job[u]
    <2>1. job' = job \/ \E j : job' = [job EXCEPT ![t] = j]
      BY DEF S!Serve, S!Observe, S!ObserverEnds, S!Started, S!RouteDecided, S!EstimateUsage, S!Post,
           S!Respond, S!SendFails, S!Deliver, S!Abandon, S!Chunk, S!StreamEnds, S!Completed,
           S!Errored, S!CloseRow, S!Begin
    <2> QED BY <1>0, <2>1
  <1>3. \A u \in S!Tasks \ {t} : chunk'[u] = chunk[u]
    <2>1. chunk' = chunk \/ \E j : chunk' = [chunk EXCEPT ![t] = j]
      BY DEF S!Serve, S!Observe, S!ObserverEnds, S!Started, S!RouteDecided, S!EstimateUsage, S!Post,
           S!Respond, S!SendFails, S!Deliver, S!Abandon, S!Chunk, S!StreamEnds, S!Completed,
           S!Errored
    <2> QED BY <1>0, <2>1
  <1>4. \A u \in S!Tasks : S!Req(u) # r => task'[u] = task[u]
    <2>0. S!Req(<<"helper", r>>) = r  BY TaskParts
    <2>1. \/ task' = task
          \/ \E j : task' = [task EXCEPT ![t] = j]
          \/ \E j, l : task' = [task EXCEPT ![t] = j, ![<<"helper", r>>] = l]
      BY DEF S!Serve, S!Observe, S!ObserverEnds, S!Started, S!RouteDecided, S!EstimateUsage, S!Post,
           S!Respond, S!SendFails, S!Deliver, S!Abandon, S!Chunk, S!StreamEnds, S!Completed,
           S!Errored, S!Goto, S!storeVars, S!Adapter
    <2> QED BY <1>0, <2>0, <2>1
  <1>5. \A q \in Requests \ {r} : active'[q] = active[q]
    <2>1. active' = active \/ \E j : active' = [active EXCEPT ![r] = j]
      BY DEF S!Serve, S!Observe, S!ObserverEnds, S!Started, S!RouteDecided, S!EstimateUsage, S!Post,
           S!Respond, S!SendFails, S!Deliver, S!Abandon, S!Chunk, S!StreamEnds, S!Completed,
           S!Errored, S!CloseRow, S!storeVars
    <2> QED BY <1>0, <2>1
  <1>6. \A q \in Requests \ {r} : queue'[q] = queue[q]
    <2>1. queue' = queue \/ \E j : queue' = [queue EXCEPT ![r] = j]
      BY DEF S!Serve, S!Observe, S!ObserverEnds, S!Started, S!RouteDecided, S!EstimateUsage, S!Post,
           S!Respond, S!SendFails, S!Deliver, S!Abandon, S!Chunk, S!StreamEnds, S!Completed,
           S!Errored, S!queueVars
    <2> QED BY <1>0, <2>1
  <1>7. cut' = cut \/ cut' = cut \cup {r}
    BY DEF S!Serve, S!Observe, S!ObserverEnds, S!Started, S!RouteDecided, S!EstimateUsage, S!Post,
           S!Respond, S!SendFails, S!Deliver, S!Abandon, S!Chunk, S!StreamEnds, S!Completed,
           S!Errored, S!queueVars
  <1>8. abandoned' = abandoned \/ abandoned' = abandoned \cup {r}
    BY DEF S!Serve, S!Observe, S!ObserverEnds, S!Started, S!RouteDecided, S!EstimateUsage, S!Post,
           S!Respond, S!SendFails, S!Deliver, S!Abandon, S!Chunk, S!StreamEnds, S!Completed,
           S!Errored
  <1> QED BY <1>1, <1>2, <1>3, <1>4, <1>5, <1>6, <1>7, <1>8

Joined(R, f, e, s) ==
         /\ s \in Seq(R) /\ Len(s) = Len(f) + Len(e)
         /\ DOMAIN s = 1 .. Len(s) /\ Len(s) \in Nat
         /\ \A i \in 1 .. Len(s) : s[i] \in R
         /\ \A i \in 1 .. Len(f) : s[i] = f[i]
         /\ \A i \in 1 .. Len(e) : s[Len(f) + i] = e[i]
         /\ Len(f) \in Nat /\ Len(e) \in Nat
         /\ DOMAIN e = 1 .. Len(e)
         /\ \A i \in 1 .. Len(e) : e[i] \in R

LEMMA ConcatParts ==
  ASSUME NEW R, NEW f, f \in Seq(R), NEW e, e \in Seq(R), NEW s, s = f \o e
  PROVE  Joined(R, f, e, s)
  <1>1. s \in Seq(R) /\ Len(s) = Len(f) + Len(e)  OBVIOUS
  <1>2. DOMAIN s = 1 .. Len(s) /\ Len(s) \in Nat  BY <1>1
  <1>3. \A i \in 1 .. Len(s) : s[i] \in R  BY <1>1
  <1>4. \A i \in 1 .. Len(f) : s[i] = f[i]  OBVIOUS
  <1>5. \A i \in 1 .. Len(e) : s[Len(f) + i] = e[i]  OBVIOUS
  <1>6. Len(f) \in Nat /\ Len(e) \in Nat /\ DOMAIN e = 1 .. Len(e)
          /\ \A i \in 1 .. Len(e) : e[i] \in R
    OBVIOUS
  <1> QED BY <1>1, <1>2, <1>3, <1>4, <1>5, <1>6 DEF Joined

(* The finished records, evicted or not.                                   *)
LEMMA FinishedTypes ==
  ASSUME BookTypes
  PROVE  /\ S!Finished \in Seq(S!Records) /\ Len(S!Finished) = Len(forgotten) + Len(recent)
         /\ DOMAIN S!Finished = 1 .. Len(S!Finished) /\ Len(S!Finished) \in Nat
         /\ \A i \in 1 .. Len(S!Finished) : S!Finished[i] \in S!Records
         /\ \A i \in 1 .. Len(forgotten) : S!Finished[i] = forgotten[i]
         /\ \A i \in 1 .. Len(recent) : S!Finished[Len(forgotten) + i] = recent[i]
         /\ Len(forgotten) \in Nat /\ Len(recent) \in Nat
         /\ DOMAIN recent = 1 .. Len(recent)
         /\ \A i \in 1 .. Len(recent) : recent[i] \in S!Records
  <1>1. forgotten \in Seq(S!Records) /\ recent \in Seq(S!Records)  BY DEF BookTypes
  <1>2. S!Finished = forgotten \o recent  BY DEF S!Finished
  <1>3. Joined(S!Records, forgotten, recent, S!Finished)  BY <1>1, <1>2, ConcatParts
  <1> QED BY <1>3 DEF Joined

LEMMA FinishedNext == ASSUME BookTypes' PROVE Joined(S!Records, forgotten', recent', S!Finished')
  <1>1. forgotten' \in Seq(S!Records) /\ recent' \in Seq(S!Records)  BY DEF BookTypes
  <1>2. S!Finished' = forgotten' \o recent'  BY DEF S!Finished
  <1> QED BY <1>1, <1>2, ConcatParts

LEMMA FinishedSame == ASSUME UNCHANGED <<recent, forgotten>> PROVE S!Finished' = S!Finished
  BY DEF S!Finished

(* Eviction moves the oldest records: a push appends one record.           *)
Appended(q, x, q1) ==
  Len(q1) = Len(q) + 1 /\ (\A i \in 1 .. Len(q) : q1[i] = q[i]) /\ q1[Len(q) + 1] = x
Slice(a, i, k, b) == Len(b) = k - i /\ \A j \in 1 .. k - i : b[j] = a[i + j]

LEMMA SliceIs ==
  ASSUME NEW R, NEW a, a \in Seq(R), NEW i \in 0 .. Len(a), NEW k \in i .. Len(a),
         NEW b, b = SubSeq(a, i + 1, k)
  PROVE  Slice(a, i, k, b) /\ b \in Seq(R)
  <1>1. Len(a) \in Nat /\ DOMAIN a = 1 .. Len(a)  OBVIOUS
  <1>2. \A j \in i + 1 .. k : a[j] \in R  BY <1>1
  <1>3. b \in Seq(R)  BY <1>1, <1>2
  <1>4. Len(b) = k - i  BY <1>1, <1>2
  <1>5. \A j \in 1 .. k - i : b[j] = a[i + j]  BY <1>1, <1>2
  <1> QED BY <1>3, <1>4, <1>5 DEF Slice

LEMMA Evicts ==
  ASSUME NEW R, NEW f, NEW e, NEW x, NEW k \in 0 .. Len(e) + 1, NEW a, Appended(e, x, a),
         NEW b, Slice(a, 0, k, b), NEW e1, Slice(a, k, Len(a), e1),
         NEW q, Joined(R, f, e, q), NEW f1, Joined(R, f, b, f1), NEW q1, Joined(R, f1, e1, q1)
  PROVE  Appended(q, x, q1)
  <1>1. Len(a) = Len(e) + 1 /\ a[Len(e) + 1] = x /\ \A i \in 1 .. Len(e) : a[i] = e[i]
    BY DEF Appended
  <1>4. Len(e) \in Nat /\ Len(f) \in Nat  BY DEF Joined
  <1>6. Len(e1) = Len(a) - k /\ \A i \in 1 .. Len(a) - k : e1[i] = a[k + i]
    BY DEF Slice
  <1>8. Len(f1) = Len(f) + k /\ (\A i \in 1 .. Len(f) : f1[i] = f[i])
          /\ \A i \in 1 .. k : f1[Len(f) + i] = a[i]
    <2>1. Len(b) = k /\ \A i \in 1 .. k : b[i] = a[i]  BY DEF Slice
    <2> QED BY <2>1 DEF Joined
  <1>10. Len(q1) = Len(f) + Len(a) /\ (\A i \in 1 .. Len(f1) : q1[i] = f1[i])
          /\ \A i \in 1 .. Len(e1) : q1[Len(f1) + i] = e1[i]
    <2>1. Len(f1) + Len(e1) = Len(f) + Len(a)  BY <1>1, <1>4, <1>6, <1>8
    <2> QED BY <2>1 DEF Joined
  <1>12. Len(q) = Len(f) + Len(e) /\ (\A i \in 1 .. Len(f) : q[i] = f[i])
          /\ \A i \in 1 .. Len(e) : q[Len(f) + i] = e[i]
    BY DEF Joined
  <1>13. ASSUME NEW i \in 1 .. Len(q) + 1
         PROVE  q1[i] = IF i \in 1 .. Len(f) THEN f[i] ELSE a[i - Len(f)]
    <2>1. CASE i \in 1 .. Len(f)  BY <1>4, <1>8, <1>10, <2>1
    <2>2. CASE i \notin 1 .. Len(f) /\ i \in 1 .. Len(f1)
      <3>1. q1[i] = f1[i]  BY <1>10, <2>2
      <3>2. i - Len(f) \in 1 .. k /\ Len(f) + (i - Len(f)) = i  BY <1>4, <1>8, <2>2
      <3>3. f1[i] = a[i - Len(f)]  BY <1>8, <3>2
      <3> QED BY <2>2, <3>1, <3>3
    <2>3. CASE i \notin 1 .. Len(f1)
      <3> DEFINE j == i - Len(f1)
      <3>1. j \in 1 .. Len(e1) /\ Len(f1) + j = i /\ k + j = i - Len(f) /\ i \notin 1 .. Len(f)
        BY <1>1, <1>4, <1>6, <1>8, <1>12, <2>3
      <3>2. q1[i] = e1[j]  BY <1>10, <3>1
      <3>3. e1[j] = a[k + j]  BY <1>6, <3>1
      <3> QED BY <3>1, <3>2, <3>3
    <2> QED BY <2>1, <2>2, <2>3
  <1>14. \A i \in 1 .. Len(q) : q1[i] = q[i]
    <2> SUFFICES ASSUME NEW i \in 1 .. Len(q) PROVE q1[i] = q[i]
      OBVIOUS
    <2>1. Len(q) \in Nat /\ i \in 1 .. Len(q) + 1  BY <1>4, <1>12
    <2>2. CASE i \in 1 .. Len(f)  BY <1>12, <1>13, <2>1, <2>2
    <2>3. CASE i \notin 1 .. Len(f)
      <3>1. i - Len(f) \in 1 .. Len(e) /\ Len(f) + (i - Len(f)) = i  BY <1>4, <1>12, <2>3
      <3>2. q[i] = e[i - Len(f)]  BY <1>12, <3>1
      <3> QED BY <1>1, <1>13, <2>1, <2>3, <3>1, <3>2
    <2> QED BY <2>2, <2>3
  <1>15. Len(q1) = Len(q) + 1  BY <1>1, <1>4, <1>10, <1>12
  <1>16. q1[Len(q) + 1] = x
    <2>1. Len(q) + 1 \in 1 .. Len(q) + 1 /\ Len(q) + 1 \notin 1 .. Len(f)
            /\ (Len(q) + 1) - Len(f) = Len(e) + 1
      BY <1>4, <1>12
    <2> QED BY <1>1, <1>13, <2>1
  <1> QED BY <1>14, <1>15, <1>16 DEF Appended

LEMMA FinishedPush ==
  ASSUME BookConstants, BookTypes, NEW t \in S!Tasks, S!Push(t)
  PROVE  /\ job[t] # None /\ job[t].op = "push" /\ job[t].rec \in S!Records
         /\ Appended(S!Finished, job[t].rec, S!Finished')
         /\ \A i \in DOMAIN recent' :
              recent'[i] = job[t].rec \/ \E j \in DOMAIN recent : recent'[i] = recent[j]
         /\ job' = [job EXCEPT ![t] = None] /\ totals' = totals
  <1>1. /\ job[t] # None /\ job[t].op = "push" /\ job[t] \in S!Jobs
        /\ job' = [job EXCEPT ![t] = None] /\ totals' = totals
    BY DEF S!Push, S!End, BookTypes
  <1>2. PICK x \in S!Records : x = job[t].rec  BY <1>1, JobParts
  <1>3. PICK a : a = Append(recent, x)  OBVIOUS
  <1>4. recent \in Seq(S!Records) /\ forgotten \in Seq(S!Records) /\ Len(recent) \in Nat
    BY DEF BookTypes
  <1>5. a \in Seq(S!Records) /\ Len(a) = Len(recent) + 1 /\ a[Len(recent) + 1] = x
          /\ \A i \in 1 .. Len(recent) : a[i] = recent[i]
    BY <1>3, <1>4
  <1>6. PICK k : k = IF Len(a) > RecentCapacity THEN Len(a) - RecentCapacity ELSE 0
    OBVIOUS
  <1>7. k \in 0 .. Len(recent) + 1  BY <1>4, <1>5, <1>6 DEF BookConstants
  <1>8. recent' = SubSeq(a, k + 1, Len(a)) /\ forgotten' = forgotten \o SubSeq(a, 1, k)
    BY <1>2, <1>3, <1>6 DEF S!Push
  <1>9. Appended(S!Finished, x, S!Finished')
    <2>1. S!Finished = forgotten \o recent /\ S!Finished' = forgotten' \o recent'
      BY DEF S!Finished
    <2>2. PICK b : b = SubSeq(a, 1, k)  OBVIOUS
    <2>3. Slice(a, 0, k, b) /\ b \in Seq(S!Records)
      <3>1. 0 \in 0 .. Len(a) /\ k \in 0 .. Len(a) /\ b = SubSeq(a, 0 + 1, k)
        BY <1>4, <1>5, <1>7, <2>2
      <3> QED BY <1>5, <3>1, SliceIs
    <2>4. Slice(a, k, Len(a), recent') /\ recent' \in Seq(S!Records)
      <3>1. k \in 0 .. Len(a) /\ Len(a) \in k .. Len(a)  BY <1>4, <1>5, <1>7
      <3> QED BY <1>5, <1>8, <3>1, SliceIs
    <2>5. Joined(S!Records, forgotten, recent, S!Finished)  BY <1>4, <2>1, ConcatParts
    <2>6. Joined(S!Records, forgotten, b, forgotten')  BY <1>4, <1>8, <2>2, <2>3, ConcatParts
    <2>7. forgotten' \in Seq(S!Records)  BY <2>6 DEF Joined
    <2>8. Joined(S!Records, forgotten', recent', S!Finished')  BY <2>1, <2>4, <2>7, ConcatParts
    <2>9. Appended(recent, x, a)  BY <1>5 DEF Appended
    <2> QED BY <1>7, <2>3, <2>4, <2>5, <2>6, <2>8, <2>9, Evicts
  <1>10. ASSUME NEW i \in DOMAIN recent'
         PROVE  recent'[i] = x \/ \E j \in DOMAIN recent : recent'[i] = recent[j]
    <2>1. recent' \in Seq(S!Records) /\ Len(recent') = Len(a) - k /\ Len(a) - k \in Nat
            /\ \A j \in 1 .. Len(a) - k : recent'[j] = a[k + j]
      BY <1>4, <1>5, <1>7, <1>8
    <2>2. i \in 1 .. Len(a) - k  BY <2>1
    <2>3. recent'[i] = a[k + i] /\ k + i \in 1 .. Len(recent) + 1
      BY <1>4, <1>5, <1>7, <2>1, <2>2
    <2>4. DOMAIN recent = 1 .. Len(recent)  BY <1>4
    <2> QED BY <1>4, <1>5, <2>3, <2>4
  <1> QED BY <1>1, <1>2, <1>9, <1>10

(* A late usage changes the tokens of one record.                          *)
LEMMA FinishedMerge ==
  ASSUME BookConstants, BookTypes, NEW t \in S!Tasks, S!MergeRecent(t)
  PROVE  \/ /\ \A i \in DOMAIN recent : recent[i].id # S!Req(t)
            /\ UNCHANGED <<recent, forgotten>> /\ job' = [job EXCEPT ![t] = None]
         \/ \E l \in 1 .. Len(recent) :
              /\ recent[l].id = S!Req(t)
              /\ recent' = [recent EXCEPT ![l] = [recent[l] EXCEPT !.tokens = job[t].tokens]]
              /\ forgotten' = forgotten /\ job[t].tokens \in S!Tokens
              /\ job' = [job EXCEPT ![t] =
                   [op |-> "adjust", old |-> S!Count(recent[l].tokens), new |-> job[t].tokens]]
  <1> DEFINE mine == {i \in DOMAIN recent : recent[i].id = S!Req(t)}
             last == CHOOSE i \in mine : \A j \in mine : j <= i
  <1>1. job[t] \in S!Jobs /\ job[t].op = "late" /\ forgotten' = forgotten
    BY DEF S!MergeRecent, BookTypes
  <1>2. PICK y \in S!Tokens : y = job[t].tokens  BY <1>1, JobParts
  <1>3. y # None  BY UsageTokens
  <1>4. recent \in Seq(S!Records) /\ Len(recent) \in Nat /\ DOMAIN recent = 1 .. Len(recent)
    BY DEF BookTypes
  <1>5. CASE mine = {}
    BY <1>1, <1>5 DEF S!MergeRecent, S!End
  <1>6. CASE mine # {}
    <2>1. mine \in SUBSET (1 .. Len(recent))  BY <1>4
    <2>2. last \in mine
      <3> HIDE DEF mine
      <3> QED BY <1>4, <1>6, <2>1, LastIndex
    <2>3. PICK l : l = last  OBVIOUS
    <2>4. l \in 1 .. Len(recent) /\ recent[l].id = S!Req(t)  BY <1>4, <2>2, <2>3
    <2>5. recent' = [recent EXCEPT ![l].tokens = S!Merge(@, y)]
            /\ job' = [job EXCEPT ![t] = [op |-> "adjust", old |-> S!Count(recent[l].tokens),
                                          new |-> S!Count(recent'[l].tokens)]]
      BY <1>2, <1>6, <2>3 DEF S!MergeRecent, S!Begin
    <2>6. recent' = [recent EXCEPT ![l] = [recent[l] EXCEPT !.tokens = y]]
      BY <1>3, <2>5 DEF S!Merge
    <2>7. recent'[l].tokens = y
      <3>1. recent[l] \in S!Records  BY <1>4, <2>4
      <3>2. [recent[l] EXCEPT !.tokens = y].tokens = y  BY <3>1 DEF S!Records
      <3>3. recent'[l] = [recent[l] EXCEPT !.tokens = y]  BY <1>4, <2>4, <2>6
      <3> QED BY <3>2, <3>3
    <2>8. S!Count(recent'[l].tokens) = y  BY <1>3, <2>7 DEF S!Count
    <2> QED BY <1>1, <1>2, <2>4, <2>5, <2>6, <2>8
  <1> QED BY <1>5, <1>6

RequestInv(r, m, h) ==
  /\ Pairs(kind[r], task[m], task[h], Op(m), Op(h), Open(r), Gone(r))
  /\ Rows(kind[r], task[m], task[h], Op(m), Op(h), Open(r))
  /\ Ends(kind[r], task[m], task[h], Op(m), Op(h), Open(r), Gone(r), Mine(r))
RecordsNamed == \A t \in S!Tasks : Op(t) \in Closings => job[t].rec.id = S!Req(t)
RequestsInv ==
  RecordsNamed /\ \A r \in Requests : RequestInv(r, <<"main", r>>, <<"helper", r>>)

LEMMA RequestTasks ==
  /\ \A r \in Requests : TasksOf(r, <<"main", r>>, <<"helper", r>>)
  /\ \A t \in S!Tasks :
       /\ S!Req(t) \in Requests
       /\ t = <<"main", S!Req(t)>> \/ t = <<"helper", S!Req(t)>>
  BY DEF TasksOf, S!Tasks, S!Req, S!Adapter

(* A request's records after an update.                                    *)
LEMMA MineApply ==
  ASSUME BookConstants, BookTypes, RecordsNamed, NEW t \in S!Tasks, S!Apply(t), NEW r \in Requests
  PROVE  IF r = S!Req(t) THEN Records1(Op(t), Mine(r), Mine(r)') ELSE Mine(r)' = Mine(r)
  <1>1. CASE S!Push(t)
    <2>1. Op(t) = "push"  BY <1>1 DEF S!Push, Op
    <2>2. job[t].rec.id = S!Req(t)  BY <2>1 DEF RecordsNamed, Closings
    <2>3. PICK q, q1, n, x : q = S!Finished /\ q1 = S!Finished' /\ n = Len(q) + 1 /\ x = job[t].rec
      OBVIOUS
    <2>4. Appended(q, x, q1)  BY <1>1, <2>3, FinishedPush
    <2>5. DOMAIN q = 1 .. Len(q) /\ Len(q) \in Nat  BY <2>3, FinishedTypes
    <2>6. DOMAIN q1 = 1 .. Len(q1)
      <3>1. BookTypes'  BY TypesApply
      <3>2. DOMAIN S!Finished' = 1 .. Len(S!Finished')
        BY <3>1, FinishedNext DEF Joined
      <3> QED BY <2>3, <3>2
    <2>7. Mine(r) = {i \in DOMAIN q : q[i].id = r} /\ Mine(r)' = {i \in DOMAIN q1 : q1[i].id = r}
      BY <2>3 DEF Mine
    <2>8. DOMAIN q1 = DOMAIN q \cup {n} /\ n \notin DOMAIN q /\ q1[n] = x
            /\ \A i \in DOMAIN q : q1[i] = q[i]
      BY <2>3, <2>4, <2>5, <2>6 DEF Appended
    <2>9. x.id = S!Req(t)  BY <2>2, <2>3
    <2>10. CASE r = S!Req(t)
      <3>1. Mine(r)' = Mine(r) \cup {n} /\ n \notin Mine(r)
        BY <2>7, <2>8, <2>9, <2>10
      <3> QED BY <2>1, <2>10, <3>1 DEF Records1
    <2>11. CASE r # S!Req(t)
      <3>1. Mine(r)' = Mine(r)
        BY <2>7, <2>8, <2>9, <2>11
      <3> QED BY <2>11, <3>1
    <2> QED BY <2>10, <2>11
  <1>2. CASE ~S!Push(t)
    <2>1. Op(t) # "push"
      BY <1>2 DEF S!Apply, S!ApplyUsage, S!MergeRecent, S!Adjust, S!CountError, S!CountTotals, Op
    <2>2. Mine(r)' = Mine(r)
      <3>1. CASE UNCHANGED <<recent, forgotten>>
        BY <3>1, FinishedSame DEF Mine
      <3>2. CASE ~UNCHANGED <<recent, forgotten>>
        <4>1. S!MergeRecent(t)
          BY <1>2, <3>2 DEF S!Apply, S!ApplyUsage, S!MergeRecent, S!Adjust, S!CountError, S!CountTotals
        <4>2. PICK l \in 1 .. Len(recent) :
                /\ recent' = [recent EXCEPT ![l] = [recent[l] EXCEPT !.tokens = job[t].tokens]]
                /\ forgotten' = forgotten
          BY <3>2, <4>1, FinishedMerge
        <4>3. PICK s : s = S!Finished  OBVIOUS
        <4>4. PICK s1 : s1 = S!Finished'  OBVIOUS
        <4>5. BookTypes'  BY TypesApply
        <4>6. /\ Len(s1) = Len(forgotten') + Len(recent')
              /\ DOMAIN s1 = 1 .. Len(s1)
              /\ \A i \in 1 .. Len(forgotten') : s1[i] = forgotten'[i]
              /\ \A i \in 1 .. Len(recent') : s1[Len(forgotten') + i] = recent'[i]
          <5>1. Joined(S!Records, forgotten', recent', s1)  BY <4>4, <4>5, FinishedNext
          <5> QED BY <5>1 DEF Joined
        <4>7. /\ Len(s) = Len(forgotten) + Len(recent) /\ DOMAIN s = 1 .. Len(s)
              /\ \A i \in 1 .. Len(forgotten) : s[i] = forgotten[i]
              /\ \A i \in 1 .. Len(recent) : s[Len(forgotten) + i] = recent[i] /\ recent[i] \in S!Records
              /\ Len(recent) \in Nat /\ Len(forgotten) \in Nat /\ DOMAIN recent = 1 .. Len(recent)
          BY <4>3, FinishedTypes
        <4>8. recent \in Seq(S!Records)  BY DEF BookTypes
        <4>9. Len(recent') = Len(recent) /\ \A i \in 1 .. Len(recent) : recent'[i].id = recent[i].id
          <5>1. recent[l] \in S!Records  BY <4>7
          <5>2. \A x : [recent[l] EXCEPT !.tokens = x].id = recent[l].id  BY <5>1 DEF S!Records
          <5> QED BY <4>2, <4>7, <4>8, <5>2
        <4>10. DOMAIN s1 = DOMAIN s /\ \A i \in DOMAIN s : s1[i].id = s[i].id
          <5>1. DOMAIN s1 = DOMAIN s  BY <4>2, <4>6, <4>7, <4>9
          <5>2. ASSUME NEW i \in DOMAIN s PROVE s1[i].id = s[i].id
            <6>1. CASE i \in 1 .. Len(forgotten)  BY <4>2, <4>6, <4>7, <6>1
            <6>2. CASE i \notin 1 .. Len(forgotten)
              <7>1. i - Len(forgotten) \in 1 .. Len(recent) /\ Len(forgotten) + (i - Len(forgotten)) = i
                BY <4>7, <6>2
              <7>2. s[i] = recent[i - Len(forgotten)]  BY <4>7, <7>1
              <7>3. s1[i] = recent'[i - Len(forgotten)]  BY <4>2, <4>6, <4>9, <7>1
              <7> QED BY <4>9, <7>1, <7>2, <7>3
            <6> QED BY <6>1, <6>2
          <5> QED BY <5>1, <5>2
        <4>11. Mine(r) = {i \in DOMAIN s : s[i].id = r} /\ Mine(r)' = {i \in DOMAIN s1 : s1[i].id = r}
          BY <4>3, <4>4 DEF Mine
        <4> QED BY <4>10, <4>11
      <3> QED BY <3>1, <3>2
    <2> QED BY <2>1, <2>2 DEF Records1
  <1> QED BY <1>1, <1>2

LEMMA MineServe ==
  ASSUME BookConstants, BookTypes, NEW t \in S!Tasks, S!Serve(t) \/ S!Observe(t) \/ S!ObserverEnds(t),
         NEW r \in Requests
  PROVE  Mine(r)' = Mine(r)
  <1>1. S!Finished' = S!Finished
    BY TaskParts, OtherRequests, FinishedSame
  <1> QED BY <1>1 DEF Mine

(* Another request does not notice.                                        *)
LEMMA RequestUnmoved ==
  ASSUME NEW r \in Requests, NEW m, NEW h, RequestInv(r, m, h),
         kind' = kind, task'[m] = task[m], task'[h] = task[h], job'[m] = job[m], job'[h] = job[h],
         active'[r] = active[r], (r \in abandoned') = (r \in abandoned), Mine(r)' = Mine(r)
  PROVE  RequestInv(r, m, h)'
  <1>1. Op(m)' = Op(m) /\ Op(h)' = Op(h) /\ Open(r)' = Open(r) /\ Gone(r)' = Gone(r)
    BY DEF Op, Open, Gone
  <1>2. PICK k, x, y, o, p, a, g, F :
          /\ k = kind[r] /\ x = task[m] /\ y = task[h] /\ o = Op(m) /\ p = Op(h)
          /\ a = Open(r) /\ g = Gone(r) /\ F = Mine(r)
    OBVIOUS
  <1>3. Pairs(k, x, y, o, p, a, g) /\ Rows(k, x, y, o, p, a) /\ Ends(k, x, y, o, p, a, g, F)
    BY <1>2 DEF RequestInv
  <1>4. /\ k = kind'[r] /\ x = task'[m] /\ y = task'[h] /\ o = Op(m)' /\ p = Op(h)'
        /\ a = Open(r)' /\ g = Gone(r)' /\ F = Mine(r)'
    BY <1>1, <1>2
  <1> QED BY <1>3, <1>4 DEF RequestInv

(* The request of the task that moves.                                     *)
LEMMA RequestMoves ==
  ASSUME BookConstants, BookTypes, RecordsNamed, NEW r \in Requests, NEW m, NEW h, TasksOf(r, m, h),
         RequestInv(r, m, h), NEW t \in {m, h},
         S!Apply(t) \/ S!Serve(t) \/ S!Observe(t) \/ S!ObserverEnds(t)
  PROVE  RequestInv(r, m, h)'
  <1>0. m \in S!Tasks /\ h \in S!Tasks /\ S!Req(m) = r /\ S!Req(h) = r /\ m # h  BY DEF TasksOf
  <1>1. BookTypes'  BY <1>0, TypesApply, TypesServe
  <1>2. PICK k, x, y, o, p, a, g, F :
          /\ k = kind[r] /\ x = task[m] /\ y = task[h] /\ o = Op(m) /\ p = Op(h)
          /\ a = Open(r) /\ g = Gone(r) /\ F = Mine(r)
    OBVIOUS
  <1>3. PICK x1, y1, o1, p1, a1, g1, F1 :
          /\ x1 = task'[m] /\ y1 = task'[h] /\ o1 = Op(m)' /\ p1 = Op(h)'
          /\ a1 = Open(r)' /\ g1 = Gone(r)' /\ F1 = Mine(r)'
    OBVIOUS
  <1>4. /\ k \in S!AllKinds /\ o \in Ops /\ p \in Ops /\ a \in YesNo /\ g \in YesNo
        /\ kind' = kind
    <2>1. k \in S!AllKinds  BY <1>2 DEF BookTypes, BookConstants
    <2>2. o \in Ops /\ p \in Ops  BY <1>0, <1>2, OpTypes
    <2>3. a \in YesNo /\ g \in YesNo  BY <1>2 DEF YesNo, Open, Gone
    <2>4. kind' = kind  BY <1>0, FlatApply, OtherRequests
    <2> QED BY <2>1, <2>2, <2>3, <2>4
  <1>5. Pairs(k, x, y, o, p, a, g) /\ Rows(k, x, y, o, p, a) /\ Ends(k, x, y, o, p, a, g, F)
    BY <1>2 DEF RequestInv
  <1>6. Pairs(kind[r], task[m], task[h], Op(m), Op(h), Open(r), Gone(r))  BY DEF RequestInv
  <1>7. CASE t = m
    <2>1. MainMoves(k, x, y, o, a, g, <<x1, y1, o1, a1, g1>>) /\ Records1(o, F, F1)
      <3>1. CASE S!Apply(m)
        <4>1. Applies(o, a, o1, a1) /\ o1 \in Ops /\ a1 \in YesNo /\ g1 = g /\ task' = task
          BY <1>0, <1>2, <1>3, <3>1, FlatApply
        <4>2. Records1(o, F, F1)  BY <1>0, <1>2, <1>3, <3>1, MineApply
        <4>3. x1 = x /\ y1 = y  BY <1>2, <1>3, <4>1
        <4> QED BY <4>1, <4>2, <4>3 DEF MainMoves
      <3>2. CASE S!Serve(m) \/ S!Observe(m) \/ S!ObserverEnds(m)
        <4>1. MainMoves(kind[r], task[m], task[h], Op(m), Open(r), Gone(r),
                        <<task'[m], task'[h], Op(m)', Open(r)', Gone(r)'>>)
          BY <1>6, <3>2, FlatMain
        <4>2. MainMoves(k, x, y, o, a, g, <<x1, y1, o1, a1, g1>>)  BY <1>2, <1>3, <4>1
        <4>3. F1 = F  BY <1>0, <1>2, <1>3, <3>2, MineServe
        <4>4. o # "push"
          <5>1. job[m] = None \/ task[m] = "forward"
            BY <3>2 DEF S!Serve, S!Observe, S!ObserverEnds, S!Started, S!RouteDecided, S!EstimateUsage,
                  S!Post, S!Respond, S!SendFails, S!Deliver, S!Abandon, S!Chunk, S!StreamEnds,
                  S!Completed, S!Errored, S!Idle
          <5>2. o = "push" => x = "done"  BY <1>5 DEF Pairs, Closings
          <5> QED BY <1>2, <5>1, <5>2 DEF Op
        <4> QED BY <4>2, <4>3, <4>4 DEF Records1
      <3> QED BY <1>7, <3>1, <3>2
    <2>2. p1 = p
      <3>1. job'[h] = job[h]  BY <1>0, <1>7, FlatApply, OtherRequests
      <3> QED BY <1>2, <1>3, <3>1 DEF Op
    <2>3. o1 \in Ops /\ a1 \in YesNo /\ g1 \in YesNo
      <3>1. o1 \in Ops  BY <1>0, <1>1, <1>3, JobParts DEF BookTypes, Op, Ops
      <3> QED BY <1>3, <3>1 DEF YesNo, Open, Gone
    <2>4. Pairs(k, x1, y1, o1, p, a1, g1)  BY <1>4, <1>5, <2>1, <2>3, PairsMain
    <2>5. Rows(k, x1, y1, o1, p, a1)  BY <1>4, <1>5, <2>1, <2>3, RowsMain
    <2>6. Ends(k, x1, y1, o1, p, a1, g1, F1)  BY <1>4, <1>5, <2>1, <2>3, EndsMain
    <2> QED BY <1>2, <1>3, <1>4, <2>2, <2>4, <2>5, <2>6 DEF RequestInv
  <1>8. CASE t = h
    <2>1. HelperMoves(k, x, y, p, a, g, <<x1, y1, p1, a1, g1>>) /\ Records1(p, F, F1)
      <3>1. CASE S!Apply(h)
        <4>1. Applies(p, a, p1, a1) /\ p1 \in Ops /\ a1 \in YesNo /\ g1 = g /\ task' = task
          BY <1>0, <1>2, <1>3, <3>1, FlatApply
        <4>2. Records1(p, F, F1)  BY <1>0, <1>2, <1>3, <3>1, MineApply
        <4>3. x1 = x /\ y1 = y  BY <1>2, <1>3, <4>1
        <4> QED BY <4>1, <4>2, <4>3 DEF HelperMoves
      <3>2. CASE S!Serve(h) \/ S!Observe(h) \/ S!ObserverEnds(h)
        <4>1. HelperMoves(kind[r], task[m], task[h], Op(h), Open(r), Gone(r),
                        <<task'[m], task'[h], Op(h)', Open(r)', Gone(r)'>>)
          BY <1>6, <3>2, FlatHelper
        <4>2. HelperMoves(k, x, y, p, a, g, <<x1, y1, p1, a1, g1>>)  BY <1>2, <1>3, <4>1
        <4>3. F1 = F  BY <1>0, <1>2, <1>3, <3>2, MineServe
        <4>4. p # "push"
          <5>1. job[h] = None \/ task[h] = "forward"
            BY <3>2 DEF S!Serve, S!Observe, S!ObserverEnds, S!Started, S!RouteDecided, S!EstimateUsage,
                  S!Post, S!Respond, S!SendFails, S!Deliver, S!Abandon, S!Chunk, S!StreamEnds,
                  S!Completed, S!Errored, S!Idle
          <5>2. p = "push" => y = "done"  BY <1>5 DEF Pairs, Closings
          <5> QED BY <1>2, <5>1, <5>2 DEF Op
        <4> QED BY <4>2, <4>3, <4>4 DEF Records1
      <3> QED BY <1>8, <3>1, <3>2
    <2>2. o1 = o
      <3>1. job'[m] = job[m]  BY <1>0, <1>8, FlatApply, OtherRequests
      <3> QED BY <1>2, <1>3, <3>1 DEF Op
    <2>3. p1 \in Ops /\ a1 \in YesNo /\ g1 \in YesNo
      <3>1. p1 \in Ops  BY <1>0, <1>1, <1>3, JobParts DEF BookTypes, Op, Ops
      <3> QED BY <1>3, <3>1 DEF YesNo, Open, Gone
    <2>4. Pairs(k, x1, y1, o, p1, a1, g1)  BY <1>4, <1>5, <2>1, <2>3, PairsHelper
    <2>5. Rows(k, x1, y1, o, p1, a1)  BY <1>4, <1>5, <2>1, <2>3, RowsHelper
    <2>6. Ends(k, x1, y1, o, p1, a1, g1, F1)  BY <1>4, <1>5, <2>1, <2>3, EndsHelper
    <2> QED BY <1>2, <1>3, <1>4, <2>2, <2>4, <2>5, <2>6 DEF RequestInv
  <1> QED BY <1>7, <1>8

LEMMA NamedStep ==
  ASSUME BookConstants, BookTypes, RecordsNamed, NEW t \in S!Tasks,
         S!Apply(t) \/ S!Serve(t) \/ S!Observe(t) \/ S!ObserverEnds(t)
  PROVE  RecordsNamed'
  <1> DEFINE r == S!Req(t)
  <1>0. r \in Requests /\ job \in [S!Tasks -> S!Jobs \cup {None}] /\ None \notin S!Jobs
    BY TaskParts DEF BookTypes, BookConstants
  <1>1. ASSUME NEW u \in S!Tasks, u # t, Op(u)' \in Closings PROVE job'[u].rec.id = S!Req(u)
    <2>1. job'[u] = job[u]  BY <1>0, <1>1, FlatApply, OtherRequests
    <2>2. Op(u)' = Op(u)  BY <2>1 DEF Op
    <2> QED BY <1>1, <2>1, <2>2 DEF RecordsNamed
  <1>2. ASSUME Op(t)' \in Closings PROVE job'[t].rec.id = S!Req(t)
    <2>1. CASE S!Apply(t)
      <3>1. S!CountError(t) \/ S!CountTotals(t)
        <4>1. Applies(Op(t), Open(r), Op(t)', Open(r)')  BY <1>0, <2>1, FlatApply
        <4>2. Op(t) \in {"errors", "count"}  BY <1>2, <4>1 DEF Applies, Closings
        <4> QED BY <2>1, <4>2
              DEF Op, S!Apply, S!ApplyUsage, S!MergeRecent, S!Adjust, S!CountError, S!CountTotals, S!Push
      <3>2. PICK l \in {"count", "push"} : job' = [job EXCEPT ![t] = [job[t] EXCEPT !.op = l]]
        BY <3>1 DEF S!CountError, S!CountTotals, S!Begin
      <3>3. Op(t) \in Closings  BY <3>1 DEF S!CountError, S!CountTotals, Op, Closings
      <3>4. job[t] \in S!Jobs /\ job[t].op \in {"errors", "count", "push"}
        BY <1>0, <3>3 DEF Op, Closings
      <3>5. [job[t] EXCEPT !.op = l].rec = job[t].rec  BY <3>4 DEF S!Jobs
      <3>6. job'[t].rec = job[t].rec  BY <1>0, <3>2, <3>5
      <3> QED BY <3>3, <3>6 DEF RecordsNamed
    <2>2. CASE S!SendFails(t) \/ S!Completed(t) \/ S!Errored(t)
      <3>1. PICK o \in {"completed", "error"}, x \in S!Tokens \cup {None} : S!CloseRow(t, o, x)
        BY <2>2, UsageTokens DEF S!Completed, S!Errored, S!SendFails
      <3>2. PICK rec \in S!Records :
              /\ rec.id = r
              /\ job' = [job EXCEPT ![t] = [op |-> IF o = "error" THEN "errors" ELSE "count", rec |-> rec]]
        BY <3>1, TypesClose
      <3>3. job'[t].rec = rec  BY <1>0, <3>2
      <3> QED BY <3>2, <3>3
    <2>3. CASE \/ S!Started(t) \/ S!RouteDecided(t) \/ S!Post(t) \/ S!Respond(t) \/ S!Deliver(t)
               \/ S!Abandon(t) \/ S!ObserverEnds(t)
      <3>1. job' = job
        BY <2>3 DEF S!Started, S!RouteDecided, S!Post, S!Respond, S!Deliver, S!Abandon, S!ObserverEnds
      <3>2. Op(t)' = Op(t)  BY <3>1 DEF Op
      <3> QED BY <1>2, <3>1, <3>2 DEF RecordsNamed
    <2>4. CASE S!EstimateUsage(t) \/ S!Chunk(t) \/ S!StreamEnds(t) \/ S!Observe(t)
      <3>1. job' = job \/ \E x : job' = [job EXCEPT ![t] = [op |-> "usage", tokens |-> x]]
        BY <2>4 DEF S!EstimateUsage, S!Chunk, S!StreamEnds, S!Observe, S!Begin
      <3>2. CASE job' = job
        <4>1. Op(t)' = Op(t)  BY <3>2 DEF Op
        <4> QED BY <1>2, <3>2, <4>1 DEF RecordsNamed
      <3>3. CASE job' # job
        <4>1. PICK x : job' = [job EXCEPT ![t] = [op |-> "usage", tokens |-> x]]  BY <3>1, <3>3
        <4>2. job'[t].op = "usage"  BY <1>0, <4>1
        <4>3. Op(t)' \in {"none", "usage"}  BY <4>2 DEF Op
        <4> QED BY <1>2, <4>3 DEF Closings
      <3> QED BY <3>2, <3>3
    <2> QED BY <2>1, <2>2, <2>3, <2>4 DEF S!Serve
  <1> QED BY <1>1, <1>2 DEF RecordsNamed

LEMMA RequestsInit == ASSUME BookConstants, S!Init PROVE RequestsInv
  <1>1. \A t \in S!Tasks : Op(t) = "none"  BY DEF S!Init, Op
  <1>2. RecordsNamed  BY <1>1 DEF RecordsNamed, Closings
  <1>3. ASSUME NEW r \in Requests PROVE RequestInv(r, <<"main", r>>, <<"helper", r>>)
    <2>1. PICK m, h : m = <<"main", r>> /\ h = <<"helper", r>>  OBVIOUS
    <2>2. TasksOf(r, m, h)  BY <2>1, RequestTasks
    <2>3. Op(m) = "none" /\ Op(h) = "none"  BY <1>1, <2>2 DEF TasksOf
    <2>4. task[h] = "wait" /\ task[m] \in {"start", "route"}
      BY <2>2 DEF TasksOf, S!Init
    <2>5. Mine(r) = {}
      <3>1. S!Finished = <<>>  BY DEF S!Init, S!Finished
      <3> QED BY <3>1 DEF Mine
    <2>6. Open(r) = "no" /\ Gone(r) = "no"  BY DEF Open, Gone, S!Init
    <2>7. Pairs(kind[r], task[m], task[h], "none", "none", "no", "no")
      BY <2>4 DEF Pairs, Closings, Settled
    <2>8. Rows(kind[r], task[m], task[h], "none", "none", "no")
      BY <2>4 DEF Rows
    <2>9. Ends(kind[r], task[m], task[h], "none", "none", "no", "no", {})
      BY <2>4 DEF Ends, Closings
    <2> QED BY <2>1, <2>3, <2>5, <2>6, <2>7, <2>8, <2>9 DEF RequestInv
  <1> QED BY <1>2, <1>3 DEF RequestsInv

LEMMA RequestsStep ==
  ASSUME BookConstants, BookTypes, RequestsInv, S!Next
  PROVE  RequestsInv'
  <1>1. PICK t \in S!Tasks : S!Apply(t) \/ S!Serve(t) \/ S!Observe(t) \/ S!ObserverEnds(t)
    BY DEF S!Next
  <1>2. RecordsNamed'  BY <1>1, NamedStep DEF RequestsInv
  <1>3. ASSUME NEW r \in Requests PROVE RequestInv(r, <<"main", r>>, <<"helper", r>>)'
    <2>1. PICK m, h : m = <<"main", r>> /\ h = <<"helper", r>>  OBVIOUS
    <2>2. TasksOf(r, m, h)  BY <2>1, RequestTasks
    <2>3. RequestInv(r, m, h) /\ RecordsNamed  BY <2>1 DEF RequestsInv
    <2>4. CASE S!Req(t) = r
      <3>1. t \in {m, h}  BY <2>1, <2>4, RequestTasks
      <3>2. RequestInv(r, m, h)'  BY <1>1, <2>2, <2>3, <3>1, RequestMoves
      <3> QED BY <2>1, <3>2
    <2>5. CASE S!Req(t) # r
      <3>1. m \in S!Tasks /\ h \in S!Tasks /\ S!Req(m) = r /\ S!Req(h) = r /\ m # t /\ h # t
              /\ S!Req(t) \in Requests
        BY <2>2, <2>5, RequestTasks DEF TasksOf
      <3>2. Mine(r)' = Mine(r)
        BY <1>1, <2>3, <2>5, MineApply, MineServe
      <3>3. kind' = kind /\ task'[m] = task[m] /\ task'[h] = task[h] /\ job'[m] = job[m]
              /\ job'[h] = job[h] /\ active'[r] = active[r]
        BY <1>1, <2>5, <3>1, FlatApply, OtherRequests
      <3>4. (r \in abandoned') = (r \in abandoned)
        <4>1. CASE S!Apply(t)
          <5>1. abandoned' = abandoned
            BY <4>1 DEF S!Apply, S!ApplyUsage, S!MergeRecent, S!Adjust, S!CountError, S!CountTotals, S!Push
          <5> QED BY <5>1
        <4>2. CASE ~S!Apply(t)
          BY <1>1, <2>5, <3>1, <4>2, OtherRequests
        <4> QED BY <4>1, <4>2
      <3>5. RequestInv(r, m, h)'  BY <2>3, <3>2, <3>3, <3>4, RequestUnmoved
      <3> QED BY <2>1, <3>5
    <2> QED BY <2>4, <2>5
  <1> QED BY <1>2, <1>3 DEF RequestsInv

LEMMA RequestsCounted ==
  ASSUME BookConstants, BookTypes, RequestsInv
  PROVE  S!CountedOnce /\ S!RowsClosed
  <1>1. ASSUME NEW r \in Requests
        PROVE  /\ kind[r] # "codex" => S!CountsOnce(r)
               /\ S!Quiet(r) /\ r \notin abandoned /\ kind[r] # "unary" => active[r] = None /\ S!Counted(r)
    <2>1. PICK m, h : m = <<"main", r>> /\ h = <<"helper", r>>  OBVIOUS
    <2>2. PICK k, x, y, o, p, a, g, F :
            /\ k = kind[r] /\ x = task[m] /\ y = task[h] /\ o = Op(m) /\ p = Op(h)
            /\ a = Open(r) /\ g = Gone(r) /\ F = Mine(r)
      OBVIOUS
    <2>3. Pairs(k, x, y, o, p, a, g) /\ Rows(k, x, y, o, p, a) /\ Ends(k, x, y, o, p, a, g, F)
      BY <2>1, <2>2 DEF RequestInv, RequestsInv
    <2>4. (F # {}) = S!Counted(r) /\ (a = "no") = (active[r] = None) /\ (g = "no") = (r \notin abandoned)
      BY <2>2 DEF S!Counted, Mine, Open, Gone
    <2>5. k \in S!AllKinds  BY <2>2 DEF BookTypes, BookConstants
    <2>6. kind[r] # "codex" => S!CountsOnce(r)
      <3>1. k # "codex" => (\A i, j \in F : i = j) /\ (F # {} => a = "no")
        BY <2>3 DEF Ends
      <3>2. \A i \in DOMAIN S!Finished : S!Finished[i].id = r => i \in F
        BY <2>2 DEF Mine
      <3> QED BY <2>2, <2>4, <3>1, <3>2 DEF S!CountsOnce
    <2>7. S!Quiet(r) /\ r \notin abandoned /\ kind[r] # "unary" => active[r] = None /\ S!Counted(r)
      <3> SUFFICES ASSUME S!Quiet(r), g = "no", k # "unary" PROVE a = "no" /\ F # {}
        BY <2>2, <2>4
      <3>1. x \in {"wait", "done"} /\ y \in {"wait", "done"} /\ o = "none" /\ p = "none"
        BY <2>1, <2>2 DEF S!Quiet, Op
      <3> QED BY <2>3, <2>5, <3>1 DEF Pairs, Ends, Closings, S!AllKinds, Settled
    <2> QED BY <2>6, <2>7
  <1> QED BY <1>1 DEF S!CountedOnce, S!RowsClosed

(* The observer of a compressed answer: c chunks have come, those of q are *)
(* still to be decoded, and u says whether one was dropped.  Unless one    *)
(* was, the last count the observer reports is that of the last chunk.     *)
Cut(r) == IF r \in cut THEN "yes" ELSE "no"
Reporting == {"usage", "late"}
Follows(x, y, p, c, q, u, v) ==
  /\ y = "wait" => q = <<>>
  /\ y = "done" => u = "yes" \/ (q = <<>> /\ x = "done")
  /\ u = "no" /\ q # <<>> => q[Len(q)] = c
  /\ u = "no" /\ q = <<>> /\ p \in Reporting => c \in 1 .. Len(Usage) /\ v = Usage[c]
Followed(r, m, h) ==
  kind[r] = "encoded" =>
    Follows(task[m], task[h], Op(h), chunk[m], queue[r], Cut(r), job[h].tokens)

(* The queue as the main task and the observer change it.                  *)
LEMMA FollowsChunk ==
  ASSUME BookConstants, NEW x, NEW y, NEW p, NEW c \in 0 .. Len(Usage), NEW q, q \in Seq(1 .. Len(Usage)),
         NEW u \in YesNo, NEW v, NEW q1, NEW u1 \in YesNo, x = "stream", y # "wait",
         Follows(x, y, p, c, q, u, v), c + 1 \in 1 .. Len(Usage),
         (q1 = Append(q, c + 1) /\ u1 = u) \/ (q1 = q /\ u1 = "yes")
  PROVE  Follows(x, y, p, c + 1, q1, u1, v)
  <1>1. CASE q1 = Append(q, c + 1) /\ u1 = u
    <2>1. q1 # <<>> /\ q1[Len(q1)] = c + 1  BY <1>1
    <2> QED BY <1>1, <2>1 DEF Follows, Reporting
  <1>2. CASE q1 = q /\ u1 = "yes"
    BY <1>2 DEF Follows, Reporting
  <1> QED BY <1>1, <1>2

LEMMA FollowsNext ==
  ASSUME BookConstants, NEW x, NEW y, NEW p, NEW c \in 0 .. Len(Usage), NEW q, q \in Seq(1 .. Len(Usage)),
         NEW u \in YesNo, NEW v, q # <<>>, y = "observe", Follows(x, y, p, c, q, u, v)
  PROVE  Follows(x, y, "usage", c, Tail(q), u, Usage[Head(q)])
  <1>1. CASE Tail(q) = <<>>
    <2>0. PICK n, w : n = Len(q) /\ w = Tail(q)  OBVIOUS
    <2>a. n \in Nat  BY <2>0
    <2>b. Len(w) = n - 1  BY <2>0
    <2>c. w = <<>>  BY <1>1, <2>0
    <2>e. Len(w) = 0  BY <2>c
    <2>f. n = 1  BY <2>a, <2>b, <2>e
    <2>d. Len(q) = 1  BY <2>0, <2>f
    <2>1. Len(q) = 1 /\ Head(q) = q[1] /\ q[1] \in 1 .. Len(Usage)  BY <2>d
    <2> QED BY <1>1, <2>1 DEF Follows, Reporting
  <1>2. CASE Tail(q) # <<>>
    <2>1. PICK w : w = Tail(q)  OBVIOUS
    <2>2. w[Len(w)] = q[Len(q)]
      <3>1. Len(q) \in Nat /\ Len(w) = Len(q) - 1 /\ \A i \in 1 .. Len(q) - 1 : w[i] = q[i + 1]
        BY <2>1
      <3>2. Len(w) \in 1 .. Len(q) - 1
        <4>1. w \in Seq(1 .. Len(Usage)) /\ w # <<>>  BY <1>2, <2>1
        <4>2. Len(w) \in Nat /\ Len(w) # 0  BY <4>1
        <4> QED BY <3>1, <4>2
      <3> QED BY <3>1, <3>2
    <2> QED BY <1>2, <2>1, <2>2 DEF Follows
  <1> QED BY <1>1, <1>2

LEMMA FollowedMoves ==
  ASSUME BookConstants, BookTypes, RecordsNamed, NEW r \in Requests, NEW m, NEW h, TasksOf(r, m, h),
         RequestInv(r, m, h), Followed(r, m, h), NEW t \in {m, h},
         S!Apply(t) \/ S!Serve(t) \/ S!Observe(t) \/ S!ObserverEnds(t)
  PROVE  Followed(r, m, h)'
  <1>0. /\ m \in S!Tasks /\ h \in S!Tasks /\ S!Req(m) = r /\ S!Req(h) = r /\ m # h
        /\ <<"main", r>> = m /\ h[1] = "helper"
    BY DEF TasksOf
  <1>1. kind' = kind  BY <1>0, FlatApply, OtherRequests
  <1>2. SUFFICES ASSUME kind[r] = "encoded"
        PROVE  Follows(task'[m], task'[h], Op(h)', chunk'[m], queue'[r], Cut(r)', job'[h].tokens)
    BY <1>1 DEF Followed
  <1>3. PICK x, y, o, p, c, q, u, v :
          /\ x = task[m] /\ y = task[h] /\ o = Op(m) /\ p = Op(h) /\ c = chunk[m]
          /\ q = queue[r] /\ u = Cut(r) /\ v = job[h].tokens
    OBVIOUS
  <1>4. Follows(x, y, p, c, q, u, v)  BY <1>2, <1>3 DEF Followed
  <1>5. PICK x1, y1, p1, c1, q1, u1, v1 :
          /\ x1 = task'[m] /\ y1 = task'[h] /\ p1 = Op(h)' /\ c1 = chunk'[m]
          /\ q1 = queue'[r] /\ u1 = Cut(r)' /\ v1 = job'[h].tokens
    OBVIOUS
  <1>6. /\ u \in YesNo /\ u1 \in YesNo /\ c \in 0 .. Len(Usage) /\ q \in Seq(1 .. Len(Usage))
    BY <1>0, <1>3, <1>5, UsageTokens DEF Cut, YesNo, BookTypes
  <1>7. PICK a, g : a = Open(r) /\ g = Gone(r) /\ Pairs("encoded", x, y, o, p, a, g)
    BY <1>2, <1>3 DEF RequestInv
  <1>c. cut' = cut => u1 = u  BY <1>3, <1>5 DEF Cut
  <1>8. CASE t = m
    <2>1. v1 = v /\ p1 = p
      <3>1. job'[h] = job[h]  BY <1>0, <1>8, FlatApply, OtherRequests
      <3> QED BY <1>3, <1>5, <3>1 DEF Op
    <2>2. CASE S!Apply(m)
      <3>1. x1 = x /\ y1 = y /\ c1 = c /\ q1 = q /\ u1 = u
        BY <1>0, <1>3, <1>5, <1>c, <2>2, FlatApply
      <3> QED BY <1>4, <1>5, <2>1, <3>1
    <2>3. CASE S!Chunk(m)
      <3>1. /\ x = "stream" /\ x1 = x /\ y1 = y /\ c1 = c + 1 /\ c + 1 \in 1 .. Len(Usage)
        <4>1. /\ task[m] = "stream" /\ task' = task /\ chunk' = [chunk EXCEPT ![m] = chunk[m] + 1]
              /\ chunk[m] + 1 <= Len(Usage)
          BY <2>3 DEF S!Chunk
        <4>2. chunk \in [S!Tasks -> 0 .. Len(Usage)]  BY DEF BookTypes
        <4> QED BY <1>0, <1>3, <1>5, <1>6, <4>1, <4>2, UsageTokens
      <3>2. CASE y = "observe"
        <4>1. \/ queue' = [queue EXCEPT ![r] = Append(@, chunk[m] + 1)] /\ cut' = cut
              \/ queue' = queue /\ cut' = cut \cup {r}
          BY <1>0, <1>2, <1>3, <2>3, <3>2, TaskParts DEF S!Chunk, S!Compressed, TasksOf
        <4>2. queue \in [Requests -> Seq(DOMAIN Usage)]  BY DEF BookTypes
        <4>5. (q1 = Append(q, c + 1) /\ u1 = u) \/ (q1 = q /\ u1 = "yes")
          <5>1. CASE queue' = [queue EXCEPT ![r] = Append(@, chunk[m] + 1)] /\ cut' = cut
            <6>1. queue'[r] = Append(queue[r], chunk[m] + 1)  BY <4>2, <5>1
            <6>2. q1 = Append(q, c + 1)  BY <1>3, <1>5, <6>1
            <6>3. u1 = u  BY <1>c, <5>1
            <6> QED BY <6>2, <6>3, Zenon
          <5>2. CASE queue' = queue /\ cut' = cut \cup {r}
            BY <1>3, <1>5, <5>2 DEF Cut
          <5> QED BY <4>1, <5>1, <5>2
        <4>6. Follows(x, y, p, c + 1, q1, u1, v)
          BY <1>4, <1>6, <3>1, <3>2, <4>5, FollowsChunk
        <4> QED BY <1>5, <2>1, <3>1, <4>6
      <3>3. CASE y # "observe"
        <4>1. queue' = queue /\ cut' = cut
          BY <1>0, <1>3, <2>3, <3>3 DEF S!Chunk, S!queueVars, TasksOf
        <4>2. q1 = q /\ u1 = u  BY <1>3, <1>5, <1>c, <4>1
        <4>3. Follows(x, y, p, c + 1, q, u, v)
          BY <1>4, <1>7, <3>1, <3>3 DEF Follows, Pairs, Reporting
        <4> QED BY <1>5, <2>1, <3>1, <4>2, <4>3
      <3> QED BY <3>2, <3>3
    <2>4. CASE ~S!Apply(m) /\ ~S!Chunk(m)
      <3>0. S!Serve(m) \/ S!Observe(m) \/ S!ObserverEnds(m)  BY <1>8, <2>4
      <3>1. MainMoves(kind[r], task[m], task[h], Op(m), Open(r), Gone(r),
                      <<task'[m], task'[h], Op(m)', Open(r)', Gone(r)'>>)
        BY <3>0, FlatMain DEF RequestInv
      <3>2. PICK o1, a1, g1 : MainMoves("encoded", x, y, o, a, g, <<x1, y1, o1, a1, g1>>)
        BY <1>2, <1>3, <1>5, <1>7, <3>1
      <3>3. x # "observe"  BY <1>7 DEF Pairs
      <3>4. /\ queue' = queue /\ cut' = cut /\ chunk' = chunk
        BY <1>3, <2>4, <3>0, <3>3 DEF S!Serve, S!Started, S!RouteDecided, S!EstimateUsage, S!Post,
           S!Respond, S!SendFails, S!Deliver, S!Abandon, S!StreamEnds, S!Completed,
           S!Errored, S!Observe, S!ObserverEnds, S!queueVars
      <3>5. q1 = q /\ u1 = u /\ c1 = c  BY <1>3, <1>5, <1>c, <3>4
      <3>6. y1 = y \/ (y = "wait" /\ y1 = "observe")
        BY <1>7, <3>2 DEF MainMoves, Pairs
      <3>7. x = "done" => x1 = "done"
        <4>1. job[m] = None \/ task[m] = "forward"
          BY <3>0 DEF S!Serve, S!Observe, S!ObserverEnds, S!Started, S!RouteDecided, S!EstimateUsage,
                  S!Post, S!Respond, S!SendFails, S!Deliver, S!Abandon, S!Chunk, S!StreamEnds,
                  S!Completed, S!Errored, S!Idle
        <4>2. x = "done" => o = "none"  BY <1>3, <4>1 DEF Op
        <4> QED BY <3>2, <4>2 DEF MainMoves, Applies
      <3>8. p \notin Reporting \/ y1 = y
        BY <1>7, <3>6 DEF Pairs, Reporting
      <3>9. Follows(x1, y1, p, c, q, u, v)
        BY <1>4, <3>6, <3>7, <3>8 DEF Follows, Reporting
      <3> QED BY <1>5, <2>1, <3>5, <3>9
    <2> QED BY <2>2, <2>3, <2>4
  <1>9. CASE t = h
    <2>1. c1 = c
      <3>1. chunk'[m] = chunk[m]  BY <1>0, <1>9, FlatApply, OtherRequests
      <3> QED BY <1>3, <1>5, <3>1
    <2>2. CASE S!Apply(h)
      <3>1. x1 = x /\ y1 = y /\ q1 = q /\ u1 = u
        BY <1>0, <1>3, <1>5, <1>c, <2>2, FlatApply
      <3>2. PICK a1, a2 : Applies(p, a1, p1, a2)
        BY <1>0, <1>3, <1>5, <2>2, FlatApply
      <3>3. p1 \in Reporting => p \in Reporting /\ v1 = v
        <4> SUFFICES ASSUME p1 \in Reporting PROVE p \in Reporting /\ v1 = v
          OBVIOUS
        <4>1. p = "usage" /\ p1 = "late"  BY <3>2 DEF Applies, Reporting
        <4>0. job[h] # None /\ job[h].op = "usage"  BY <1>3, <4>1 DEF Op
        <4>2. S!ApplyUsage(h)
          BY <2>2, <4>0
             DEF S!Apply, S!MergeRecent, S!Adjust, S!CountError, S!CountTotals, S!Push
        <4>3. active[r] = None
          <5>1. job \in [S!Tasks -> S!Jobs \cup {None}]  BY DEF BookTypes
          <5>2. active[r] # None => job'[h] = None
            BY <1>0, <4>2, <5>1 DEF S!ApplyUsage, S!End
          <5> QED BY <1>5, <4>1, <5>2 DEF Op
        <4>4. job' = [job EXCEPT ![h] = [op |-> "late", tokens |-> job[h].tokens]]
          BY <1>0, <4>2, <4>3 DEF S!ApplyUsage, S!Begin
        <4>5. v1 = v
          <5>1. job \in [S!Tasks -> S!Jobs \cup {None}]  BY DEF BookTypes
          <5> QED BY <1>0, <1>3, <1>5, <4>4, <5>1
        <4> QED BY <4>1, <4>5 DEF Reporting
      <3>4. Follows(x, y, p1, c, q, u, v1)  BY <1>4, <3>3 DEF Follows
      <3> QED BY <1>5, <2>1, <3>1, <3>4
    <2>3. CASE S!Observe(h)
      <3>1. /\ y = "observe" /\ q # <<>> /\ x1 = x /\ y1 = y /\ u1 = u
            /\ queue' = [queue EXCEPT ![r] = Tail(queue[r])]
            /\ job' = [job EXCEPT ![h] = [op |-> "usage", tokens |-> Usage[Head(queue[r])]]]
        BY <1>0, <1>3, <1>5, <1>c, <2>3 DEF S!Observe, S!Begin
      <3>2. q1 = Tail(q)  BY <1>3, <1>5, <3>1 DEF BookTypes
      <3>3. v1 = Usage[Head(q)] /\ p1 = "usage"
        <4>1. job'[h] = [op |-> "usage", tokens |-> Usage[Head(queue[r])]]
          BY <1>0, <3>1 DEF BookTypes
        <4>2. Head(q) \in 1 .. Len(Usage)  BY <1>6, <3>1
        <4>3. [op |-> "usage", tokens |-> Usage[Head(q)]] \in S!Jobs
          BY <4>2, JobMade, UsageTokens
        <4>4. job'[h] # None  BY <1>3, <4>1, <4>3 DEF BookConstants
        <4> QED BY <1>3, <1>5, <4>1, <4>4 DEF Op
      <3>4. Follows(x, y, "usage", c, Tail(q), u, Usage[Head(q)])
        BY <1>4, <1>6, <3>1, FollowsNext
      <3> QED BY <1>5, <2>1, <3>1, <3>2, <3>3, <3>4
    <2>4. CASE S!ObserverEnds(h)
      <3>1. /\ y = "observe" /\ y1 = "done" /\ x1 = x /\ u1 = u /\ q1 = q /\ q = <<>>
            /\ job[h] = None /\ job' = job /\ (u = "yes" \/ x = "done")
        <4>1. /\ task[h] = "observe" /\ queue[r] = <<>> /\ queue' = queue /\ cut' = cut
              /\ task' = [task EXCEPT ![h] = "done"] /\ job[h] = None /\ job' = job
              /\ r \in cut \/ task[m] = "done"
          BY <1>0, <1>2, <2>4 DEF S!ObserverEnds, S!Goto, S!Idle, S!queueVars
        <4>2. task'[h] = "done" /\ task'[m] = task[m]
          BY <1>0, <4>1 DEF BookTypes
        <4> QED BY <1>3, <1>5, <1>c, <4>1, <4>2 DEF Cut
      <3>2. p1 = "none"  BY <1>5, <3>1 DEF Op
      <3>3. Follows(x, "done", "none", c, q, u, v1)  BY <1>4, <3>1 DEF Follows, Reporting
      <3> QED BY <1>5, <2>1, <3>1, <3>2, <3>3
    <2>5. CASE S!Serve(h)
      <3>1. y \in {"wait", "observe", "done"}  BY <1>7 DEF Pairs
      <3> QED BY <1>3, <2>5, <3>1 DEF S!Serve, S!Started, S!RouteDecided, S!EstimateUsage, S!Post,
           S!Respond, S!Answered, S!SendFails, S!Deliver, S!Abandon, S!Chunk, S!StreamEnds, S!Completed,
           S!Errored
    <2> QED BY <1>9, <2>2, <2>3, <2>4, <2>5
  <1> QED BY <1>8, <1>9

(* The record of a completed answer has the final count, or the observer   *)
(* is still going to report it.                                            *)
Kept(r, m, h) ==
  kind[r] \notin {"codex", "opaque"} =>
    /\ \A t \in {m, h} : Op(t) \in Closings /\ job[t].rec.outcome = "completed" =>
         job[t].rec.tokens = S!Final /\ (kind[r] = "encoded" => chunk[m] = Len(Usage))
    /\ \A i \in DOMAIN recent : recent[i].id = r /\ recent[i].outcome = "completed" =>
         /\ kind[r] = "encoded" => chunk[m] = Len(Usage)
         /\ \/ recent[i].tokens = S!Final \/ Cut(r) = "yes"
            \/ kind[r] = "encoded" /\ (queue[r] # <<>> \/ Op(h) \in Reporting)

LEMMA ClosingKeeps ==
  ASSUME BookConstants, BookTypes, NEW t \in S!Tasks, S!Apply(t), Op(t)' \in Closings
  PROVE  Op(t) \in Closings /\ job'[t].rec = job[t].rec
  <1> DEFINE r == S!Req(t)
  <1>0. r \in Requests /\ job \in [S!Tasks -> S!Jobs \cup {None}] /\ None \notin S!Jobs
    BY TaskParts DEF BookTypes, BookConstants
  <1>1. S!CountError(t) \/ S!CountTotals(t)
    <2>1. Applies(Op(t), Open(r), Op(t)', Open(r)')  BY <1>0, FlatApply
    <2>2. Op(t) \in {"errors", "count"}  BY <2>1 DEF Applies, Closings
    <2> QED BY <2>2
          DEF Op, S!Apply, S!ApplyUsage, S!MergeRecent, S!Adjust, S!CountError, S!CountTotals, S!Push
  <1>2. PICK l \in {"count", "push"} : job' = [job EXCEPT ![t] = [job[t] EXCEPT !.op = l]]
    BY <1>1 DEF S!CountError, S!CountTotals, S!Begin
  <1>3. Op(t) \in Closings  BY <1>1 DEF S!CountError, S!CountTotals, Op, Closings
  <1>4. job[t] \in S!Jobs /\ job[t].op \in {"errors", "count", "push"}
    BY <1>0, <1>3 DEF Op, Closings
  <1>5. [job[t] EXCEPT !.op = l].rec = job[t].rec  BY <1>4 DEF S!Jobs
  <1>6. job'[t].rec = job[t].rec  BY <1>0, <1>2, <1>5
  <1> QED BY <1>3, <1>6

LEMMA RecentOthers ==
  ASSUME BookConstants, BookTypes, RecordsNamed, NEW t \in S!Tasks,
         S!Apply(t) \/ S!Serve(t) \/ S!Observe(t) \/ S!ObserverEnds(t),
         NEW i \in DOMAIN recent', recent'[i].id # S!Req(t)
  PROVE  \E j \in DOMAIN recent : recent'[i] = recent[j]
  <1>0. S!Req(t) \in Requests  BY TaskParts
  <1>1. CASE S!Push(t)
    <2>1. Op(t) = "push"  BY <1>1 DEF S!Push, Op
    <2>2. job[t].rec.id = S!Req(t)  BY <2>1 DEF RecordsNamed, Closings
    <2> QED BY <1>1, <2>2, FinishedPush
  <1>2. CASE S!MergeRecent(t)
    <2>1. CASE recent' = recent  BY <2>1
    <2>2. CASE recent' # recent
      <3>1. PICK l \in 1 .. Len(recent) :
              /\ recent[l].id = S!Req(t)
              /\ recent' = [recent EXCEPT ![l] = [recent[l] EXCEPT !.tokens = job[t].tokens]]
        BY <1>2, <2>2, FinishedMerge
      <3>2. recent[l] \in S!Records /\ DOMAIN recent = 1 .. Len(recent)  BY FinishedTypes
      <3>3. [recent[l] EXCEPT !.tokens = job[t].tokens].id = recent[l].id  BY <3>2 DEF S!Records
      <3>4. DOMAIN recent' = DOMAIN recent  BY <3>1, <3>2 DEF BookTypes
      <3>5. i # l  BY <3>1, <3>2, <3>3, <3>4
      <3>6. recent'[i] = recent[i]  BY <3>1, <3>4, <3>5
      <3> QED BY <3>4, <3>6
    <2> QED BY <2>1, <2>2
  <1>3. CASE ~S!Push(t) /\ ~S!MergeRecent(t)
    <2>1. recent' = recent
      <3>1. CASE S!Apply(t)
        BY <1>3, <3>1 DEF S!Apply, S!ApplyUsage, S!Adjust, S!CountError, S!CountTotals
      <3>2. CASE ~S!Apply(t)
        BY <1>0, <3>2, OtherRequests
      <3> QED BY <3>1, <3>2
    <2> QED BY <2>1
  <1> QED BY <1>1, <1>2, <1>3

LEMMA KeptUnmoved ==
  ASSUME BookConstants, BookTypes, RecordsNamed, NEW r \in Requests, NEW m, NEW h, TasksOf(r, m, h),
         Kept(r, m, h), Followed(r, m, h), NEW t \in S!Tasks, S!Req(t) # r,
         S!Apply(t) \/ S!Serve(t) \/ S!Observe(t) \/ S!ObserverEnds(t)
  PROVE  Kept(r, m, h)' /\ Followed(r, m, h)'
  <1>0. m \in S!Tasks /\ h \in S!Tasks /\ S!Req(m) = r /\ S!Req(h) = r /\ m # t /\ h # t
          /\ S!Req(t) \in Requests
    BY TaskParts DEF TasksOf
  <1>1. kind' = kind /\ job'[m] = job[m] /\ job'[h] = job[h] /\ chunk'[m] = chunk[m]
          /\ queue'[r] = queue[r] /\ task'[m] = task[m] /\ task'[h] = task[h]
          /\ (r \in cut') = (r \in cut)
    <2>1. CASE S!Apply(t)
      BY <1>0, <2>1, FlatApply
    <2>2. CASE ~S!Apply(t)
      BY <1>0, <2>2, OtherRequests
    <2> QED BY <2>1, <2>2
  <1>2. Op(m)' = Op(m) /\ Op(h)' = Op(h) /\ Cut(r)' = Cut(r)
    BY <1>1 DEF Op, Cut
  <1>3. \A i \in DOMAIN recent' : recent'[i].id = r => \E j \in DOMAIN recent : recent'[i] = recent[j]
    BY <1>0, RecentOthers
  <1>4. Followed(r, m, h)'
    BY <1>1, <1>2 DEF Followed
  <1>5. Kept(r, m, h)'
    <2> SUFFICES ASSUME kind[r] \notin {"codex", "opaque"}
          PROVE  /\ \A u \in {m, h} : Op(u)' \in Closings /\ job'[u].rec.outcome = "completed" =>
                      job'[u].rec.tokens = S!Final /\ (kind[r] = "encoded" => chunk'[m] = Len(Usage))
                 /\ \A i \in DOMAIN recent' : recent'[i].id = r /\ recent'[i].outcome = "completed" =>
                      /\ kind[r] = "encoded" => chunk'[m] = Len(Usage)
                      /\ \/ recent'[i].tokens = S!Final \/ Cut(r)' = "yes"
                         \/ kind[r] = "encoded" /\ (queue'[r] # <<>> \/ Op(h)' \in Reporting)
      BY <1>1 DEF Kept, S!Final
    <2>1. \A u \in {m, h} : Op(u)' \in Closings /\ job'[u].rec.outcome = "completed" =>
            job'[u].rec.tokens = S!Final /\ (kind[r] = "encoded" => chunk'[m] = Len(Usage))
      BY <1>1, <1>2 DEF Kept
    <2>2. ASSUME NEW i \in DOMAIN recent', recent'[i].id = r, recent'[i].outcome = "completed"
          PROVE  /\ kind[r] = "encoded" => chunk'[m] = Len(Usage)
                 /\ \/ recent'[i].tokens = S!Final \/ Cut(r)' = "yes"
                    \/ kind[r] = "encoded" /\ (queue'[r] # <<>> \/ Op(h)' \in Reporting)
      <3>1. PICK j \in DOMAIN recent : recent'[i] = recent[j]  BY <1>3, <2>2
      <3> QED BY <1>1, <1>2, <2>2, <3>1 DEF Kept
    <2> QED BY <2>1, <2>2
  <1> QED BY <1>4, <1>5

(* A counted request: only its observer has anything left to do.           *)
LEMMA OnlyObserver ==
  ASSUME BookConstants, BookTypes, NEW r \in Requests, NEW m, NEW h, TasksOf(r, m, h),
         RequestInv(r, m, h), kind[r] \notin {"codex", "opaque"}, Mine(r) # {}, NEW t \in {m, h},
         S!Apply(t) \/ S!Serve(t) \/ S!Observe(t) \/ S!ObserverEnds(t)
  PROVE  /\ t = h /\ kind[r] = "encoded" /\ active[r] = None /\ task[h] \in {"observe", "done"}
         /\ ~S!Serve(h) /\ Op(h) \notin Closings
  <1>0. m \in S!Tasks /\ h \in S!Tasks /\ S!Req(m) = r /\ S!Req(h) = r /\ m # h  BY DEF TasksOf
  <1>1. PICK k, x, y, o, p, a, g, F :
          /\ k = kind[r] /\ x = task[m] /\ y = task[h] /\ o = Op(m) /\ p = Op(h)
          /\ a = Open(r) /\ g = Gone(r) /\ F = Mine(r)
    OBVIOUS
  <1>2. Pairs(k, x, y, o, p, a, g) /\ Rows(k, x, y, o, p, a) /\ Ends(k, x, y, o, p, a, g, F)
    BY <1>1 DEF RequestInv
  <1>3. k \in S!AllKinds  BY <1>1 DEF BookTypes, BookConstants
  <1>4. /\ a = "no" /\ x = "done" /\ o = "none" /\ p \notin Closings
        /\ k # "encoded" => y \in {"wait", "done"} /\ p = "none"
        /\ k = "encoded" => y \in {"wait", "observe", "done"}
        /\ y = "wait" => p = "none"
    BY <1>1, <1>2, <1>3 DEF Pairs, Ends, Settled, Closings, S!AllKinds
  <1>5. ASSUME NEW u \in S!Tasks, task[u] \in {"wait", "done"}, Op(u) = "none" \/ S!Serve(u),
               S!Apply(u) \/ S!Serve(u) \/ S!Observe(u) \/ S!ObserverEnds(u)
        PROVE  FALSE
    <2>2. S!Apply(u) => Op(u) \in {"usage", "late", "adjust", "errors", "count", "push"}
      BY DEF Op, S!Apply, S!ApplyUsage, S!MergeRecent, S!Adjust, S!CountError, S!CountTotals, S!Push
    <2>3. ~(S!Serve(u) \/ S!Observe(u) \/ S!ObserverEnds(u))
      BY <1>5 DEF S!Serve, S!Started, S!RouteDecided, S!EstimateUsage, S!Post,
           S!Respond, S!Answered, S!SendFails, S!Deliver, S!Abandon, S!Chunk, S!StreamEnds, S!Completed,
           S!Errored, S!Observe, S!ObserverEnds
    <2> QED BY <1>5, <2>2, <2>3
  <1>6. t = h  BY <1>0, <1>1, <1>4, <1>5
  <1>7. k = "encoded" /\ y \in {"observe", "done"}
    BY <1>0, <1>1, <1>4, <1>5, <1>6
  <1>8. ~S!Serve(h)
    BY <1>1, <1>7 DEF S!Serve, S!Started, S!RouteDecided, S!EstimateUsage, S!Post,
           S!Respond, S!Answered, S!SendFails, S!Deliver, S!Abandon, S!Chunk, S!StreamEnds, S!Completed,
           S!Errored
  <1> QED BY <1>1, <1>4, <1>6, <1>7, <1>8 DEF Open

LEMMA KeptClosing ==
  ASSUME BookConstants, BookTypes, RecordsNamed, NEW r \in Requests, NEW m, NEW h, TasksOf(r, m, h),
         RequestInv(r, m, h), Kept(r, m, h), kind[r] \notin {"codex", "opaque"}, NEW t \in {m, h},
         S!Apply(t) \/ S!Serve(t) \/ S!Observe(t) \/ S!ObserverEnds(t),
         NEW u \in {m, h}, Op(u)' \in Closings, job'[u].rec.outcome = "completed"
  PROVE  job'[u].rec.tokens = S!Final /\ (kind[r] = "encoded" => chunk'[m] = Len(Usage))
  <1>0. m \in S!Tasks /\ h \in S!Tasks /\ S!Req(m) = r /\ S!Req(h) = r /\ m # h
          /\ job \in [S!Tasks -> S!Jobs \cup {None}] /\ None \notin S!Jobs
    BY DEF TasksOf, BookTypes, BookConstants
  <1>1. /\ kind[r] = "encoded" => task[h] \in {"wait", "observe", "done"}
        /\ kind[r] = "encoded" => Op(h) \notin Closings
    <2>1. Pairs(kind[r], task[m], task[h], Op(m), Op(h), Open(r), Gone(r))  BY DEF RequestInv
    <2> QED BY <2>1 DEF Pairs
  <1>2. ASSUME Op(u) \in Closings, job'[u].rec = job[u].rec, chunk'[m] = chunk[m] \/ kind[r] # "encoded"
        PROVE  job'[u].rec.tokens = S!Final /\ (kind[r] = "encoded" => chunk'[m] = Len(Usage))
    BY <1>2 DEF Kept
  <1>3. CASE u # t
    <2>1. job'[u] = job[u]  BY <1>0, <1>3, FlatApply, OtherRequests
    <2>2. Op(u)' = Op(u)  BY <2>1 DEF Op
    <2>3. chunk'[m] = chunk[m] \/ kind[r] # "encoded"
      <3>1. CASE t = m
        <4>1. u = h  BY <1>3, <3>1
        <4> QED BY <1>1, <2>2, <4>1
      <3>2. CASE t = h
        BY <1>0, <3>2, FlatApply, OtherRequests
      <3> QED BY <3>1, <3>2
    <2> QED BY <1>2, <2>1, <2>2, <2>3
  <1>4. CASE u = t
    <2>1. CASE S!Apply(t)
      <3>1. Op(t) \in Closings /\ job'[t].rec = job[t].rec  BY <1>0, <1>4, <2>1, ClosingKeeps
      <3>2. chunk' = chunk  BY <1>0, <2>1, FlatApply
      <3> QED BY <1>2, <1>4, <3>1, <3>2
    <2>2. CASE S!SendFails(t) \/ S!Errored(t)
      <3>1. S!CloseRow(t, "error", None)
        BY <2>2 DEF S!Errored, S!SendFails
      <3>2. PICK rec \in S!Records :
              /\ rec.outcome = "error" /\ job' = [job EXCEPT ![t] = [op |-> "errors", rec |-> rec]]
        BY <1>0, <3>1, TypesClose
      <3>3. job'[t].rec = rec  BY <1>0, <3>2
      <3> QED BY <1>4, <3>2, <3>3
    <2>3. CASE S!Completed(t)
      <3>1. S!CloseRow(t, "completed", S!Final) /\ chunk[t] = Len(Usage) /\ chunk' = chunk
              /\ task[t] = "close"
        BY <1>0, <2>3 DEF S!Completed
      <3>2. S!Final \in S!Tokens \cup {None} /\ S!Final # None  BY UsageTokens
      <3>3. PICK rec \in S!Records :
              rec.tokens = S!Final /\ job' = [job EXCEPT ![t] = [op |-> "count", rec |-> rec]]
        BY <1>0, <3>1, <3>2, TypesClose
      <3>4. job'[t].rec.tokens = S!Final  BY <1>0, <3>3
      <3>5. kind[r] = "encoded" => t = m  BY <1>1, <3>1
      <3> QED BY <1>4, <3>1, <3>4, <3>5
    <2>4. CASE \/ S!Started(t) \/ S!RouteDecided(t) \/ S!Post(t) \/ S!Respond(t) \/ S!Deliver(t)
               \/ S!Abandon(t) \/ S!ObserverEnds(t)
      <3>1. job' = job /\ chunk' = chunk
        BY <2>4 DEF S!Started, S!RouteDecided, S!Post, S!Respond, S!Deliver, S!Abandon, S!ObserverEnds
      <3>2. Op(t)' = Op(t)  BY <3>1 DEF Op
      <3> QED BY <1>2, <1>4, <3>1, <3>2
    <2>5. CASE S!EstimateUsage(t) \/ S!Chunk(t) \/ S!StreamEnds(t) \/ S!Observe(t)
      <3>1. job' = job \/ \E x : job' = [job EXCEPT ![t] = [op |-> "usage", tokens |-> x]]
        BY <2>5 DEF S!EstimateUsage, S!Chunk, S!StreamEnds, S!Observe, S!Begin
      <3>2. job[t] = None
        BY <2>5 DEF S!EstimateUsage, S!Chunk, S!StreamEnds, S!Observe, S!Idle
      <3>3. CASE job' = job
        <4>1. Op(t)' = "none"  BY <3>2, <3>3 DEF Op
        <4> QED BY <1>4, <4>1 DEF Closings
      <3>4. CASE job' # job
        <4>1. PICK x : job' = [job EXCEPT ![t] = [op |-> "usage", tokens |-> x]]  BY <3>1, <3>4
        <4>2. job'[t].op = "usage"  BY <1>0, <4>1
        <4>3. Op(t)' \in {"none", "usage"}  BY <4>2 DEF Op
        <4> QED BY <1>4, <4>3 DEF Closings
      <3> QED BY <3>3, <3>4
    <2> QED BY <2>1, <2>2, <2>3, <2>4, <2>5 DEF S!Serve
  <1> QED BY <1>3, <1>4

LEMMA KeptRecent ==
  ASSUME BookConstants, BookTypes, RecordsNamed, NEW r \in Requests, NEW m, NEW h, TasksOf(r, m, h),
         RequestInv(r, m, h), Followed(r, m, h), Kept(r, m, h), kind[r] \notin {"codex", "opaque"}, NEW t \in {m, h},
         S!Apply(t) \/ S!Serve(t) \/ S!Observe(t) \/ S!ObserverEnds(t),
         NEW i \in DOMAIN recent', recent'[i].id = r, recent'[i].outcome = "completed"
  PROVE  /\ kind[r] = "encoded" => chunk'[m] = Len(Usage)
         /\ \/ recent'[i].tokens = S!Final \/ Cut(r)' = "yes"
            \/ kind[r] = "encoded" /\ (queue'[r] # <<>> \/ Op(h)' \in Reporting)
  <1>0. m \in S!Tasks /\ h \in S!Tasks /\ S!Req(m) = r /\ S!Req(h) = r /\ m # h
          /\ job \in [S!Tasks -> S!Jobs \cup {None}] /\ None \notin S!Jobs
    BY DEF TasksOf, BookTypes, BookConstants
  <1>1. CASE S!Push(t) /\ recent'[i] = job[t].rec
    <2>1. Op(t) = "push" /\ chunk' = chunk  BY <1>1 DEF S!Push, Op
    <2>2. job[t].rec.outcome = "completed" /\ Op(t) \in Closings  BY <1>1, <2>1 DEF Closings
    <2>3. job[t].rec.tokens = S!Final /\ (kind[r] = "encoded" => chunk[m] = Len(Usage))
      BY <2>2 DEF Kept
    <2> QED BY <1>1, <2>1, <2>3
  <1>2. ASSUME NEW j \in DOMAIN recent, recent[j].id = r, recent[j].outcome = "completed",
               recent[j].tokens = recent'[i].tokens \/ S!MergeRecent(t)
        PROVE  /\ t = h /\ kind[r] = "encoded" /\ active[r] = None /\ chunk[m] = Len(Usage)
               /\ task[h] \in {"observe", "done"} /\ Op(h) \notin Closings
               /\ S!Apply(h) \/ S!Observe(h) \/ S!ObserverEnds(h)
               /\ chunk'[m] = chunk[m]
               /\ recent[j].tokens = S!Final \/ Cut(r) = "yes" \/ queue[r] # <<>> \/ Op(h) \in Reporting
               /\ \A l \in DOMAIN recent : recent[l].id = r => l = j
    <2>1. \A l \in DOMAIN recent : recent[l].id = r => Len(forgotten) + l \in Mine(r)
      BY FinishedTypes DEF Mine
    <2>2. Mine(r) # {}  BY <1>2, <2>1
    <2>3. /\ t = h /\ kind[r] = "encoded" /\ active[r] = None /\ task[h] \in {"observe", "done"}
          /\ ~S!Serve(h) /\ Op(h) \notin Closings
      BY <2>2, OnlyObserver
    <2>4. chunk'[m] = chunk[m]  BY <1>0, <2>3, FlatApply, OtherRequests
    <2>5. \A k, l \in Mine(r) : k = l
      <3>1. Ends(kind[r], task[m], task[h], Op(m), Op(h), Open(r), Gone(r), Mine(r))
        BY DEF RequestInv
      <3> QED BY <3>1 DEF Ends
    <2>6. \A l \in DOMAIN recent : recent[l].id = r => l = j
      <3>1. DOMAIN recent = 1 .. Len(recent) /\ Len(recent) \in Nat /\ Len(forgotten) \in Nat
        BY FinishedTypes
      <3> QED BY <1>2, <2>1, <2>5, <3>1
    <2> QED BY <1>2, <2>3, <2>4, <2>6 DEF Kept
  <1>3. CASE S!MergeRecent(t) /\ recent' # recent
    <2>0. t \in S!Tasks /\ S!Req(t) = r  BY <1>0
    <2>a. \E l \in 1 .. Len(recent) :
              /\ recent[l].id = S!Req(t)
              /\ recent' = [recent EXCEPT ![l] = [recent[l] EXCEPT !.tokens = job[t].tokens]]
      BY <2>0, <1>3, FinishedMerge
    <2>1. PICK l \in 1 .. Len(recent) :
              /\ recent[l].id = r
              /\ recent' = [recent EXCEPT ![l] = [recent[l] EXCEPT !.tokens = job[t].tokens]]
      BY <2>0, <2>a
    <2>2. recent[l] \in S!Records /\ DOMAIN recent = 1 .. Len(recent)  BY FinishedTypes
    <2>3. /\ [recent[l] EXCEPT !.tokens = job[t].tokens].id = recent[l].id
          /\ [recent[l] EXCEPT !.tokens = job[t].tokens].outcome = recent[l].outcome
          /\ [recent[l] EXCEPT !.tokens = job[t].tokens].tokens = job[t].tokens
      BY <2>2 DEF S!Records
    <2>4. DOMAIN recent' = DOMAIN recent  BY <2>1, <2>2 DEF BookTypes
    <2>5. /\ i = l => recent'[i].outcome = recent[l].outcome /\ recent'[i].tokens = job[t].tokens
          /\ i # l => recent'[i] = recent[i]
      BY <2>1, <2>2, <2>3, <2>4
    <2>6. PICK j \in DOMAIN recent : j = i  BY <2>4
    <2>7. recent[j].id = r /\ recent[j].outcome = "completed"  BY <2>1, <2>5, <2>6
    <2>8. /\ t = h /\ kind[r] = "encoded" /\ chunk[m] = Len(Usage) /\ chunk'[m] = chunk[m]
          /\ \A k \in DOMAIN recent : recent[k].id = r => k = j
      BY <1>2, <1>3, <2>7
    <2>9. i = l  BY <2>1, <2>2, <2>6, <2>8
    <2>10. Op(h) = "late" /\ queue' = queue /\ cut' = cut
      BY <1>3, <2>8 DEF S!MergeRecent, Op, S!queueVars
    <2>11. CASE Cut(r) = "no" /\ queue[r] = <<>>
      <3>1. job[h].tokens = Usage[chunk[m]]
        BY <2>8, <2>10, <2>11 DEF Followed, Follows, Reporting
      <3> QED BY <2>5, <2>8, <2>9, <3>1 DEF S!Final
    <2>12. CASE Cut(r) # "no" \/ queue[r] # <<>>
      BY <2>8, <2>10, <2>12 DEF Cut
    <2> QED BY <2>11, <2>12
  <1>4. CASE ~(S!Push(t) /\ recent'[i] = job[t].rec) /\ ~(S!MergeRecent(t) /\ recent' # recent)
    <2>1. PICK j \in DOMAIN recent : recent'[i] = recent[j]
      <3>1. CASE S!Push(t)  BY <1>0, <1>4, <3>1, FinishedPush
      <3>2. CASE ~S!Push(t)
        <4>1. recent' = recent
          <5>1. CASE S!Apply(t)
            BY <1>4, <3>2, <5>1 DEF S!Apply, S!ApplyUsage, S!Adjust, S!CountError, S!CountTotals
          <5>2. CASE ~S!Apply(t)
            BY <1>0, <5>2, OtherRequests
          <5> QED BY <5>1, <5>2
        <4> QED BY <4>1
      <3> QED BY <3>1, <3>2
    <2>2. /\ t = h /\ kind[r] = "encoded" /\ active[r] = None /\ chunk[m] = Len(Usage)
          /\ task[h] \in {"observe", "done"} /\ Op(h) \notin Closings
          /\ S!Apply(h) \/ S!Observe(h) \/ S!ObserverEnds(h)
          /\ chunk'[m] = chunk[m]
          /\ recent[j].tokens = S!Final \/ Cut(r) = "yes" \/ queue[r] # <<>> \/ Op(h) \in Reporting
      BY <1>2, <2>1
    <2>3. CASE S!Apply(h)
      <3>1. queue' = queue /\ cut' = cut /\ Applies(Op(h), Open(r), Op(h)', Open(r)')
        BY <1>0, <2>3, FlatApply
      <3>2. Cut(r)' = Cut(r)  BY <3>1 DEF Cut
      <3>3. Open(r) = "no"  BY <2>2 DEF Open
      <3>4. Op(h) \in {"usage", "late", "adjust"}
        BY <2>2, <3>1 DEF Applies, Closings
      <3>5. CASE Op(h) = "usage"
        <4>1. Op(h)' = "late"  BY <3>1, <3>3, <3>5 DEF Applies
        <4> QED BY <2>2, <4>1 DEF Reporting
      <3>6. CASE Op(h) = "adjust"
        BY <2>1, <2>2, <3>1, <3>2, <3>6 DEF Reporting
      <3>7. CASE Op(h) = "late"
        <4>1. S!MergeRecent(h)
          BY <2>3, <3>7 DEF Op, S!Apply, S!ApplyUsage, S!Adjust, S!CountError, S!CountTotals, S!Push
        <4>2. recent' = recent  BY <1>4, <2>2, <4>1
        <4>3. \E k \in DOMAIN recent : recent[k].id = S!Req(h)
          BY <1>0, <4>2
        <4>4. PICK l \in 1 .. Len(recent) :
                /\ recent' = [recent EXCEPT ![l] = [recent[l] EXCEPT !.tokens = job[h].tokens]]
                /\ recent[l].id = r
          BY <1>0, <4>1, <4>3, FinishedMerge
        <4>5. recent[l] \in S!Records /\ l \in DOMAIN recent  BY FinishedTypes
        <4>6. recent'[l].tokens = job[h].tokens
          BY <4>4, <4>5 DEF S!Records
        <4>7. l = j  BY <1>2, <2>1, <4>4, <4>5
        <4>8. recent'[i].tokens = job[h].tokens  BY <2>1, <4>2, <4>6, <4>7
        <4>9. CASE Cut(r) = "no" /\ queue[r] = <<>>
          <5>1. job[h].tokens = Usage[chunk[m]]
            BY <2>2, <3>7, <4>9 DEF Followed, Follows, Reporting
          <5> QED BY <2>2, <4>8, <5>1 DEF S!Final
        <4>10. CASE Cut(r) # "no" \/ queue[r] # <<>>
          BY <2>2, <3>1, <3>2, <4>10 DEF Cut
        <4> QED BY <4>9, <4>10
      <3> QED BY <3>4, <3>5, <3>6, <3>7
    <2>4. CASE S!Observe(h)
      <3>1. job' = [job EXCEPT ![h] = [op |-> "usage", tokens |-> Usage[Head(queue[r])]]]
              /\ queue[r] # <<>>
        BY <1>0, <2>4 DEF S!Observe, S!Begin
      <3>2. BookTypes'  BY <1>0, <2>4, TypesServe
      <3>3. job'[h] # None
        <4>1. PICK q : q = queue[r]  OBVIOUS
        <4>2. q \in Seq(DOMAIN Usage) /\ q # <<>>  BY <3>1, <4>1 DEF BookTypes
        <4>3. Head(q) \in 1 .. Len(Usage)  BY <4>2, UsageTokens
        <4>4. [op |-> "usage", tokens |-> Usage[Head(q)]] \in S!Jobs
          BY <4>3, JobMade, UsageTokens
        <4>5. job'[h] = [op |-> "usage", tokens |-> Usage[Head(q)]]  BY <1>0, <3>1, <4>1
        <4> QED BY <1>0, <4>4, <4>5
      <3>4. job'[h].op = "usage"  BY <1>0, <3>1
      <3>5. Op(h)' = "usage"  BY <3>3, <3>4 DEF Op
      <3> QED BY <2>2, <3>5 DEF Reporting
    <2>5. CASE S!ObserverEnds(h)
      <3>1. job[h] = None /\ queue[r] = <<>> /\ queue' = queue /\ cut' = cut
        BY <1>0, <2>5 DEF S!ObserverEnds, S!Idle, S!queueVars
      <3>2. Op(h) = "none" /\ Cut(r)' = Cut(r)  BY <3>1 DEF Op, Cut
      <3> QED BY <2>1, <2>2, <3>1, <3>2 DEF Reporting
    <2> QED BY <2>2, <2>3, <2>4, <2>5
  <1> QED BY <1>1, <1>3, <1>4

LEMMA KeptMoves ==
  ASSUME BookConstants, BookTypes, RecordsNamed, NEW r \in Requests, NEW m, NEW h, TasksOf(r, m, h),
         RequestInv(r, m, h), Followed(r, m, h), Kept(r, m, h), NEW t \in {m, h},
         S!Apply(t) \/ S!Serve(t) \/ S!Observe(t) \/ S!ObserverEnds(t)
  PROVE  Kept(r, m, h)'
  <1>1. kind' = kind
    <2>1. t \in S!Tasks /\ S!Req(t) = r  BY DEF TasksOf
    <2> QED BY <2>1, FlatApply, OtherRequests
  <1>2. SUFFICES ASSUME kind[r] \notin {"codex", "opaque"}
        PROVE  /\ \A u \in {m, h} : Op(u)' \in Closings /\ job'[u].rec.outcome = "completed" =>
                    job'[u].rec.tokens = S!Final /\ (kind[r] = "encoded" => chunk'[m] = Len(Usage))
               /\ \A i \in DOMAIN recent' : recent'[i].id = r /\ recent'[i].outcome = "completed" =>
                    /\ kind[r] = "encoded" => chunk'[m] = Len(Usage)
                    /\ \/ recent'[i].tokens = S!Final \/ Cut(r)' = "yes"
                       \/ kind[r] = "encoded" /\ (queue'[r] # <<>> \/ Op(h)' \in Reporting)
    BY <1>1 DEF Kept, S!Final
  <1>3. ASSUME NEW u \in {m, h}, Op(u)' \in Closings, job'[u].rec.outcome = "completed"
        PROVE  job'[u].rec.tokens = S!Final /\ (kind[r] = "encoded" => chunk'[m] = Len(Usage))
    BY <1>2, <1>3, KeptClosing
  <1>4. ASSUME NEW i \in DOMAIN recent', recent'[i].id = r, recent'[i].outcome = "completed"
        PROVE  /\ kind[r] = "encoded" => chunk'[m] = Len(Usage)
               /\ \/ recent'[i].tokens = S!Final \/ Cut(r)' = "yes"
                  \/ kind[r] = "encoded" /\ (queue'[r] # <<>> \/ Op(h)' \in Reporting)
    BY <1>2, <1>4, KeptRecent
  <1> QED BY <1>3, <1>4

(* What the observers still have to report.                                *)
ObservedInv ==
  \A r \in Requests :
    /\ Followed(r, <<"main", r>>, <<"helper", r>>)
    /\ Kept(r, <<"main", r>>, <<"helper", r>>)

LEMMA ObservedInit == ASSUME BookConstants, S!Init PROVE ObservedInv
  <1>1. ASSUME NEW r \in Requests, NEW m, NEW h, TasksOf(r, m, h)
        PROVE  Followed(r, m, h) /\ Kept(r, m, h)
    <2>1. Op(m) = "none" /\ Op(h) = "none"  BY <1>1 DEF TasksOf, S!Init, Op
    <2>2. task[h] = "wait" /\ queue[r] = <<>> /\ recent = <<>>  BY <1>1 DEF TasksOf, S!Init
    <2>3. Followed(r, m, h)  BY <2>1, <2>2 DEF Followed, Follows, Reporting
    <2>4. Kept(r, m, h)  BY <2>1, <2>2 DEF Kept, Closings
    <2> QED BY <2>3, <2>4
  <1> QED BY <1>1, RequestTasks DEF ObservedInv

LEMMA ObservedStep ==
  ASSUME BookConstants, BookTypes, RequestsInv, ObservedInv, S!Next
  PROVE  ObservedInv'
  <1>1. PICK t \in S!Tasks : S!Apply(t) \/ S!Serve(t) \/ S!Observe(t) \/ S!ObserverEnds(t)
    BY DEF S!Next
  <1>2. ASSUME NEW r \in Requests
        PROVE  Followed(r, <<"main", r>>, <<"helper", r>>)' /\ Kept(r, <<"main", r>>, <<"helper", r>>)'
    <2>1. PICK m, h : m = <<"main", r>> /\ h = <<"helper", r>>  OBVIOUS
    <2>2. TasksOf(r, m, h)  BY <2>1, RequestTasks
    <2>3. RequestInv(r, m, h) /\ RecordsNamed /\ Followed(r, m, h) /\ Kept(r, m, h)
      BY <2>1 DEF RequestsInv, ObservedInv
    <2>4. Followed(r, m, h)' /\ Kept(r, m, h)'
      <3>1. CASE S!Req(t) = r
        <4>1. t \in {m, h}  BY <2>1, <3>1, RequestTasks
        <4> QED BY <1>1, <2>2, <2>3, <4>1, FollowedMoves, KeptMoves
      <3>2. CASE S!Req(t) # r
        BY <1>1, <2>2, <2>3, <3>2, KeptUnmoved
      <3> QED BY <3>1, <3>2
    <2> QED BY <2>1, <2>4
  <1> QED BY <1>2 DEF ObservedInv

LEMMA ObservedKeeps == ASSUME BookConstants, BookTypes, ObservedInv PROVE S!FinalUsageKept
  <1>1. SUFFICES ASSUME NEW i \in DOMAIN recent, recent[i].outcome = "completed",
                        S!Quiet(recent[i].id), kind[recent[i].id] \notin {"codex", "opaque"},
                        recent[i].id \notin cut
                 PROVE  recent[i].tokens = S!Final
    BY DEF S!FinalUsageKept
  <1>2. PICK r \in Requests : r = recent[i].id
    <2>1. recent[i] \in S!Records  BY FinishedTypes
    <2> QED BY <2>1 DEF S!Records
  <1>3. PICK m, h : m = <<"main", r>> /\ h = <<"helper", r>>  OBVIOUS
  <1>4. Followed(r, m, h) /\ Kept(r, m, h)  BY <1>3 DEF ObservedInv
  <1>5. task[h] \in {"wait", "done"} /\ Op(h) = "none" /\ Cut(r) = "no"
    BY <1>1, <1>2, <1>3 DEF S!Quiet, Op, Cut
  <1>6. kind[r] = "encoded" => queue[r] = <<>>
    BY <1>4, <1>5 DEF Followed, Follows
  <1> QED BY <1>1, <1>2, <1>4, <1>5, <1>6 DEF Kept, Reporting

(* The totals.  J is what the tasks are in the middle of, F the finished   *)
(* records.                                                                *)
AtOf(J, op) == {t \in S!Tasks : J[t] # None /\ J[t].op = op}
Weights(F)  == [i \in DOMAIN F |-> S!Count(F[i].tokens)]
Pushed(J)   == [t \in S!Tasks |-> S!Count(J[t].rec.tokens)]
Adjusted(J) == [t \in S!Tasks |-> J[t].new - J[t].old]
Recorded(F) == Sum(Weights(F), DOMAIN F)
Underway(J) == Sum(Pushed(J), AtOf(J, "push"))
Owed(J)     == Sum(Adjusted(J), AtOf(J, "adjust"))
LocalIn(F)  == {i \in DOMAIN F : F[i].target = "local"}
LocalAt(J)  == {t \in AtOf(J, "push") : J[t].rec.target = "local"}
Working(J)  == J \in [S!Tasks -> S!Jobs \cup {None}] /\ IsFiniteSet({t \in S!Tasks : J[t] # None})

LEMMA CountsSame == ASSUME NEW X PROVE S!Cardinality(X) = Cardinality(X)
  BY DEF S!Cardinality, Cardinality

LEMMA TotalsAre ==
  S!TotalsMatchRecords <=>
    /\ totals.tokens = Recorded(S!Finished) + Underway(job) - Owed(job)
    /\ totals.completed = Len(S!Finished) + Cardinality(AtOf(job, "push"))
    /\ totals.local = Cardinality(LocalIn(S!Finished)) + Cardinality(LocalAt(job))
  <1>1. S!SumTokens(S!Finished) = Recorded(S!Finished)
    <2>1. S!SumTokens(S!Finished)
            = S!FoldFunctionOnSet(+, 0, Weights(S!Finished), DOMAIN Weights(S!Finished))
      BY DEF S!SumTokens, S!FoldFunction, Weights
    <2>2. DOMAIN Weights(S!Finished) = DOMAIN S!Finished  BY DEF Weights
    <2> QED BY <2>1, <2>2, FoldIsSum DEF Recorded
  <1>2. \A op : S!At(op) = AtOf(job, op)  BY DEF S!At, AtOf
  <1>3. S!FoldFunctionOnSet(+, 0, Pushed(job), AtOf(job, "push")) = Underway(job)
    BY FoldIsSum DEF Underway
  <1>4. S!FoldFunctionOnSet(+, 0, Adjusted(job), AtOf(job, "adjust")) = Owed(job)
    BY FoldIsSum DEF Owed
  <1>5. S!TotalsMatchRecords <=>
          /\ totals.tokens = S!SumTokens(S!Finished)
               + S!FoldFunctionOnSet(+, 0, Pushed(job), S!At("push"))
               - S!FoldFunctionOnSet(+, 0, Adjusted(job), S!At("adjust"))
          /\ totals.completed = Len(S!Finished) + S!Cardinality(S!At("push"))
          /\ totals.local = S!Cardinality(LocalIn(S!Finished))
                              + S!Cardinality({t \in S!At("push") : job[t].rec.target = "local"})
    BY Zenon DEF S!TotalsMatchRecords, S!SumOver, Pushed, Adjusted, LocalIn
  <1>6. {t \in S!At("push") : job[t].rec.target = "local"} = LocalAt(job)
    BY <1>2 DEF LocalAt
  <1>7. /\ S!Cardinality(S!At("push")) = Cardinality(AtOf(job, "push"))
        /\ S!Cardinality(LocalIn(S!Finished)) = Cardinality(LocalIn(S!Finished))
        /\ S!Cardinality({t \in S!At("push") : job[t].rec.target = "local"}) = Cardinality(LocalAt(job))
    BY <1>2, <1>6, CountsSame
  <1>8. /\ S!FoldFunctionOnSet(+, 0, Pushed(job), S!At("push")) = Underway(job)
        /\ S!FoldFunctionOnSet(+, 0, Adjusted(job), S!At("adjust")) = Owed(job)
    BY <1>2, <1>3, <1>4
  <1> QED BY <1>1, <1>5, <1>7, <1>8, Zenon

LEMMA WorkingParts ==
  ASSUME BookConstants, NEW J, Working(J)
  PROVE  /\ \A op : IsFiniteSet(AtOf(J, op)) /\ Cardinality(AtOf(J, op)) \in Nat
         /\ IsFiniteSet(LocalAt(J)) /\ Cardinality(LocalAt(J)) \in Nat
         /\ \A t \in AtOf(J, "push") : Pushed(J)[t] \in Nat /\ J[t].rec \in S!Records
         /\ \A t \in AtOf(J, "adjust") : J[t].new \in Nat /\ J[t].old \in Nat /\ Adjusted(J)[t] \in Int
         /\ Underway(J) \in Nat /\ Owed(J) \in Int
  <1> DEFINE B == {t \in S!Tasks : J[t] # None}
  <1>1. \A op : IsFiniteSet(AtOf(J, op)) /\ Cardinality(AtOf(J, op)) \in Nat
    <2>1. \A op : AtOf(J, op) \subseteq B  BY DEF AtOf
    <2> HIDE DEF B
    <2> QED BY <2>1, FS_Subset, FS_CardinalityType DEF Working, B
  <1>2. IsFiniteSet(LocalAt(J)) /\ Cardinality(LocalAt(J)) \in Nat
    <2>1. LocalAt(J) \subseteq AtOf(J, "push")  BY DEF LocalAt
    <2> QED BY <1>1, <2>1, FS_Subset, FS_CardinalityType
  <1>3. ASSUME NEW t \in AtOf(J, "push") PROVE Pushed(J)[t] \in Nat /\ J[t].rec \in S!Records
    <2>1. t \in S!Tasks /\ J[t] \in S!Jobs /\ J[t].op = "push"  BY <1>3 DEF AtOf, Working
    <2>2. J[t].rec \in S!Records  BY <2>1, JobParts
    <2>3. J[t].rec.tokens \in S!Tokens \cup {None}  BY <2>2 DEF S!Records
    <2>4. S!Count(J[t].rec.tokens) \in Nat  BY <2>3, UsageTokens DEF S!Count
    <2> QED BY <2>1, <2>2, <2>4 DEF Pushed
  <1>4. ASSUME NEW t \in AtOf(J, "adjust")
        PROVE  J[t].new \in Nat /\ J[t].old \in Nat /\ Adjusted(J)[t] \in Int
    <2>1. t \in S!Tasks /\ J[t] \in S!Jobs /\ J[t].op = "adjust"  BY <1>4 DEF AtOf, Working
    <2>2. J[t].new \in Nat /\ J[t].old \in Nat  BY <2>1, JobParts
    <2> QED BY <2>1, <2>2 DEF Adjusted
  <1>5. Underway(J) \in Nat  BY <1>1, <1>3, SumIsNat DEF Underway
  <1>6. Owed(J) \in Int  BY <1>1, <1>4, SumIsInt DEF Owed
  <1> QED BY <1>1, <1>2, <1>3, <1>4, <1>5, <1>6

(* A task starts to push, or with the two exchanged is done with it.       *)
LEMMA PushStarts ==
  ASSUME BookConstants, NEW J, NEW K, Working(J), Working(K), NEW t \in S!Tasks,
         \A u \in S!Tasks \ {t} : K[u] = J[u], t \notin AtOf(J, "push"), t \in AtOf(K, "push")
  PROVE  /\ Underway(K) = Underway(J) + S!Count(K[t].rec.tokens)
         /\ Cardinality(AtOf(K, "push")) = Cardinality(AtOf(J, "push")) + 1
         /\ Cardinality(LocalAt(K)) = Cardinality(LocalAt(J)) + IF K[t].rec.target = "local" THEN 1 ELSE 0
  <1>1. AtOf(K, "push") = AtOf(J, "push") \cup {t}  BY DEF AtOf
  <1>2. \A u \in AtOf(J, "push") : Pushed(K)[u] = Pushed(J)[u] /\ Pushed(J)[u] \in Nat
    BY WorkingParts DEF AtOf, Pushed
  <1>3. IsFiniteSet(AtOf(J, "push"))  BY WorkingParts
  <1>4. Pushed(K)[t] \in Nat /\ Pushed(K)[t] = S!Count(K[t].rec.tokens)
    BY WorkingParts DEF Pushed
  <1>5. Underway(K) = Pushed(K)[t] + Sum(Pushed(K), AtOf(J, "push"))
    <2> DEFINE D == AtOf(J, "push")
    <2>1. t \notin D /\ IsFiniteSet(D) /\ (\A u \in D : Pushed(K)[u] \in Int) /\ Pushed(K)[t] \in Int
      BY <1>2, <1>3, <1>4
    <2> HIDE DEF D
    <2>2. Sum(Pushed(K), D \cup {t}) = Pushed(K)[t] + Sum(Pushed(K), D)
      BY <2>1, SumWith
    <2> QED BY <1>1, <2>2 DEF D, Underway
  <1>6. Sum(Pushed(K), AtOf(J, "push")) = Underway(J)
    <2>1. \A u \in AtOf(J, "push") : Pushed(K)[u] = Pushed(J)[u] /\ Pushed(K)[u] \in Int
      BY <1>2
    <2> QED BY <1>3, <2>1, SumIsSame DEF Underway
  <1>7. Cardinality(AtOf(K, "push")) = Cardinality(AtOf(J, "push")) + 1
    BY <1>1, <1>3, FS_AddElement
  <1>8. CASE K[t].rec.target = "local"
    <2>1. LocalAt(K) = LocalAt(J) \cup {t} /\ t \notin LocalAt(J)  BY <1>1, <1>8 DEF LocalAt, AtOf
    <2>2. Cardinality(LocalAt(K)) = Cardinality(LocalAt(J)) + 1
      BY <2>1, WorkingParts, FS_AddElement
    <2> QED BY <1>4, <1>5, <1>6, <1>7, <1>8, <2>2, WorkingParts
  <1>9. CASE K[t].rec.target # "local"
    <2>1. LocalAt(K) = LocalAt(J)  BY <1>1, <1>9 DEF LocalAt, AtOf
    <2> QED BY <1>4, <1>5, <1>6, <1>7, <1>9, <2>1, WorkingParts
  <1> QED BY <1>8, <1>9

LEMMA AdjustStarts ==
  ASSUME BookConstants, NEW J, NEW K, Working(J), Working(K), NEW t \in S!Tasks,
         \A u \in S!Tasks \ {t} : K[u] = J[u], t \notin AtOf(J, "adjust"), t \in AtOf(K, "adjust")
  PROVE  Owed(K) = Owed(J) + (K[t].new - K[t].old)
  <1>1. AtOf(K, "adjust") = AtOf(J, "adjust") \cup {t}  BY DEF AtOf
  <1>2. \A u \in AtOf(J, "adjust") : Adjusted(K)[u] = Adjusted(J)[u] /\ Adjusted(J)[u] \in Int
    BY WorkingParts DEF AtOf, Adjusted
  <1>3. IsFiniteSet(AtOf(J, "adjust"))  BY WorkingParts
  <1>4. Adjusted(K)[t] \in Int /\ Adjusted(K)[t] = K[t].new - K[t].old
    BY WorkingParts DEF Adjusted
  <1>5. Owed(K) = Adjusted(K)[t] + Sum(Adjusted(K), AtOf(J, "adjust"))
    <2> DEFINE D == AtOf(J, "adjust")
    <2>1. t \notin D /\ IsFiniteSet(D) /\ (\A u \in D : Adjusted(K)[u] \in Int) /\ Adjusted(K)[t] \in Int
      BY <1>2, <1>3, <1>4
    <2> HIDE DEF D
    <2>2. Sum(Adjusted(K), D \cup {t}) = Adjusted(K)[t] + Sum(Adjusted(K), D)
      BY <2>1, SumWith
    <2> QED BY <1>1, <2>2 DEF D, Owed
  <1>6. Sum(Adjusted(K), AtOf(J, "adjust")) = Owed(J)
    <2>1. \A u \in AtOf(J, "adjust") : Adjusted(K)[u] = Adjusted(J)[u] /\ Adjusted(K)[u] \in Int
      BY <1>2
    <2> QED BY <1>3, <2>1, SumIsSame DEF Owed
  <1> QED BY <1>4, <1>5, <1>6, WorkingParts

(* Nothing that counts changes.                                            *)
LEMMA PushSame ==
  ASSUME BookConstants, NEW J, NEW K, Working(J), Working(K), NEW t \in S!Tasks,
         \A u \in S!Tasks \ {t} : K[u] = J[u], t \notin AtOf(J, "push"), t \notin AtOf(K, "push")
  PROVE  /\ Underway(K) = Underway(J) /\ AtOf(K, "push") = AtOf(J, "push")
         /\ LocalAt(K) = LocalAt(J)
  <1>1. AtOf(K, "push") = AtOf(J, "push")  BY DEF AtOf
  <1>2. LocalAt(K) = LocalAt(J)  BY <1>1 DEF LocalAt, AtOf
  <1>3. \A u \in AtOf(J, "push") : Pushed(K)[u] = Pushed(J)[u] /\ Pushed(K)[u] \in Int
    BY WorkingParts DEF AtOf, Pushed
  <1>4. IsFiniteSet(AtOf(J, "push"))  BY WorkingParts
  <1>5. Underway(K) = Underway(J)  BY <1>1, <1>3, <1>4, SumIsSame DEF Underway
  <1> QED BY <1>1, <1>2, <1>5

LEMMA AdjustSame ==
  ASSUME BookConstants, NEW J, NEW K, Working(J), Working(K), NEW t \in S!Tasks,
         \A u \in S!Tasks \ {t} : K[u] = J[u], t \notin AtOf(J, "adjust"), t \notin AtOf(K, "adjust")
  PROVE  Owed(K) = Owed(J) /\ AtOf(K, "adjust") = AtOf(J, "adjust")
  <1>1. AtOf(K, "adjust") = AtOf(J, "adjust")  BY DEF AtOf
  <1>2. \A u \in AtOf(J, "adjust") : Adjusted(K)[u] = Adjusted(J)[u] /\ Adjusted(K)[u] \in Int
    BY WorkingParts DEF AtOf, Adjusted
  <1>3. IsFiniteSet(AtOf(J, "adjust"))  BY WorkingParts
  <1>4. Owed(K) = Owed(J)  BY <1>1, <1>2, <1>3, SumIsSame DEF Owed
  <1> QED BY <1>1, <1>4

(* The finished records, when one is added and when one gets its usage.    *)
Listed(F) == DOMAIN F = 1 .. Len(F) /\ Len(F) \in Nat /\ \A i \in 1 .. Len(F) : F[i] \in S!Records
Retold(F, l, x, F1) ==
  /\ l \in DOMAIN F /\ DOMAIN F1 = DOMAIN F /\ Len(F1) = Len(F)
  /\ F1[l] = [F[l] EXCEPT !.tokens = x] /\ \A i \in DOMAIN F \ {l} : F1[i] = F[i]

LEMMA CountIsNat ==
  ASSUME BookConstants, NEW x \in S!Records PROVE S!Count(x.tokens) \in Nat
  <1>1. x.tokens \in S!Tokens \cup {None}  BY DEF S!Records
  <1> QED BY <1>1, UsageTokens DEF S!Count

LEMMA ListedParts ==
  ASSUME BookConstants, NEW F, Listed(F)
  PROVE  /\ IsFiniteSet(DOMAIN F) /\ \A i \in DOMAIN F : Weights(F)[i] \in Nat
         /\ Recorded(F) \in Nat
         /\ IsFiniteSet(LocalIn(F)) /\ Cardinality(LocalIn(F)) \in Nat
  <1>1. IsFiniteSet(DOMAIN F)  BY FS_Interval DEF Listed
  <1>2. \A i \in DOMAIN F : Weights(F)[i] \in Nat  BY CountIsNat DEF Listed, Weights
  <1>3. Recorded(F) \in Nat  BY <1>1, <1>2, SumIsNat DEF Recorded
  <1>4. LocalIn(F) \in SUBSET DOMAIN F  BY DEF LocalIn
  <1>5. IsFiniteSet(LocalIn(F)) /\ Cardinality(LocalIn(F)) \in Nat
    BY <1>1, <1>4, FS_Subset, FS_CardinalityType
  <1> QED BY <1>1, <1>2, <1>3, <1>5

LEMMA RecordAdded ==
  ASSUME BookConstants, NEW F, NEW F1, Listed(F), Listed(F1), NEW x \in S!Records, Appended(F, x, F1)
  PROVE  /\ Recorded(F1) = Recorded(F) + S!Count(x.tokens) /\ Len(F1) = Len(F) + 1
         /\ Cardinality(LocalIn(F1)) = Cardinality(LocalIn(F)) + IF x.target = "local" THEN 1 ELSE 0
  <1>1. PICK n : n = Len(F) + 1  OBVIOUS
  <1>2. DOMAIN F1 = DOMAIN F \cup {n} /\ n \notin DOMAIN F /\ F1[n] = x
          /\ \A i \in DOMAIN F : F1[i] = F[i]
    BY <1>1 DEF Listed, Appended
  <1>3. (\A i \in DOMAIN F : Weights(F1)[i] = Weights(F)[i] /\ Weights(F1)[i] \in Int)
          /\ Weights(F1)[n] = S!Count(x.tokens) /\ Weights(F1)[n] \in Int
    BY <1>2, ListedParts, CountIsNat DEF Weights
  <1>4. IsFiniteSet(DOMAIN F)  BY ListedParts
  <1>5. Recorded(F1) = Weights(F1)[n] + Sum(Weights(F1), DOMAIN F)
    <2> DEFINE D == DOMAIN F
    <2>1. n \notin D /\ IsFiniteSet(D) /\ \A i \in D : Weights(F1)[i] \in Int
      BY <1>2, <1>3, <1>4
    <2> HIDE DEF D
    <2>2. Sum(Weights(F1), D \cup {n}) = Weights(F1)[n] + Sum(Weights(F1), D)
      BY <1>3, <2>1, SumWith
    <2> QED BY <1>2, <2>2 DEF D, Recorded
  <1>6. Sum(Weights(F1), DOMAIN F) = Recorded(F)
    BY <1>3, <1>4, SumIsSame DEF Recorded
  <1>7. Recorded(F1) = Recorded(F) + S!Count(x.tokens)
    BY <1>3, <1>5, <1>6, ListedParts
  <1>8. CASE x.target = "local"
    <2>1. LocalIn(F1) = LocalIn(F) \cup {n} /\ n \notin LocalIn(F)  BY <1>2, <1>8 DEF LocalIn
    <2>2. Cardinality(LocalIn(F1)) = Cardinality(LocalIn(F)) + 1
      BY <2>1, ListedParts, FS_AddElement
    <2> QED BY <1>7, <1>8, <2>2 DEF Appended
  <1>9. CASE x.target # "local"
    <2>1. LocalIn(F1) = LocalIn(F)  BY <1>2, <1>9 DEF LocalIn
    <2> QED BY <1>7, <1>9, <2>1, ListedParts DEF Appended
  <1> QED BY <1>8, <1>9

LEMMA RecordRetold ==
  ASSUME BookConstants, NEW F, NEW F1, Listed(F), Listed(F1), NEW l, NEW x \in S!Tokens,
         Retold(F, l, x, F1)
  PROVE  /\ Recorded(F1) = Recorded(F) - S!Count(F[l].tokens) + x
         /\ Len(F1) = Len(F) /\ LocalIn(F1) = LocalIn(F)
         /\ F1[l].id = F[l].id /\ F1[l].tokens = x /\ S!Count(x) = x
  <1>1. F[l] \in S!Records  BY DEF Listed, Retold
  <1>2. /\ [F[l] EXCEPT !.tokens = x].tokens = x /\ [F[l] EXCEPT !.tokens = x].id = F[l].id
        /\ [F[l] EXCEPT !.tokens = x].target = F[l].target
    BY <1>1 DEF S!Records
  <1>3. S!Count(x) = x /\ x \in Nat  BY UsageTokens DEF S!Count
  <1>4. LocalIn(F1) = LocalIn(F)  BY <1>2 DEF LocalIn, Retold
  <1>5. Weights(F)[l] = S!Count(F[l].tokens) /\ Weights(F1)[l] = x
    BY <1>2, <1>3 DEF Weights, Retold
  <1>6. \A i \in DOMAIN F : Weights(F)[i] \in Int /\ Weights(F1)[i] \in Int
    BY ListedParts DEF Retold
  <1>7. \A i \in DOMAIN F \ {l} : Weights(F1)[i] = Weights(F)[i]
    BY DEF Weights, Retold
  <1>8. Sum(Weights(F1), DOMAIN F) = Sum(Weights(F), DOMAIN F) - Weights(F)[l] + Weights(F1)[l]
    <2>1. IsFiniteSet(DOMAIN F) /\ l \in DOMAIN F  BY ListedParts DEF Retold
    <2> QED BY <1>6, <1>7, <2>1, SumChanges
  <1>9. Recorded(F1) = Recorded(F) - S!Count(F[l].tokens) + x
    BY <1>5, <1>8 DEF Recorded, Retold
  <1> QED BY <1>2, <1>3, <1>4, <1>9 DEF Retold

(* What the corrections under way add is in the records they are for.      *)
Places(F, J) ==
  \A t \in AtOf(J, "adjust") : \E i \in DOMAIN F :
    F[i].id = S!Req(t) /\ S!Count(F[i].tokens) = J[t].new
Alone(J) == \A t, u \in AtOf(J, "adjust") : S!Req(t) = S!Req(u) => t = u

LEMMA OwedIsRecorded ==
  ASSUME BookConstants, NEW F, Listed(F), NEW J, Working(J), Places(F, J), Alone(J)
  PROVE  Owed(J) <= Recorded(F)
  <1> DEFINE V == AtOf(J, "adjust")
             e == [t \in V |-> CHOOSE i \in DOMAIN F :
                     F[i].id = S!Req(t) /\ S!Count(F[i].tokens) = J[t].new]
  <1>1. ASSUME NEW t \in V
        PROVE  e[t] \in DOMAIN F /\ F[e[t]].id = S!Req(t) /\ S!Count(F[e[t]].tokens) = J[t].new
    <2>1. e[t] = CHOOSE i \in DOMAIN F : F[i].id = S!Req(t) /\ S!Count(F[i].tokens) = J[t].new
      OBVIOUS
    <2> HIDE DEF e
    <2> QED BY <1>1, <2>1 DEF Places
  <1>2. \A t \in V : e[t] \in DOMAIN F /\ Adjusted(J)[t] <= Weights(F)[e[t]]
    <2> HIDE DEF e
    <2>1. ASSUME NEW t \in V PROVE Adjusted(J)[t] <= Weights(F)[e[t]]
      <3>1. t \in S!Tasks  BY DEF AtOf
      <3>2. Adjusted(J)[t] = J[t].new - J[t].old  BY <3>1 DEF Adjusted
      <3>3. Weights(F)[e[t]] = J[t].new  BY <1>1 DEF Weights
      <3>4. J[t].new \in Nat /\ J[t].old \in Nat  BY WorkingParts
      <3> QED BY <3>2, <3>3, <3>4
    <2> QED BY <1>1, <2>1
  <1>3. \A t, u \in V : e[t] = e[u] => t = u
    <2> HIDE DEF e
    <2> QED BY <1>1 DEF Alone
  <1>4. IsFiniteSet(V) /\ \A t \in V : Adjusted(J)[t] \in Int  BY WorkingParts
  <1>5. IsFiniteSet(DOMAIN F) /\ \A i \in DOMAIN F : Weights(F)[i] \in Nat  BY ListedParts
  <1>6. Sum(Adjusted(J), V) <= Sum(Weights(F), DOMAIN F)
    <2> HIDE DEF V, e
    <2> QED BY <1>2, <1>3, <1>4, <1>5, SumBelow
  <1> QED BY <1>6 DEF Owed, Recorded

(* The steps.                                                              *)
Balanced(T, F, J) ==
  /\ T.tokens = Recorded(F) + Underway(J) - Owed(J)
  /\ T.completed = Len(F) + Cardinality(AtOf(J, "push"))
  /\ T.local = Cardinality(LocalIn(F)) + Cardinality(LocalAt(J))

LEMMA BalancedIs == S!TotalsMatchRecords <=> Balanced(totals, S!Finished, job)
  BY TotalsAre DEF Balanced

LEMMA BalancedNext == S!TotalsMatchRecords' <=> Balanced(totals', S!Finished', job')
  <1>1. (S!TotalsMatchRecords <=> Balanced(totals, S!Finished, job))'
    BY BalancedIs, PTL
  <1> QED BY <1>1

LEMMA OpAt ==
  /\ \A t \in S!Tasks, op \in Ops \ {"none"} : t \in AtOf(job, op) <=> Op(t) = op
  /\ \A t \in S!Tasks, op \in Ops \ {"none"} : t \in AtOf(job', op) <=> Op(t)' = op
  BY DEF Op, AtOf, Ops

LEMMA Begins ==
  ASSUME BookConstants, BookTypes, NEW t \in S!Tasks, S!Serve(t) \/ S!Observe(t) \/ S!ObserverEnds(t)
  PROVE  \/ Op(t)' = Op(t) /\ job' = job
         \/ Op(t) = "none" /\ Op(t)' \in {"usage", "errors", "count"}
  <1>0. S!Req(t) \in Requests /\ job \in [S!Tasks -> S!Jobs \cup {None}] /\ None \notin S!Jobs
    BY TaskParts DEF BookTypes, BookConstants
  <1>1. BookTypes'  BY TypesServe
  <1>2. ASSUME NEW j, job' = [job EXCEPT ![t] = j], j # None, job[t] = None,
               j.op \in {"usage", "errors", "count"}
        PROVE  Op(t) = "none" /\ Op(t)' \in {"usage", "errors", "count"}
    <2>1. job'[t] = j  BY <1>0, <1>2
    <2> QED BY <1>2, <2>1 DEF Op
  <1>3. CASE job' = job  BY <1>3 DEF Op
  <1>4. CASE job' # job
    <2>1. CASE S!SendFails(t) \/ S!Completed(t) \/ S!Errored(t)
      <3>0. job[t] = None  BY <2>1 DEF S!Completed, S!Errored, S!SendFails, S!Idle
      <3>1. PICK o \in {"completed", "error"}, x \in S!Tokens \cup {None} : S!CloseRow(t, o, x)
        BY <2>1, UsageTokens DEF S!Completed, S!Errored, S!SendFails
      <3>2. PICK rec \in S!Records, l \in {"errors", "count"} :
              job' = [job EXCEPT ![t] = [op |-> l, rec |-> rec]]
        BY <3>1, TypesClose
      <3>3. [op |-> l, rec |-> rec] # None  BY <1>0, JobMade
      <3> QED BY <1>2, <3>0, <3>2, <3>3
    <2>2. CASE S!EstimateUsage(t) \/ S!Chunk(t) \/ S!StreamEnds(t) \/ S!Observe(t)
      <3>0. job[t] = None
        BY <2>2 DEF S!EstimateUsage, S!Chunk, S!StreamEnds, S!Observe, S!Idle
      <3>1. PICK x : job' = [job EXCEPT ![t] = [op |-> "usage", tokens |-> x]]
        BY <1>4, <2>2 DEF S!EstimateUsage, S!Chunk, S!StreamEnds, S!Observe, S!Begin
      <3>2. CASE [op |-> "usage", tokens |-> x] = None
        <4>1. job' = job  BY <1>0, <3>0, <3>1, <3>2
        <4> QED BY <1>4, <4>1
      <3> QED BY <1>2, <3>0, <3>1, <3>2
    <2> QED BY <1>4, <2>1, <2>2
          DEF S!Serve, S!Started, S!RouteDecided, S!Post, S!Respond, S!Deliver, S!Abandon, S!ObserverEnds
  <1> QED BY <1>3, <1>4

LEMMA MergeRetold ==
  ASSUME BookConstants, BookTypes, NEW t \in S!Tasks, S!MergeRecent(t)
  PROVE  \/ S!Finished' = S!Finished /\ job' = [job EXCEPT ![t] = None]
         \/ \E l \in DOMAIN S!Finished :
              /\ S!Finished[l].id = S!Req(t) /\ job[t].tokens \in S!Tokens
              /\ Retold(S!Finished, l, job[t].tokens, S!Finished')
              /\ job' = [job EXCEPT ![t] =
                   [op |-> "adjust", old |-> S!Count(S!Finished[l].tokens), new |-> job[t].tokens]]
  <1>1. CASE \A i \in DOMAIN recent : recent[i].id # S!Req(t)
    <2>1. \A i \in 1 .. Len(recent) : recent[i].id # S!Req(t)  BY <1>1, FinishedTypes
    <2> QED BY <2>1, FinishedMerge, FinishedSame
  <1>2. CASE \E i \in DOMAIN recent : recent[i].id = S!Req(t)
    <2>1. PICK l \in 1 .. Len(recent) :
              /\ recent[l].id = S!Req(t)
              /\ recent' = [recent EXCEPT ![l] = [recent[l] EXCEPT !.tokens = job[t].tokens]]
              /\ forgotten' = forgotten /\ job[t].tokens \in S!Tokens
              /\ job' = [job EXCEPT ![t] =
                   [op |-> "adjust", old |-> S!Count(recent[l].tokens), new |-> job[t].tokens]]
      BY <1>2, FinishedMerge
    <2>2. PICK s, s1, x : s = S!Finished /\ s1 = S!Finished' /\ x = job[t].tokens  OBVIOUS
    <2>3. BookTypes'  BY TypesApply DEF S!Apply
    <2>4. /\ Len(s1) = Len(forgotten') + Len(recent') /\ DOMAIN s1 = 1 .. Len(s1)
          /\ \A i \in 1 .. Len(forgotten') : s1[i] = forgotten'[i]
          /\ \A i \in 1 .. Len(recent') : s1[Len(forgotten') + i] = recent'[i]
      <3>1. Joined(S!Records, forgotten', recent', s1)  BY <2>2, <2>3, FinishedNext
      <3> QED BY <3>1 DEF Joined
    <2>5. /\ Len(s) = Len(forgotten) + Len(recent) /\ DOMAIN s = 1 .. Len(s)
          /\ \A i \in 1 .. Len(forgotten) : s[i] = forgotten[i]
          /\ \A i \in 1 .. Len(recent) : s[Len(forgotten) + i] = recent[i] /\ recent[i] \in S!Records
          /\ Len(recent) \in Nat /\ Len(forgotten) \in Nat /\ DOMAIN recent = 1 .. Len(recent)
      BY <2>2, FinishedTypes
    <2>6. recent \in Seq(S!Records)  BY DEF BookTypes
    <2>7. /\ Len(recent') = Len(recent) /\ recent'[l] = [recent[l] EXCEPT !.tokens = x]
          /\ \A i \in 1 .. Len(recent) : i # l => recent'[i] = recent[i]
      BY <2>1, <2>2, <2>5, <2>6
    <2>8. PICK n : n = Len(forgotten) + l  OBVIOUS
    <2>9. n \in DOMAIN s /\ s[n] = recent[l] /\ s1[n] = [s[n] EXCEPT !.tokens = x]
      BY <2>1, <2>4, <2>5, <2>7, <2>8
    <2>10. DOMAIN s1 = DOMAIN s /\ Len(s1) = Len(s)  BY <2>1, <2>4, <2>5, <2>7
    <2>11. ASSUME NEW i \in DOMAIN s, i # n PROVE s1[i] = s[i]
      <3>1. CASE i \in 1 .. Len(forgotten)  BY <2>1, <2>4, <2>5, <3>1
      <3>2. CASE i \notin 1 .. Len(forgotten)
        <4>1. i - Len(forgotten) \in 1 .. Len(recent) /\ Len(forgotten) + (i - Len(forgotten)) = i
                /\ i - Len(forgotten) # l
          BY <2>5, <2>8, <2>11, <3>2
        <4>2. s[i] = recent[i - Len(forgotten)]  BY <2>5, <4>1
        <4>3. s1[i] = recent'[i - Len(forgotten)]  BY <2>1, <2>4, <2>7, <4>1
        <4> QED BY <2>7, <4>1, <4>2, <4>3
      <3> QED BY <3>1, <3>2
    <2>12. Retold(s, n, x, s1)  BY <2>9, <2>10, <2>11 DEF Retold
    <2> QED BY <2>1, <2>2, <2>9, <2>12
  <1> QED BY <1>1, <1>2

LEMMA LateAlone ==
  ASSUME BookConstants, BookTypes, RequestsInv, NEW t \in S!Tasks, NEW u \in S!Tasks,
         Op(t) \in {"late", "adjust"}, Op(u) \in {"late", "adjust"}, S!Req(t) = S!Req(u)
  PROVE  t = u
  <1>1. PICK r \in Requests : r = S!Req(t)  BY RequestTasks
  <1>2. PICK m, h : m = <<"main", r>> /\ h = <<"helper", r>>  OBVIOUS
  <1>3. t \in {m, h} /\ u \in {m, h}  BY <1>1, <1>2, RequestTasks
  <1>4. Rows(kind[r], task[m], task[h], Op(m), Op(h), Open(r))
    BY <1>2 DEF RequestsInv, RequestInv
  <1>5. ~(Op(m) \in {"late", "adjust"} /\ Op(h) \in {"late", "adjust"})  BY <1>4 DEF Rows
  <1> QED BY <1>3, <1>5

TotalsInv == Working(job) /\ S!TotalsMatchRecords /\ Places(S!Finished, job)

(* What a step does to the books: nothing, or one of four updates.         *)
LEMMA BooksUpdates ==
  ASSUME BookConstants, BookTypes, NEW t \in S!Tasks,
         S!Apply(t) \/ S!Serve(t) \/ S!Observe(t) \/ S!ObserverEnds(t)
  PROVE  \/ /\ S!Finished' = S!Finished /\ totals'.tokens = totals.tokens
            /\ totals'.completed = totals.completed /\ totals'.local = totals.local
            /\ job' = job \/ (Op(t) \notin {"push", "adjust"} /\ Op(t)' \notin {"push", "adjust"})
         \/ S!CountTotals(t) \/ S!Push(t) \/ S!Adjust(t)
         \/ /\ totals' = totals /\ Op(t) = "late" /\ Op(t)' = "adjust"
            /\ \E l \in DOMAIN S!Finished :
                 /\ S!Finished[l].id = S!Req(t) /\ job[t].tokens \in S!Tokens
                 /\ Retold(S!Finished, l, job[t].tokens, S!Finished')
                 /\ job'[t] = [op |-> "adjust", old |-> S!Count(S!Finished[l].tokens),
                               new |-> job[t].tokens]
  <1>0. S!Req(t) \in Requests /\ job \in [S!Tasks -> S!Jobs \cup {None}] /\ None \notin S!Jobs
    BY TaskParts DEF BookTypes, BookConstants
  <1>1. CASE S!Apply(t)
    <2>1. CASE S!ApplyUsage(t)
      <3>1. Op(t) = "usage" /\ totals' = totals /\ S!Finished' = S!Finished
        BY <2>1, FinishedSame DEF S!ApplyUsage, Op
      <3>2. Op(t)' \in {"none", "late"}
        <4>1. Applies(Op(t), Open(S!Req(t)), Op(t)', Open(S!Req(t))')  BY <1>0, <1>1, FlatApply
        <4> QED BY <3>1, <4>1 DEF Applies
      <3> QED BY <3>1, <3>2
    <2>2. CASE S!CountError(t)
      <3>1. /\ Op(t) = "errors" /\ totals' = [totals EXCEPT !.errored = totals.errored + 1]
            /\ S!Finished' = S!Finished
        BY <2>2, FinishedSame DEF S!CountError, Op
      <3>2. Op(t)' = "count"
        <4>1. Applies(Op(t), Open(S!Req(t)), Op(t)', Open(S!Req(t))')  BY <1>0, <1>1, FlatApply
        <4> QED BY <3>1, <4>1 DEF Applies
      <3>3. /\ totals'.tokens = totals.tokens /\ totals'.completed = totals.completed
            /\ totals'.local = totals.local
        <4>1. totals \in Total  BY DEF BookTypes
        <4> QED BY <3>1, <4>1 DEF Total
      <3> QED BY <3>1, <3>2, <3>3
    <2>3. CASE S!MergeRecent(t)
      <3>1. totals' = totals /\ Op(t) = "late"  BY <2>3 DEF S!MergeRecent, Op
      <3>2. CASE S!Finished' = S!Finished /\ job' = [job EXCEPT ![t] = None]
        <4>1. Op(t)' = "none"  BY <1>0, <3>2 DEF Op
        <4> QED BY <3>1, <3>2, <4>1
      <3>3. CASE ~(S!Finished' = S!Finished /\ job' = [job EXCEPT ![t] = None])
        <4>1. PICK l \in DOMAIN S!Finished :
                /\ S!Finished[l].id = S!Req(t) /\ job[t].tokens \in S!Tokens
                /\ Retold(S!Finished, l, job[t].tokens, S!Finished')
                /\ job' = [job EXCEPT ![t] =
                     [op |-> "adjust", old |-> S!Count(S!Finished[l].tokens), new |-> job[t].tokens]]
          BY <2>3, <3>3, MergeRetold
        <4>2. job'[t] = [op |-> "adjust", old |-> S!Count(S!Finished[l].tokens), new |-> job[t].tokens]
          BY <1>0, <4>1
        <4>3. job'[t] # None
          <5>1. S!Finished[l] \in S!Records  BY <4>1, FinishedTypes
          <5>2. S!Count(S!Finished[l].tokens) \in Nat  BY <5>1, CountIsNat
          <5>3. job[t].tokens \in Nat  BY <4>1, UsageTokens
          <5>4. job'[t] \in S!Jobs  BY <4>2, <5>2, <5>3, JobMade
          <5> QED BY <1>0, <5>4
        <4>4. job'[t].op = "adjust"  BY <4>2
        <4>5. Op(t)' = "adjust"  BY <4>3, <4>4 DEF Op
        <4> QED BY <3>1, <4>1, <4>2, <4>5
      <3> QED BY <3>2, <3>3
    <2> QED BY <1>1, <2>1, <2>2, <2>3 DEF S!Apply
  <1>2. CASE ~S!Apply(t)
    <2>1. UNCHANGED <<recent, forgotten>> /\ totals' = totals
      BY <1>0, <1>2 DEF S!Serve, S!Started, S!RouteDecided, S!EstimateUsage, S!Post, S!Respond,
         S!SendFails, S!Deliver, S!Abandon, S!Chunk, S!StreamEnds, S!Completed, S!Errored,
         S!Observe, S!ObserverEnds, S!CloseRow, S!storeVars
    <2>2. S!Finished' = S!Finished  BY <2>1, FinishedSame
    <2>3. job' = job \/ (Op(t) \notin {"push", "adjust"} /\ Op(t)' \notin {"push", "adjust"})
      BY <1>2, Begins
    <2> QED BY <2>1, <2>2, <2>3
  <1> QED BY <1>1, <1>2

LEMMA WorkingStep ==
  ASSUME BookConstants, BookTypes, Working(job), NEW t \in S!Tasks,
         S!Apply(t) \/ S!Serve(t) \/ S!Observe(t) \/ S!ObserverEnds(t)
  PROVE  Working(job') /\ \A u \in S!Tasks \ {t} : job'[u] = job[u]
  <1>1. job' \in [S!Tasks -> S!Jobs \cup {None}]
    BY TypesApply, TypesServe DEF BookTypes
  <1>2. \A u \in S!Tasks \ {t} : job'[u] = job[u]
    <2>1. S!Req(t) \in Requests  BY TaskParts
    <2> QED BY <2>1, FlatApply, OtherRequests
  <1>3. IsFiniteSet({u \in S!Tasks : job'[u] # None})
    <2>1. PICK B : B = {u \in S!Tasks : job[u] # None}  OBVIOUS
    <2>2. IsFiniteSet(B \cup {t})  BY <2>1, FS_AddElement DEF Working
    <2>3. {u \in S!Tasks : job'[u] # None} \in SUBSET (B \cup {t})  BY <1>2, <2>1
    <2> QED BY <2>2, <2>3, FS_Subset
  <1> QED BY <1>1, <1>2, <1>3 DEF Working

LEMMA TotalsStep ==
  ASSUME BookConstants, BookTypes, RequestsInv, TotalsInv, S!Next
  PROVE  TotalsInv'
  <1>0. PICK t \in S!Tasks : S!Apply(t) \/ S!Serve(t) \/ S!Observe(t) \/ S!ObserverEnds(t)
    BY DEF S!Next
  <1>1. PICK J, K, F, F1, T, T1, o, o1 :
          /\ J = job /\ K = job' /\ F = S!Finished /\ F1 = S!Finished' /\ T = totals /\ T1 = totals'
          /\ o = Op(t) /\ o1 = Op(t)'
    OBVIOUS
  <1>2. /\ Working(J) /\ Working(K) /\ \A u \in S!Tasks \ {t} : K[u] = J[u]
    BY <1>0, <1>1, WorkingStep DEF TotalsInv
  <1>3. Balanced(T, F, J) /\ Places(F, J)  BY <1>1, BalancedIs DEF TotalsInv
  <1>4. Listed(F) /\ Listed(F1)
    <2>1. Listed(F)  BY <1>1, FinishedTypes DEF Listed
    <2>2. BookTypes'  BY <1>0, TypesApply, TypesServe
    <2>3. Joined(S!Records, forgotten', recent', S!Finished')  BY <2>2, FinishedNext
    <2>4. Listed(F1)  BY <1>1, <2>3 DEF Joined, Listed
    <2> QED BY <2>1, <2>4
  <1>5. /\ t \in AtOf(J, "push") <=> o = "push"
        /\ t \in AtOf(J, "adjust") <=> o = "adjust"
        /\ t \in AtOf(K, "push") <=> o1 = "push"
        /\ t \in AtOf(K, "adjust") <=> o1 = "adjust"
    BY <1>1, OpAt DEF Ops
  <1>6. Alone(J)
    <2>1. ASSUME NEW u \in AtOf(J, "adjust"), NEW v \in AtOf(J, "adjust"), S!Req(u) = S!Req(v)
          PROVE  u = v
      <3>1. u \in S!Tasks /\ v \in S!Tasks  BY DEF AtOf
      <3>2. Op(u) = "adjust" /\ Op(v) = "adjust"  BY <1>1, <3>1, OpAt DEF Ops
      <3> QED BY <2>1, <3>1, <3>2, LateAlone
    <2> QED BY <2>1 DEF Alone
  <1>7. T \in Total /\ T.tokens \in Nat /\ T.completed \in Nat /\ T.local \in Nat
    BY <1>1, TotalParts DEF BookTypes
  <1>8. SUFFICES Balanced(T1, F1, K) /\ Places(F1, K)
    <2>1. Balanced(T1, F1, K) => S!TotalsMatchRecords'  BY <1>1, BalancedNext
    <2> QED BY <1>1, <1>2, <2>1 DEF TotalsInv
  <1>9. CASE /\ F1 = F /\ T1.tokens = T.tokens /\ T1.completed = T.completed /\ T1.local = T.local
             /\ K = J \/ (o \notin {"push", "adjust"} /\ o1 \notin {"push", "adjust"})
    <2>1. CASE K = J  BY <1>3, <1>9, <2>1 DEF Balanced
    <2>2. CASE K # J
      <3>1. /\ Underway(K) = Underway(J) /\ AtOf(K, "push") = AtOf(J, "push")
            /\ LocalAt(K) = LocalAt(J)
        BY <1>2, <1>5, <1>9, <2>2, PushSame
      <3>2. Owed(K) = Owed(J) /\ AtOf(K, "adjust") = AtOf(J, "adjust")
        BY <1>2, <1>5, <1>9, <2>2, AdjustSame
      <3>3. Places(F1, K)
        <4>1. \A u \in AtOf(K, "adjust") : K[u] = J[u]  BY <1>2, <1>5, <1>9, <2>2 DEF AtOf
        <4> QED BY <1>3, <1>9, <3>2, <4>1 DEF Places
      <3> QED BY <1>3, <1>9, <3>1, <3>2, <3>3 DEF Balanced
    <2> QED BY <2>1, <2>2
  <1>10. CASE S!CountTotals(t)
    <2>1. /\ o = "count" /\ o1 = "push" /\ F1 = F
          /\ K = [J EXCEPT ![t] = [J[t] EXCEPT !.op = "push"]]
          /\ T1 = [T EXCEPT !.completed = T.completed + 1,
                            !.local  = T.local + (IF J[t].rec.target = "local" THEN 1 ELSE 0),
                            !.remote = T.remote + (IF J[t].rec.target \in {None, "local"} THEN 0 ELSE 1),
                            !.tokens = T.tokens + S!Count(J[t].rec.tokens)]
      <3>1. S!Apply(t) /\ S!Req(t) \in Requests  BY <1>10, TaskParts DEF S!Apply
      <3>2. Applies(Op(t), Open(S!Req(t)), Op(t)', Open(S!Req(t))')  BY <3>1, FlatApply
      <3>3. o = "count"  BY <1>1, <1>10 DEF S!CountTotals, Op
      <3>4. o1 = "push"  BY <1>1, <3>2, <3>3 DEF Applies
      <3>5. F1 = F  BY <1>1, <1>10, FinishedSame DEF S!CountTotals
      <3>6. /\ K = [J EXCEPT ![t] = [J[t] EXCEPT !.op = "push"]]
            /\ T1 = [T EXCEPT !.completed = T.completed + 1,
                            !.local  = T.local + (IF J[t].rec.target = "local" THEN 1 ELSE 0),
                            !.remote = T.remote + (IF J[t].rec.target \in {None, "local"} THEN 0 ELSE 1),
                            !.tokens = T.tokens + S!Count(J[t].rec.tokens)]
        BY <1>1, <1>10 DEF S!CountTotals, S!Begin
      <3> QED BY <3>3, <3>4, <3>5, <3>6
    <2>2. K[t].rec = J[t].rec
      <3>1. J \in [S!Tasks -> S!Jobs \cup {None}]  BY <1>2 DEF Working
      <3>2. J[t] # None /\ J[t].op = "count"  BY <1>1, <1>10 DEF S!CountTotals
      <3>3. [J[t] EXCEPT !.op = "push"].rec = J[t].rec  BY <3>1, <3>2 DEF S!Jobs
      <3> QED BY <2>1, <3>1, <3>3
    <2>3. /\ Underway(K) = Underway(J) + S!Count(K[t].rec.tokens)
          /\ Cardinality(AtOf(K, "push")) = Cardinality(AtOf(J, "push")) + 1
          /\ Cardinality(LocalAt(K)) = Cardinality(LocalAt(J)) + IF K[t].rec.target = "local" THEN 1 ELSE 0
      <3>1. t \notin AtOf(J, "push") /\ t \in AtOf(K, "push")  BY <1>5, <2>1
      <3> QED BY <1>2, <3>1, PushStarts
    <2>4. Owed(K) = Owed(J) /\ AtOf(K, "adjust") = AtOf(J, "adjust")
      BY <1>2, <1>5, <2>1, AdjustSame
    <2>5. Places(F1, K)
      <3>1. \A u \in AtOf(K, "adjust") : K[u] = J[u]  BY <1>2, <1>5, <2>1 DEF AtOf
      <3> QED BY <1>3, <2>1, <2>4, <3>1 DEF Places
    <2>6. PICK c, d : c = S!Count(J[t].rec.tokens) /\ d = IF J[t].rec.target = "local" THEN 1 ELSE 0
      OBVIOUS
    <2>7. T1.completed = T.completed + 1 /\ T1.local = T.local + d /\ T1.tokens = T.tokens + c
      BY <1>7, <2>1, <2>6 DEF Total
    <2>8. c \in Nat /\ d \in Nat
      <3>1. K[t].rec \in S!Records  BY <1>2, <1>5, <2>1, WorkingParts
      <3> QED BY <2>2, <2>6, <3>1, CountIsNat
    <2>9. Underway(J) \in Nat /\ Owed(J) \in Int /\ Cardinality(AtOf(J, "push")) \in Nat
            /\ Cardinality(LocalAt(J)) \in Nat
      BY <1>2, WorkingParts
    <2>10. Recorded(F) \in Nat /\ Cardinality(LocalIn(F)) \in Nat /\ Len(F) \in Nat
      BY <1>4, ListedParts DEF Listed
    <2>11. T1.tokens = Recorded(F1) + Underway(K) - Owed(K)
      BY <1>3, <2>1, <2>2, <2>3, <2>4, <2>6, <2>7, <2>8, <2>9, <2>10 DEF Balanced
    <2>12. T1.completed = Len(F1) + Cardinality(AtOf(K, "push"))
      BY <1>3, <2>1, <2>3, <2>7, <2>9, <2>10 DEF Balanced
    <2>13. T1.local = Cardinality(LocalIn(F1)) + Cardinality(LocalAt(K))
      BY <1>3, <2>1, <2>2, <2>3, <2>6, <2>7, <2>8, <2>9, <2>10 DEF Balanced
    <2> QED BY <2>5, <2>11, <2>12, <2>13 DEF Balanced
  <1>11. CASE S!Push(t)
    <2>1. /\ o = "push" /\ J[t].rec \in S!Records /\ Appended(F, J[t].rec, F1)
          /\ K = [J EXCEPT ![t] = None] /\ T1 = T
      BY <1>1, <1>11, FinishedPush DEF Op
    <2>2. o1 = "none"
      <3>1. K[t] = None  BY <1>2, <2>1 DEF Working
      <3> QED BY <1>1, <3>1 DEF Op
    <2>3. /\ Underway(J) = Underway(K) + S!Count(J[t].rec.tokens)
          /\ Cardinality(AtOf(J, "push")) = Cardinality(AtOf(K, "push")) + 1
          /\ Cardinality(LocalAt(J)) = Cardinality(LocalAt(K)) + IF J[t].rec.target = "local" THEN 1 ELSE 0
      <3>1. \A u \in S!Tasks \ {t} : J[u] = K[u]  BY <1>2
      <3>2. t \in AtOf(J, "push") /\ t \notin AtOf(K, "push")  BY <1>5, <2>1, <2>2
      <3> QED BY <1>2, <3>1, <3>2, PushStarts
    <2>4. Owed(K) = Owed(J) /\ AtOf(K, "adjust") = AtOf(J, "adjust")
      BY <1>2, <1>5, <2>1, <2>2, AdjustSame
    <2>5. /\ Recorded(F1) = Recorded(F) + S!Count(J[t].rec.tokens) /\ Len(F1) = Len(F) + 1
          /\ Cardinality(LocalIn(F1)) = Cardinality(LocalIn(F)) + IF J[t].rec.target = "local" THEN 1 ELSE 0
      BY <1>4, <2>1, RecordAdded
    <2>6. Places(F1, K)
      <3>1. \A u \in AtOf(K, "adjust") : K[u] = J[u]  BY <1>2, <1>5, <2>2 DEF AtOf
      <3>2. DOMAIN F \subseteq DOMAIN F1 /\ \A i \in DOMAIN F : F1[i] = F[i]
        BY <1>4, <2>1 DEF Appended, Listed
      <3> QED BY <1>3, <2>4, <3>1, <3>2 DEF Places
    <2>7. PICK c, d : c = S!Count(J[t].rec.tokens) /\ d = IF J[t].rec.target = "local" THEN 1 ELSE 0
      OBVIOUS
    <2>8. c \in Nat /\ d \in Nat  BY <2>1, <2>7, CountIsNat
    <2>9. Underway(K) \in Nat /\ Owed(J) \in Int /\ Cardinality(AtOf(K, "push")) \in Nat
            /\ Cardinality(LocalAt(K)) \in Nat
      BY <1>2, WorkingParts
    <2>10. Recorded(F) \in Nat /\ Cardinality(LocalIn(F)) \in Nat /\ Len(F) \in Nat
      BY <1>4, ListedParts DEF Listed
    <2>11. T1.tokens = Recorded(F1) + Underway(K) - Owed(K)
      BY <1>3, <2>1, <2>3, <2>4, <2>5, <2>7, <2>8, <2>9, <2>10 DEF Balanced
    <2>12. T1.completed = Len(F1) + Cardinality(AtOf(K, "push"))
      BY <1>3, <2>1, <2>3, <2>5, <2>9, <2>10 DEF Balanced
    <2>13. T1.local = Cardinality(LocalIn(F1)) + Cardinality(LocalAt(K))
      BY <1>3, <2>1, <2>3, <2>5, <2>7, <2>8, <2>9, <2>10 DEF Balanced
    <2> QED BY <2>6, <2>11, <2>12, <2>13 DEF Balanced
  <1>12. CASE S!Adjust(t)
    <2>1. /\ o = "adjust" /\ F1 = F /\ K = [J EXCEPT ![t] = None]
          /\ T1 = [T EXCEPT !.tokens = S!AdjustTotal(T.tokens, J[t].old, J[t].new)]
      BY <1>1, <1>12, FinishedSame DEF S!Adjust, S!End, Op
    <2>2. o1 = "none"
      <3>1. K[t] = None  BY <1>2, <2>1 DEF Working
      <3> QED BY <1>1, <3>1 DEF Op
    <2>3. /\ Underway(K) = Underway(J) /\ AtOf(K, "push") = AtOf(J, "push")
          /\ LocalAt(K) = LocalAt(J)
      BY <1>2, <1>5, <2>1, <2>2, PushSame
    <2>4. Owed(J) = Owed(K) + (J[t].new - J[t].old)
      <3>1. \A u \in S!Tasks \ {t} : J[u] = K[u]  BY <1>2
      <3>2. t \in AtOf(J, "adjust") /\ t \notin AtOf(K, "adjust")  BY <1>5, <2>1, <2>2
      <3> QED BY <1>2, <3>1, <3>2, AdjustStarts
    <2>5. \A u \in AtOf(K, "adjust") : u \in AtOf(J, "adjust") /\ K[u] = J[u]
      BY <1>2, <1>5, <2>2 DEF AtOf
    <2>6. Places(F, K) /\ Alone(K)
      BY <1>3, <1>6, <2>5 DEF Places, Alone
    <2>7. Owed(K) <= Recorded(F)  BY <1>2, <1>4, <2>6, OwedIsRecorded
    <2>8. J[t].new \in Nat /\ J[t].old \in Nat  BY <1>2, <1>5, <2>1, WorkingParts
    <2>9. Underway(J) \in Nat /\ Owed(J) \in Int /\ Owed(K) \in Int
      BY <1>2, WorkingParts
    <2>10. Recorded(F) \in Nat  BY <1>4, ListedParts
    <2>11. T.tokens + J[t].new - J[t].old = Recorded(F) + Underway(K) - Owed(K)
      <3>1. PICK a, b, c, d, e, f, g : /\ a = T.tokens /\ b = Recorded(F) /\ c = Underway(J)
                                       /\ d = Owed(J) /\ e = Owed(K) /\ f = J[t].new /\ g = J[t].old
        OBVIOUS
      <3>2. a = b + c - d /\ d = e + (f - g)  BY <1>3, <2>4, <3>1 DEF Balanced
      <3>3. a \in Nat /\ b \in Nat /\ c \in Nat /\ d \in Int /\ e \in Int /\ f \in Nat /\ g \in Nat
        BY <1>7, <2>8, <2>9, <2>10, <3>1
      <3>4. a + f - g = b + c - e  BY <3>2, <3>3
      <3> QED BY <2>3, <3>1, <3>4
    <2>12. S!AdjustTotal(T.tokens, J[t].old, J[t].new) = Recorded(F) + Underway(K) - Owed(K)
      BY <1>7, <2>3, <2>7, <2>8, <2>9, <2>10, <2>11 DEF S!AdjustTotal
    <2>13. T1.tokens = Recorded(F) + Underway(K) - Owed(K) /\ T1.completed = T.completed
             /\ T1.local = T.local
      BY <1>7, <2>1, <2>12 DEF Total
    <2> QED BY <1>3, <2>1, <2>3, <2>6, <2>13 DEF Balanced
  <1>13. CASE /\ T1 = T /\ o = "late" /\ o1 = "adjust"
              /\ \E l \in DOMAIN F :
                   /\ F[l].id = S!Req(t) /\ J[t].tokens \in S!Tokens
                   /\ Retold(F, l, J[t].tokens, F1)
                   /\ K[t] = [op |-> "adjust", old |-> S!Count(F[l].tokens), new |-> J[t].tokens]
    <2>1. PICK l \in DOMAIN F, x \in S!Tokens :
            /\ F[l].id = S!Req(t) /\ Retold(F, l, x, F1)
            /\ K[t].old = S!Count(F[l].tokens) /\ K[t].new = x
      BY <1>13
    <2>2. /\ Underway(K) = Underway(J) /\ AtOf(K, "push") = AtOf(J, "push")
          /\ LocalAt(K) = LocalAt(J)
      BY <1>2, <1>5, <1>13, PushSame
    <2>3. Owed(K) = Owed(J) + (K[t].new - K[t].old)
      BY <1>2, <1>5, <1>13, AdjustStarts
    <2>4. /\ Recorded(F1) = Recorded(F) - S!Count(F[l].tokens) + x
          /\ Len(F1) = Len(F) /\ LocalIn(F1) = LocalIn(F)
          /\ F1[l].id = F[l].id /\ F1[l].tokens = x /\ S!Count(x) = x
      BY <1>4, <2>1, RecordRetold
    <2>5. Places(F1, K)
      <3>1. ASSUME NEW u \in AtOf(K, "adjust")
            PROVE  \E i \in DOMAIN F1 : F1[i].id = S!Req(u) /\ S!Count(F1[i].tokens) = K[u].new
        <4>1. CASE u = t
          BY <2>1, <2>4, <4>1 DEF Retold
        <4>2. CASE u # t
          <5>1. u \in S!Tasks /\ u \in AtOf(J, "adjust") /\ K[u] = J[u]
            BY <1>2, <4>2 DEF AtOf
          <5>2. PICK i \in DOMAIN F : F[i].id = S!Req(u) /\ S!Count(F[i].tokens) = J[u].new
            BY <1>3, <5>1 DEF Places
          <5>3. Op(u) = "adjust"  BY <1>1, <5>1, OpAt DEF Ops
          <5>4. S!Req(u) # S!Req(t)
            BY <1>1, <1>13, <4>2, <5>1, <5>3, LateAlone
          <5>5. i # l  BY <2>1, <5>2, <5>4
          <5>6. i \in DOMAIN F1 /\ F1[i] = F[i]  BY <2>1, <5>5 DEF Retold
          <5> QED BY <5>1, <5>2, <5>6
        <4> QED BY <4>1, <4>2
      <3> QED BY <3>1 DEF Places
    <2>6. x \in Nat /\ S!Count(F[l].tokens) \in Nat
      <3>1. F[l] \in S!Records  BY <1>4, <2>1 DEF Listed
      <3> QED BY <3>1, UsageTokens, CountIsNat
    <2>7. Underway(J) \in Nat /\ Owed(J) \in Int /\ Recorded(F) \in Nat
      BY <1>2, <1>4, WorkingParts, ListedParts
    <2>8. T1.tokens = Recorded(F1) + Underway(K) - Owed(K)
      BY <1>3, <1>13, <2>1, <2>2, <2>3, <2>4, <2>6, <2>7 DEF Balanced
    <2> QED BY <1>3, <1>13, <2>2, <2>4, <2>5, <2>8 DEF Balanced
  <1> QED BY <1>0, <1>1, <1>9, <1>10, <1>11, <1>12, <1>13, BooksUpdates

LEMMA TotalsInit == ASSUME BookConstants, S!Init PROVE TotalsInv
  <1>0. BookTypes  BY TypesInit
  <1>1. {t \in S!Tasks : job[t] # None} = {}  BY DEF S!Init
  <1>2. Working(job)  BY <1>0, <1>1, FS_EmptySet DEF Working, BookTypes
  <1>3. \A op : AtOf(job, op) = {}  BY <1>1 DEF AtOf
  <1>4. S!Finished = <<>>  BY DEF S!Init, S!Finished
  <1>5. Places(S!Finished, job)  BY <1>3 DEF Places
  <1>6. Underway(job) = 0 /\ Owed(job) = 0  BY <1>3, SumOfNone DEF Underway, Owed
  <1>7. Recorded(S!Finished) = 0
    <2>1. DOMAIN S!Finished = {}  BY <1>4
    <2> QED BY <2>1, SumOfNone DEF Recorded
  <1>8. LocalIn(S!Finished) = {} /\ LocalAt(job) = {}  BY <1>3, <1>4 DEF LocalIn, LocalAt
  <1>9. totals.tokens = 0 /\ totals.completed = 0 /\ totals.local = 0  BY DEF S!Init
  <1>10. Cardinality({}) = 0 /\ Len(S!Finished) = 0  BY <1>4, FS_EmptySet
  <1>11. Balanced(totals, S!Finished, job)
    <2>1. totals.tokens = Recorded(S!Finished) + Underway(job) - Owed(job)
      BY <1>6, <1>7, <1>9
    <2>2. totals.completed = Len(S!Finished) + Cardinality(AtOf(job, "push"))
      BY <1>3, <1>9, <1>10
    <2>3. totals.local = Cardinality(LocalIn(S!Finished)) + Cardinality(LocalAt(job))
      BY <1>8, <1>9, <1>10
    <2> QED BY <2>1, <2>2, <2>3 DEF Balanced
  <1> QED BY <1>2, <1>5, <1>11, BalancedIs DEF TotalsInv

-----------------------------------------------------------------------------
(* All of it is inductive together.                                        *)
BooksInv == BookTypes /\ RequestsInv /\ ObservedInv /\ TotalsInv

LEMMA BooksInit == ASSUME BookConstants, S!Init PROVE BooksInv
  BY TypesInit, RequestsInit, ObservedInit, TotalsInit DEF BooksInv

LEMMA BooksStep == ASSUME BookConstants, BooksInv, [DaemonNext]_allVars PROVE BooksInv'
  <1>1. CASE S!Next
    <2>1. BookTypes'  BY TypesStep DEF BooksInv
    <2>2. RequestsInv'  BY <1>1, RequestsStep DEF BooksInv
    <2>3. ObservedInv'  BY <1>1, ObservedStep DEF BooksInv
    <2>4. TotalsInv'  BY <1>1, TotalsStep DEF BooksInv
    <2> QED BY <2>1, <2>2, <2>3, <2>4 DEF BooksInv
  <1>2. CASE UNCHANGED metricsVars
    <2>1. /\ kind' = kind /\ task' = task /\ job' = job /\ chunk' = chunk /\ queue' = queue
          /\ cut' = cut /\ abandoned' = abandoned /\ active' = active /\ recent' = recent
          /\ forgotten' = forgotten /\ totals' = totals
      BY <1>2 DEF metricsVars
    <2>2. BookTypes'  BY TypesStep DEF BooksInv
    <2>3. (\A t : Op(t)' = Op(t)) /\ (\A r : Open(r)' = Open(r) /\ Gone(r)' = Gone(r) /\ Cut(r)' = Cut(r))
            /\ S!Finished' = S!Finished /\ S!Final' = S!Final
      BY <2>1 DEF Op, Open, Gone, Cut, S!Finished, S!Final
    <2>4. \A r : Mine(r)' = Mine(r)  BY <2>3 DEF Mine
    <2>5. RecordsNamed'  BY <2>1, <2>3 DEF BooksInv, RequestsInv, RecordsNamed
    <2>6. ASSUME NEW r \in Requests
          PROVE  /\ RequestInv(r, <<"main", r>>, <<"helper", r>>)'
                 /\ Followed(r, <<"main", r>>, <<"helper", r>>)'
                 /\ Kept(r, <<"main", r>>, <<"helper", r>>)'
      <3>1. PICK m, h : m = <<"main", r>> /\ h = <<"helper", r>>  OBVIOUS
      <3>2. RequestInv(r, m, h) /\ Followed(r, m, h) /\ Kept(r, m, h)
        BY <3>1 DEF BooksInv, RequestsInv, ObservedInv
      <3>3. RequestInv(r, m, h)'  BY <2>1, <2>4, <3>2, RequestUnmoved
      <3>4. Followed(r, m, h)'  BY <2>1, <2>3, <3>2 DEF Followed
      <3>5. Kept(r, m, h)'  BY <2>1, <2>3, <3>2 DEF Kept
      <3> QED BY <3>1, <3>3, <3>4, <3>5
    <2>7. RequestsInv' /\ ObservedInv'  BY <2>5, <2>6 DEF RequestsInv, ObservedInv
    <2>8. TotalsInv'
      <3>1. Balanced(totals', S!Finished', job')
        BY <2>1, <2>3, BalancedIs DEF BooksInv, TotalsInv
      <3>2. S!TotalsMatchRecords'  BY <3>1, BalancedNext
      <3> QED BY <2>1, <2>3, <3>2 DEF BooksInv, TotalsInv
    <2> QED BY <2>2, <2>7, <2>8 DEF BooksInv
  <1> QED BY <1>1, <1>2 DEF DaemonNext, allVars

(* For any number of requests of any kind, any response and any capacity,  *)
(* whatever order the tasks take the locks in: the totals are those of the *)
(* finished records up to the updates under way, every request that one    *)
(* task reports at a time has one record and its row does not come back, a *)
(* request whose tasks have ended has closed its row, and what a record of *)
(* a completed answer ends up with is the last usage reported, unless the  *)
(* observer lost track or the body could not be decoded.                   *)
THEOREM BooksAlwaysAgree == DaemonSpec => []BooksAgree
  <1>1. DaemonInit => BooksInv  BY BookAssumption, BooksInit DEF DaemonInit
  <1>2. BooksInv /\ [DaemonNext]_allVars => BooksInv'  BY BookAssumption, BooksStep
  <1>3. BooksInv => BooksAgree
    <2> SUFFICES ASSUME BooksInv PROVE BooksAgree
      OBVIOUS
    <2>1. S!CountedOnce /\ S!RowsClosed  BY BookAssumption, RequestsCounted DEF BooksInv
    <2>2. S!FinalUsageKept  BY BookAssumption, ObservedKeeps DEF BooksInv
    <2>3. S!TotalsMatchRecords  BY DEF BooksInv, TotalsInv
    <2> QED BY <2>1, <2>2, <2>3 DEF BooksAgree
  <1> QED BY <1>1, <1>2, <1>3, PTL DEF DaemonSpec
=============================================================================
