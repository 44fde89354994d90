-------------------------- MODULE ModelServing_proofs --------------------------
(***************************************************************************)
(* What holds of ModelServing for any number of clients and revisions, any *)
(* history of the file, any number of chunks, attempts and operations: an  *)
(* orderly end of the daemon takes llama-server along, only the whole      *)
(* pinned release is started, and there is always an inode for a new       *)
(* temporary file.  While operations on the cache do not overlap, links    *)
(* lead to files, a download that ends has the whole file, and so has what *)
(* a verified look-up returns.                                             *)
(***************************************************************************)
EXTENDS ModelServing, FiniteSetTheorems, SequenceTheorems, WellFoundedInduction, TLAPS

-----------------------------------------------------------------------------
(* The daemon.                                                             *)

Early == {"resolve", "install", "unpack", "copy", "mark", "spawn"}

(* Nothing to stop and nobody to stop it before the spawn.                 *)
QuietBeforeSpawn == at \in Early => child = "none" /\ lock = None /\ handler = "off"

(* A release is recorded after its binary, and only a recorded one runs.   *)
Recorded ==
  /\ version = Tag => binary = Tag
  /\ at \in {"unpack", "copy", "mark"} => version # Tag
  /\ at = "mark" => binary = Tag
  /\ at \notin (Early \ {"spawn"}) \cup {"exited"} \/ child # "none" => version = Tag

(* The child is in the slot, or with the holder of the mutex.              *)
ChildIsHeld ==
  /\ slot \in BOOLEAN /\ taken \in BOOLEAN
  /\ lock # None => ~slot
  /\ L!ChildUp /\ at # "exited" => slot \/ (taken /\ lock # None)

DInv == QuietBeforeSpawn /\ Recorded /\ ChildIsHeld /\ OrderlyExitStopsChild

LEMMA DaemonInit == ServingInit => DInv
  BY LlamaAssumption
  DEF ServingInit, L!Init, DInv, QuietBeforeSpawn, Recorded, ChildIsHeld, Early,
      L!ChildUp, OrderlyExitStopsChild, L!OrderlyExitStopsChild

LEMMA DaemonStays == DInv /\ UNCHANGED daemonVars => DInv'
  BY DEF daemonVars, DInv, QuietBeforeSpawn, Recorded, ChildIsHeld, L!ChildUp,
         OrderlyExitStopsChild, L!OrderlyExitStopsChild, L!Exits, L!Returns

(* From the resolved model to the recorded runtime.                        *)
LEMMA InstallInv ==
  ASSUME DInv,
         L!Resolved \/ L!NotResolved \/ L!Installed \/ L!Download \/ L!Unpack
           \/ L!Copied \/ L!Mark \/ L!SpawnFails
  PROVE  DInv'
<1> USE LlamaAssumption
    DEF DInv, QuietBeforeSpawn, Recorded, ChildIsHeld, Early, L!ChildUp,
        OrderlyExitStopsChild, L!OrderlyExitStopsChild, L!To, L!Exit,
        L!stopVars, L!installVars
<1>1. CASE L!Resolved    BY <1>1 DEF L!Resolved
<1>2. CASE L!NotResolved BY <1>2 DEF L!NotResolved
<1>3. CASE L!Installed   BY <1>3 DEF L!Installed
<1>4. CASE L!Download    BY <1>4 DEF L!Download
<1>5. CASE L!Unpack      BY <1>5 DEF L!Unpack
<1>6. CASE L!Copied      BY <1>6 DEF L!Copied
<1>7. CASE L!Mark        BY <1>7 DEF L!Mark
<1>8. CASE L!SpawnFails  BY <1>8 DEF L!SpawnFails
<1>9. QED BY <1>1, <1>2, <1>3, <1>4, <1>5, <1>6, <1>7, <1>8

(* From the spawn to the end of a service.                                 *)
LEMMA ServeInv ==
  ASSUME DInv,
         L!Spawn(Present(job[Daemon].rev)) \/ L!Arm \/ L!Healthy \/ L!Unhealthy
           \/ L!Configure \/ L!ServiceEnds \/ L!Watch \/ L!Signal
  PROVE  DInv'
<1> USE LlamaAssumption
    DEF DInv, QuietBeforeSpawn, Recorded, ChildIsHeld, Early, L!ChildUp,
        OrderlyExitStopsChild, L!OrderlyExitStopsChild, L!To, L!Exit,
        L!Exits, L!Returns, L!stopVars, L!installVars
<1>1. CASE L!Spawn(Present(job[Daemon].rev)) BY <1>1 DEF L!Spawn
<1>2. CASE L!Arm         BY <1>2 DEF L!Arm
<1>3. CASE L!Healthy     BY <1>3 DEF L!Healthy
<1>4. CASE L!Unhealthy   BY <1>4 DEF L!Unhealthy
<1>5. CASE L!Configure   BY <1>5 DEF L!Configure
<1>6. CASE L!ServiceEnds BY <1>6 DEF L!ServiceEnds
<1>7. CASE L!Watch       BY <1>7 DEF L!Watch
<1>8. CASE L!Signal      BY <1>8 DEF L!Signal, L!Running
<1>9. QED BY <1>1, <1>2, <1>3, <1>4, <1>5, <1>6, <1>7, <1>8

(* Both ways to stop the child, and the child itself.                      *)
LEMMA StopInv ==
  ASSUME DInv,
         \/ \E w \in {"main", "handler"} : L!TakeChild(w) \/ L!KillChild(w)
         \/ L!ChildLoads \/ L!ChildStalls \/ L!ChildEnds
  PROVE  DInv'
<1> USE LlamaAssumption
    DEF DInv, QuietBeforeSpawn, Recorded, ChildIsHeld, Early, L!ChildUp,
        OrderlyExitStopsChild, L!OrderlyExitStopsChild,
        L!Exits, L!Returns, L!stopVars, L!installVars
<1>1. ASSUME NEW w \in {"main", "handler"}, L!TakeChild(w) PROVE DInv'
  BY <1>1 DEF L!TakeChild, L!Wants, L!Running
<1>2. ASSUME NEW w \in {"main", "handler"}, L!KillChild(w) PROVE DInv'
  BY <1>2 DEF L!KillChild, L!Wants, L!Running, L!Leave
<1>3. CASE L!ChildLoads  BY <1>3 DEF L!ChildLoads
<1>4. CASE L!ChildStalls BY <1>4 DEF L!ChildStalls
<1>5. CASE L!ChildEnds   BY <1>5 DEF L!ChildEnds
<1>6. QED BY <1>1, <1>2, <1>3, <1>4, <1>5

LEMMA DaemonInv == DInv /\ [Next]_vars => DInv'
<1> SUFFICES ASSUME DInv, [Next]_vars PROVE DInv' OBVIOUS
<1>1. CASE \E c \in Clients : Other(c) BY <1>1, DaemonStays DEF Other
<1>2. CASE Fetch      BY <1>2, DaemonStays DEF Fetch
<1>3. CASE Fetched    BY <1>3, InstallInv DEF Fetched
<1>4. CASE NotFetched BY <1>4, InstallInv DEF NotFetched
<1>5. CASE Spawn      BY <1>5, ServeInv DEF Spawn
<1>6. CASE Signal     BY <1>6, ServeInv DEF Signal
<1>7. CASE Llama
  BY <1>7, InstallInv, ServeInv, StopInv DEF Llama, L!Main, L!Handler
<1>8. CASE UNCHANGED vars BY <1>8, DaemonStays DEF vars
<1>9. QED
  BY <1>1, <1>2, <1>3, <1>4, <1>5, <1>6, <1>7, <1>8 DEF Next

(* An orderly end of the daemon leaves no llama-server behind.             *)
THEOREM EndsWithChild == Spec => []OrderlyExitStopsChild
<1>1. DInv => OrderlyExitStopsChild BY DEF DInv
<1>2. QED BY <1>1, DaemonInit, DaemonInv, PTL DEF Spec

(* Only the whole pinned release is recorded and started.                  *)
THEOREM StartsPinned == Spec => []RuntimeIsPinned
<1>1. DInv => RuntimeIsPinned BY DEF DInv, Recorded, RuntimeIsPinned, L!RuntimeIsPinned
<1>2. QED BY <1>1, DaemonInit, DaemonInv, PTL DEF Spec

-----------------------------------------------------------------------------
(* The cache.  Operations that do not overlap leave every link on a file:  *)
(* the blob is there before its link, and goes after the last one.         *)

JobsAreRecords ==
  /\ DOMAIN job = Clients
  /\ \A c \in Clients : DOMAIN job[c] = DOMAIN Blank

OneIsBusy == \A c, d \in Clients : Busy(c) /\ Busy(d) => c = d

(* A link is only made to a blob.                                          *)
DigestIsBlob ==
  \A c \in Clients :
    job[c].pc \in {"unclaim", "unlink", "link"} => job[c].digest \in DOMAIN blob

LInv ==
  /\ JobsAreRecords
  /\ OneIsBusy
  /\ DOMAIN snap = Commits
  /\ DigestIsBlob
  /\ LinksResolve

(* Only the job of a client changes in its step.                           *)
Alone(c) ==
  /\ JobsAreRecords'
  /\ \A d \in Clients \ {c} : job'[d] = job[d]

LEMMA BecomesAlone ==
  ASSUME JobsAreRecords, NEW c \in Clients, NEW r, DOMAIN r = DOMAIN Blank,
         Becomes(c, r)
  PROVE  Alone(c) /\ job'[c] = r
  BY DEF JobsAreRecords, Becomes, Alone

LEMMA GotoAlone ==
  ASSUME JobsAreRecords, NEW c \in Clients, NEW label, Goto(c, label)
  PROVE  Alone(c) /\ job'[c].pc = label /\ job'[c].digest = job[c].digest
  BY DEF JobsAreRecords, Goto, Alone, Blank

LEMMA RestAlone ==
  ASSUME JobsAreRecords, NEW c \in Clients, NEW label, Rest(c, label)
  PROVE  Alone(c) /\ job'[c].pc = label
<1> DEFINE r == [Blank EXCEPT !.pc = label,
                              !.op  = IF c = Daemon THEN job[c].op ELSE @,
                              !.rev = IF c = Daemon THEN job[c].rev ELSE @]
<1>1. DOMAIN r = DOMAIN Blank /\ r.pc = label
  BY DEF Blank
<1>2. Becomes(c, r)
  BY DEF Rest
<1> HIDE DEF r
<1>3. QED BY <1>1, <1>2, BecomesAlone

Publishing == {"unclaim", "unlink", "link"}

(* A step that leaves the links and the names of the blobs alone.          *)
LEMMA CalmInv ==
  ASSUME LInv, NEW c \in Clients, Alone(c), Busy(c) \/ job'[c].pc \in Resting,
         DOMAIN blob' = DOMAIN blob, UNCHANGED snap,
         job'[c].pc \in Publishing => job'[c].digest \in DOMAIN blob
  PROVE  LInv'
<1>1. OneIsBusy'
  BY DEF LInv, OneIsBusy, Busy, Alone
<1>2. DigestIsBlob'
  <2> SUFFICES ASSUME NEW d \in Clients, job'[d].pc \in Publishing
               PROVE  job'[d].digest \in DOMAIN blob'
    BY DEF DigestIsBlob, Publishing
  <2>1. CASE d = c BY <2>1
  <2>2. CASE d # c BY <2>2 DEF LInv, DigestIsBlob, Publishing, Alone
  <2>3. QED BY <2>1, <2>2
<1>3. LinksResolve' /\ DOMAIN snap' = Commits
  BY DEF LInv, LinksResolve, Present
<1>4. QED BY <1>1, <1>2, <1>3 DEF LInv, Alone

LEMMA KilledInv ==
  ASSUME LInv, NEW c \in Clients, Killed(c)
  PROVE  LInv'
<1>1. Alone(c) /\ job'[c].pc = "idle"
  BY RestAlone DEF LInv, Killed
<1>2. QED BY <1>1, CalmInv DEF Killed, Publishing, Resting

LEMMA BeginInv ==
  ASSUME Serial, LInv, NEW c \in Clients, Begin(c)
  PROVE  LInv'
<1>1. PICK o \in OpsOf(c), r \in Commits :
        Becomes(c, [Blank EXCEPT !.pc = "lookup", !.op = o, !.rev = r])
  BY DEF Begin
<1>2. Alone(c) /\ job'[c].pc = "lookup"
  <2> DEFINE x == [Blank EXCEPT !.pc = "lookup", !.op = o, !.rev = r]
  <2>1. DOMAIN x = DOMAIN Blank /\ x.pc = "lookup" BY DEF Blank
  <2>2. Becomes(c, x) BY <1>1
  <2> HIDE DEF x
  <2>3. QED BY <2>1, <2>2, BecomesAlone DEF LInv
<1>3. \A d \in Clients : ~Busy(d) /\ UNCHANGED <<blob, snap>>
  BY DEF Begin
<1>4. OneIsBusy' BY <1>2, <1>3 DEF OneIsBusy, Busy, Alone
<1>5. DigestIsBlob'
  BY <1>2, <1>3 DEF LInv, DigestIsBlob, Alone
<1>6. LinksResolve' /\ DOMAIN snap' = Commits
  BY <1>3 DEF LInv, LinksResolve, Present
<1>7. QED BY <1>2, <1>4, <1>5, <1>6 DEF LInv, Alone

(* The look-up and the download.                                           *)
LEMMA GivenUpAlone ==
  ASSUME JobsAreRecords, NEW c \in Clients, NEW file,
         Retried(c, file) \/ GivenUp(c)
  PROVE  Alone(c) /\ job'[c].pc \in {"size", "failed"}
<1>1. CASE GivenUp(c) BY <1>1, RestAlone DEF GivenUp
<1>2. CASE ~GivenUp(c)
  BY <1>2 DEF Retried, Becomes, Alone, JobsAreRecords, Blank
<1>3. QED BY <1>1, <1>2 DEF Retried

LEMMA FetchInv ==
  ASSUME LInv, NEW c \in Clients,
         \/ LookUp(c) \/ ReadSidecar(c) \/ Claim(c) \/ Size(c)
         \/ RequestFails(c) \/ RangeFails(c) \/ Resume(c) \/ Start(c)
         \/ Read(c) \/ ReadFails(c) \/ ReadEnd(c) \/ Hash(c)
  PROVE  LInv'
<1> DEFINE Later == {"done", "failed", "rmSnap", "sidecar", "claim", "size",
                     "open", "read", "hash", "promote"}
<1> SUFFICES Busy(c) /\ Alone(c) /\ job'[c].pc \in Later /\ UNCHANGED <<blob, snap>>
  BY CalmInv DEF Publishing
<1> USE DEF LInv, Busy, At, Resting
<1>1. CASE LookUp(c)       BY <1>1, RestAlone, GotoAlone DEF LookUp
<1>2. CASE ReadSidecar(c)  BY <1>2, GotoAlone DEF ReadSidecar
<1>3. CASE Claim(c)        BY <1>3, GotoAlone DEF Claim
<1>4. CASE Size(c)         BY <1>4 DEF Size, Becomes, Alone, JobsAreRecords, Blank
<1>5. CASE RequestFails(c) BY <1>5, GivenUpAlone DEF RequestFails
<1>6. CASE RangeFails(c)   BY <1>6, GivenUpAlone DEF RangeFails
<1>7. CASE Resume(c)
  <2>1. CASE tmp = 0 BY <1>7, <2>1, GivenUpAlone DEF Resume
  <2>2. CASE tmp # 0
    BY <1>7, <2>2 DEF Resume, Becomes, Alone, JobsAreRecords, Blank
  <2>3. QED BY <2>1, <2>2
<1>8. CASE Start(c)        BY <1>8 DEF Start, Becomes, Alone, JobsAreRecords, Blank
<1>9. CASE Read(c)         BY <1>9 DEF Read, Alone, JobsAreRecords, Blank
<1>10. CASE ReadFails(c)   BY <1>10, GivenUpAlone DEF ReadFails
<1>11. CASE ReadEnd(c)     BY <1>11 DEF ReadEnd, Becomes, Alone, JobsAreRecords, Blank
<1>12. CASE Hash(c)
  <2>1. CASE tmp # 0 /\ Hashed(c)
    BY <1>12, <2>1 DEF Hash, Hashed, Becomes, Alone, JobsAreRecords, Blank
  <2>2. CASE Rest(c, "failed") BY <1>12, <2>2, RestAlone DEF Hash
  <2>3. QED BY <1>12, <2>1, <2>2 DEF Hash
<1>13. QED
  BY <1>1, <1>2, <1>3, <1>4, <1>5, <1>6, <1>7, <1>8, <1>9, <1>10, <1>11, <1>12

(* The publication and the removal.                                        *)
LEMMA PromoteInv ==
  ASSUME LInv, NEW c \in Clients, Promote(c)
  PROVE  LInv'
<1> DEFINE h == job[c].digest
<1>1. Busy(c) /\ UNCHANGED snap BY DEF Promote, At, Busy, Resting
<1>2. CASE Rest(c, "failed") /\ UNCHANGED blob
  BY <1>1, <1>2, RestAlone, CalmInv DEF LInv, Publishing
<1>3. CASE Goto(c, "unclaim") /\ DOMAIN blob' = DOMAIN blob \cup {h}
  <2>1. Alone(c) /\ job'[c].pc = "unclaim" /\ job'[c].digest = h
    BY <1>3, GotoAlone DEF LInv
  <2>2. OneIsBusy' BY <1>1, <2>1 DEF LInv, OneIsBusy, Busy, Alone
  <2>3. DigestIsBlob'
    <3> SUFFICES ASSUME NEW d \in Clients, job'[d].pc \in Publishing
                 PROVE  job'[d].digest \in DOMAIN blob'
      BY DEF DigestIsBlob, Publishing
    <3>1. CASE d = c BY <3>1, <1>3, <2>1
    <3>2. CASE d # c BY <3>2, <1>3, <2>1 DEF LInv, DigestIsBlob, Publishing, Alone
    <3>3. QED BY <3>1, <3>2
  <2>4. LinksResolve' /\ DOMAIN snap' = Commits
    BY <1>1, <1>3 DEF LInv, LinksResolve, Present
  <2>5. QED BY <2>1, <2>2, <2>3, <2>4 DEF LInv, Alone
<1>4. QED
  <2>1. CASE h \notin DOMAIN blob /\ tmp = 0 /\ Rest(c, "failed") /\ UNCHANGED blob
    BY <1>2, <2>1
  <2>2. CASE /\ h \notin DOMAIN blob /\ tmp # 0 /\ Goto(c, "unclaim")
             /\ blob' = [g \in DOMAIN blob \cup {h} |-> IF g = h THEN tmp ELSE blob[g]]
    BY <1>3, <2>2
  <2>3. CASE h \in DOMAIN blob /\ Goto(c, "unclaim") /\ UNCHANGED blob
    BY <1>3, <2>3
  <2>4. QED BY <2>1, <2>2, <2>3 DEF Promote

LEMMA PublishInv ==
  ASSUME LInv, NEW c \in Clients, Unclaim(c) \/ Unlink(c) \/ Link(c)
  PROVE  LInv'
<1>1. job[c].digest \in DOMAIN blob /\ Busy(c) /\ UNCHANGED blob
  BY DEF LInv, DigestIsBlob, Unclaim, Unlink, Link, At, Busy, Resting
<1>2. Alone(c) /\ (job'[c].pc \in Publishing => job'[c].digest = job[c].digest)
  BY GotoAlone, RestAlone DEF LInv, Unclaim, Unlink, Link, Publishing
<1>3. OneIsBusy' BY <1>1, <1>2 DEF LInv, OneIsBusy, Busy, Alone
<1>4. DigestIsBlob'
  <2> SUFFICES ASSUME NEW d \in Clients, job'[d].pc \in Publishing
               PROVE  job'[d].digest \in DOMAIN blob'
    BY DEF DigestIsBlob, Publishing
  <2>1. CASE d = c BY <2>1, <1>1, <1>2
  <2>2. CASE d # c BY <2>2, <1>1, <1>2 DEF LInv, DigestIsBlob, Publishing, Alone
  <2>3. QED BY <2>1, <2>2
<1>5. LinksResolve' /\ DOMAIN snap' = Commits
  BY <1>1 DEF LInv, LinksResolve, Present, Unclaim, Unlink, Link
<1>6. QED BY <1>2, <1>3, <1>4, <1>5 DEF LInv, Alone

LEMMA RemoveInv ==
  ASSUME LInv, NEW c \in Clients, RemoveSnapshot(c) \/ RemoveBlob(c)
  PROVE  LInv'
<1>1. Busy(c) /\ job[c].pc \in {"rmSnap", "rmBlob"}
  BY DEF RemoveSnapshot, RemoveBlob, At, Busy, Resting
<1>2. Alone(c) /\ job'[c].pc \in {"rmBlob", "done"}
  BY RestAlone
  DEF LInv, RemoveSnapshot, RemoveBlob, Becomes, Alone, JobsAreRecords, Blank
<1>3. OneIsBusy' BY <1>1, <1>2 DEF LInv, OneIsBusy, Busy, Alone
<1>4. DigestIsBlob'
  BY <1>1, <1>2 DEF LInv, DigestIsBlob, OneIsBusy, Busy, Resting, Alone
<1>5. LinksResolve' /\ DOMAIN snap' = Commits
  BY DEF LInv, LinksResolve, Present, RemoveSnapshot, RemoveBlob, WithoutBlob
<1>6. QED BY <1>2, <1>3, <1>4, <1>5 DEF LInv, Alone

LEMMA CacheInit == ServingInit => LInv
  BY DEF ServingInit, Init, LInv, JobsAreRecords, OneIsBusy, Busy, Resting,
         DigestIsBlob, LinksResolve, Present, Blank

LEMMA CacheStays == LInv /\ UNCHANGED cacheVars => LInv'
  BY DEF cacheVars, LInv, JobsAreRecords, OneIsBusy, Busy, DigestIsBlob,
         LinksResolve, Present

LEMMA ClientInv ==
  ASSUME Serial, LInv, NEW c \in Clients, Begin(c) \/ Work(c) \/ Crash(c)
  PROVE  LInv'
<1>1. CASE Begin(c) BY <1>1, BeginInv
<1>2. CASE Crash(c) BY <1>2, KilledInv DEF Crash
<1>3. CASE Work(c)
  BY <1>3, FetchInv, PromoteInv, PublishInv, RemoveInv DEF Work
<1>4. QED BY <1>1, <1>2, <1>3

LEMMA CacheInv == ASSUME Serial PROVE LInv /\ [Next]_vars => LInv'
<1> SUFFICES ASSUME LInv, [Next]_vars PROVE LInv' OBVIOUS
<1>1. CASE \E c \in Clients : Other(c) BY <1>1, ClientInv DEF Other
<1>2. CASE Fetch      BY <1>2, ClientInv, CacheAssumption DEF Fetch
<1>3. CASE Fetched \/ NotFetched \/ Spawn \/ Llama
  BY <1>3, CacheStays DEF Fetched, NotFetched, Spawn, Llama
<1>4. CASE Signal
  <2>1. CASE UNCHANGED cacheVars BY <2>1, CacheStays
  <2>2. CASE Killed(Daemon) BY <2>2, KilledInv, CacheAssumption
  <2>3. QED BY <1>4, <2>1, <2>2 DEF Signal
<1>5. CASE UNCHANGED vars BY <1>5, CacheStays DEF vars
<1>6. QED BY <1>1, <1>2, <1>3, <1>4, <1>5 DEF Next

(* While operations on the cache do not overlap, every link leads to a     *)
(* blob, wherever operations are killed.                                   *)
THEOREM LinksLead == ASSUME Serial PROVE Spec => []LinksResolve
<1>1. LInv => LinksResolve BY DEF LInv
<1>2. QED BY <1>1, CacheInit, CacheInv, PTL DEF Spec

-----------------------------------------------------------------------------
(* The types of the cache, with what it takes to keep them.                *)

(* A file is a sequence of pieces.                                         *)
Pieces   == {<<h[r], i>> : h \in Histories, r \in Commits, i \in 1 .. Chunks} \cup {Hole}
Contents == Seq(Pieces)
Jobs ==
  [pc : Pcs, op : Ops \cup {None}, rev : Commits \cup {None}, attempt : 0 .. MaxAttempts,
   seen : Nat, fd : Inodes \cup {0}, append : BOOLEAN, next : 0 .. Chunks + 1,
   digest : Contents]
Files == {Full(r) : r \in Commits}

CacheTypes ==
  /\ payload \in Histories
  /\ job \in [Clients -> Jobs]
  /\ begun \in 0 .. MaxBegun
  /\ data \in [Inodes -> Contents]
  /\ tmp \in Inodes \cup {0}
  /\ sidecar \in Commits \cup {None}
  /\ blob \in [DOMAIN blob -> Inodes] /\ DOMAIN blob \subseteq Contents
  /\ DOMAIN snap = Commits

(* A busy job knows what it works for; attempts are counted, and only one  *)
(* that reads has a descriptor.                                            *)
JobSound(c) ==
  /\ Busy(c) => job[c].op \in OpsOf(c) /\ job[c].rev \in Commits
  /\ job[c].pc \in {"lookup", "sidecar", "claim"} => job[c].attempt = 0
  /\ job[c].pc = "size" => job[c].attempt < MaxAttempts
  /\ job[c].pc = "read" => job[c].fd \in Inodes /\ job[c].next >= 1
  /\ job[c].fd # 0 => job[c].pc = "read"

(* What is published is the file of a revision, but for what one daemon    *)
(* took without a digest; it fetches once.                                 *)
PublishingPcs == {"promote", "unclaim", "unlink", "link"}
DigestSound(c) ==
  job[c].pc \in PublishingPcs /\ job[c].op # "serveAny" => job[c].digest \in Files
OneForeign ==
  \/ DOMAIN blob \subseteq Files
  \/ /\ \E d : DOMAIN blob \subseteq Files \cup {d}
     /\ at # "resolve" \/ job[Daemon].pc \in {"unclaim", "unlink", "link", "done", "failed"}

CInv ==
  /\ CacheTypes /\ OneForeign
  /\ \A c \in Clients : JobSound(c) /\ DigestSound(c)

(* While operations do not overlap, what is in the temporary file is the   *)
(* beginning of the file its sidecar names.                                *)
Beginning ==
  tmp # 0 =>
    /\ sidecar \in Commits /\ Len(data[tmp]) <= Chunks
    /\ \A i \in 1 .. Len(data[tmp]) : data[tmp][i] = <<payload[sidecar], i>>

Length == IF tmp = 0 THEN 0 ELSE Len(data[tmp])
Fits(c) ==
  /\ job[c].pc \in {"claim", "unclaim"} => tmp = 0
  /\ job[c].pc \in {"size", "open", "read", "hash"} => sidecar = job[c].rev
  /\ job[c].pc = "open" => job[c].seen = Length
  /\ job[c].pc = "read" => tmp # 0 /\ job[c].fd = tmp /\ job[c].next = Length + 1
  /\ job[c].pc = "hash" => tmp # 0 /\ Length = Chunks
  /\ job[c].pc = "promote" => tmp # 0 /\ job[c].digest = data[tmp]

(* A blob has the content that its name says, and nobody writes to it.     *)
BlobsWhole == \A h \in DOMAIN blob : data[blob[h]] = h /\ blob[h] # tmp

SInv == Beginning /\ BlobsWhole /\ \A c \in Clients : Fits(c)

-----------------------------------------------------------------------------
(* What the ways in which a job changes do to it.                          *)
Same(c) == \A d \in Clients \ {c} : job'[d] = job[d]
Typed   == job \in [Clients -> Jobs]

LEMMA EmptyContent == <<>> \in Contents
  BY DEF Contents

LEMMA BlankIsJob == Blank \in Jobs
  BY EmptyContent, CacheAssumption DEF Blank, Jobs, Pcs, Resting

LEMMA BecomesJob ==
  ASSUME Typed, NEW c \in Clients, NEW r \in Jobs, Becomes(c, r)
  PROVE  Typed' /\ Same(c) /\ job'[c] = r
  BY DEF Typed, Same, Becomes

LEMMA RestJob ==
  ASSUME Typed, NEW c \in Clients, NEW label \in Resting, Rest(c, label)
  PROVE  /\ Typed' /\ Same(c)
         /\ job'[c].pc = label /\ job'[c].attempt = 0 /\ job'[c].fd = 0
<1>1. PICK o : o = IF c = Daemon THEN job[c].op ELSE Blank.op  OBVIOUS
<1>2. PICK v : v = IF c = Daemon THEN job[c].rev ELSE Blank.rev  OBVIOUS
<1>3. o \in Ops \cup {None} /\ v \in Commits \cup {None}
  BY <1>1, <1>2 DEF Typed, Jobs, Blank
<1>4. PICK r : r = [Blank EXCEPT !.pc = label, !.op = o, !.rev = v]  OBVIOUS
<1>5. r \in Jobs /\ r.pc = label /\ r.attempt = 0 /\ r.fd = 0
  BY <1>3, <1>4, BlankIsJob DEF Jobs, Blank, Pcs
<1>6. Becomes(c, r)
  BY <1>1, <1>2, <1>4, BlankIsJob DEF Rest, Becomes, Blank
<1>7. QED BY <1>5, <1>6, BecomesJob

LEMMA GotoJob ==
  ASSUME Typed, NEW c \in Clients, NEW label \in Pcs, Goto(c, label)
  PROVE  /\ Typed' /\ Same(c)
         /\ job'[c] = [job[c] EXCEPT !.pc = label]
         /\ job'[c].pc = label
         /\ \A k \in {"op", "rev", "attempt", "seen", "fd", "append", "next", "digest"} :
              job'[c][k] = job[c][k]
<1>1. job[c] \in Jobs  BY DEF Typed
<1>2. PICK r : r = [job[c] EXCEPT !.pc = label]  OBVIOUS
<1>3. /\ r \in Jobs /\ r.pc = label
      /\ r.op = job[c].op /\ r.rev = job[c].rev /\ r.attempt = job[c].attempt
      /\ r.seen = job[c].seen /\ r.fd = job[c].fd /\ r.append = job[c].append
      /\ r.next = job[c].next /\ r.digest = job[c].digest
  BY <1>1, <1>2 DEF Jobs
<1>4. job' = [job EXCEPT ![c] = r]
  BY <1>2, Zenon DEF Goto
<1>5. Typed' /\ Same(c) /\ job'[c] = r
  BY <1>3, <1>4 DEF Typed, Same
<1>6. QED BY <1>2, <1>3, <1>5

-----------------------------------------------------------------------------
(* Contents.                                                               *)
LEMMA Numbers == {Chunks, MaxAttempts, MaxBegun} \subseteq Nat /\ Chunks >= 1 /\ MaxAttempts >= 1
  BY CacheAssumption

LEMMA FileIsContent ==
  ASSUME payload \in Histories, NEW r \in Commits
  PROVE  Full(r) \in Contents /\ Len(Full(r)) = Chunks /\ Full(r) # None
<1>1. Full(r) \in [1 .. Chunks -> Pieces]  BY DEF Full, Pieces
<1>2. Full(r) \in Contents /\ Len(Full(r)) = Chunks
  BY <1>1, Numbers DEF Contents
<1>3. Full(r) # None  BY CacheAssumption DEF Full
<1>4. QED BY <1>2, <1>3

LEMMA PieceOf ==
  ASSUME payload \in Histories, NEW r \in Commits, NEW i \in 1 .. Chunks
  PROVE  <<payload[r], i>> \in Pieces
  BY DEF Pieces

LEMMA WriteAtContent ==
  ASSUME NEW s \in Contents, NEW i \in 1 .. Chunks, NEW x \in Pieces
  PROVE  /\ WriteAt(s, i, x) \in Contents
         /\ i = Len(s) + 1 => WriteAt(s, i, x) = Append(s, x)
<1> DEFINE n == IF i > Len(s) THEN i ELSE Len(s)
           w == [j \in 1 .. n |-> IF j = i THEN x ELSE IF j <= Len(s) THEN s[j] ELSE Hole]
<1>1. Len(s) \in Nat /\ (\A j \in 1 .. Len(s) : s[j] \in Pieces) /\ Hole \in Pieces
  BY DEF Contents, Pieces
<1>2. i \in Nat  BY Numbers
<1>3. n \in Nat  BY <1>1, <1>2
<1>4. w \in [1 .. n -> Pieces]  BY <1>1, <1>2
<1>5. WriteAt(s, i, x) = w  BY DEF WriteAt
<1>6. w \in Seq(Pieces) /\ Len(w) = n  BY <1>3, <1>4
<1>7. ASSUME i = Len(s) + 1 PROVE w = Append(s, x)
  <2>1. s \in Seq(Pieces)  BY DEF Contents
  <2>2. Append(s, x) \in Seq(Pieces) /\ Len(Append(s, x)) = Len(s) + 1
    BY <2>1
  <2>3. n = Len(s) + 1  BY <1>1, <1>7
  <2>4. \A j \in 1 .. Len(s) + 1 : Append(s, x)[j] = w[j]
    BY <1>1, <1>7, <2>1, <2>3
  <2>5. QED BY <1>6, <2>2, <2>3, <2>4, SeqEqual
<1>8. QED BY <1>5, <1>6, <1>7 DEF Contents

-----------------------------------------------------------------------------
(* There is an inode for a new file.                                       *)
LEMMA ImageIsSmall ==
  ASSUME NEW S, IsFiniteSet(S), NEW f, DOMAIN f = S, NEW T, T = {f[x] : x \in S}
  PROVE  IsFiniteSet(T) /\ Cardinality(T) <= Cardinality(S)
<1>1. PICK g : g = [x \in S |-> f[x]]  OBVIOUS
<1>2. g \in [S -> T]  BY <1>1
<1>3. \A y \in T : \E x \in S : g[x] = y  BY <1>1
<1>4. g \in Surjection(S, T)  BY <1>2, <1>3 DEF Surjection
<1>5. QED BY <1>4, FS_Surjection

LEMMA LeastNumber ==
  ASSUME NEW S \in SUBSET Nat, S # {}
  PROVE  \E m \in S : \A j \in S : m <= j
<1>1. PICK m \in S : \A j \in S : ~(<<j, m>> \in OpToRel(<, Nat))
  BY NatLessThanWellFounded, WFMin
<1>2. \A j \in S : ~(j < m)
  BY <1>1 DEF OpToRel
<1>3. QED BY <1>2

LEMMA InodesCounted ==
  /\ Cardinality(Clients) \in Nat /\ Cardinality(Clients) >= 1
  /\ Cardinality(Commits) \in Nat
  /\ Inodes \subseteq Nat \ {0}
  /\ IsFiniteSet(Inodes)
  /\ Cardinality(Inodes) = 2 * Cardinality(Clients) + Cardinality(Commits) + 1
<1>1. Cardinality(Clients) \in Nat /\ Cardinality(Commits) \in Nat
  BY CacheAssumption, FS_CardinalityType
<1>2. Cardinality(Clients) # 0
  BY CacheAssumption, FS_EmptySet
<1>3. PICK n \in Nat : n = 2 * Cardinality(Clients) + Cardinality(Commits) + 1
  BY <1>1
<1>4. Inodes = 1 .. n  BY <1>3 DEF Inodes
<1>5. IsFiniteSet(1 .. n) /\ Cardinality(1 .. n) = n
  BY <1>1, <1>3, FS_Interval
<1>6. QED BY <1>1, <1>2, <1>3, <1>4, <1>5

LEMMA BlobsCounted ==
  ASSUME DOMAIN blob \subseteq Files \/ \E d : DOMAIN blob \subseteq Files \cup {d},
         NEW B, B = {blob[h] : h \in DOMAIN blob}
  PROVE  IsFiniteSet(B) /\ Cardinality(B) <= Cardinality(Commits) + 1
<1>1. PICK f : f = [r \in Commits |-> Full(r)]  OBVIOUS
<1>2. DOMAIN f = Commits /\ Files = {f[r] : r \in Commits}  BY <1>1 DEF Files
<1>3. IsFiniteSet(Files) /\ Cardinality(Files) <= Cardinality(Commits)
  BY <1>2, CacheAssumption, ImageIsSmall
<1>4. PICK d : DOMAIN blob \subseteq Files \cup {d}  OBVIOUS
<1>5. /\ IsFiniteSet(Files \cup {d})
      /\ Cardinality(Files \cup {d}) = IF d \in Files THEN Cardinality(Files) ELSE Cardinality(Files) + 1
  BY <1>3, FS_AddElement
<1>6. /\ Cardinality(Files) \in Nat /\ Cardinality(Files \cup {d}) \in Nat
  BY <1>3, <1>5, FS_CardinalityType
<1>7. IsFiniteSet(DOMAIN blob) /\ Cardinality(DOMAIN blob) <= Cardinality(Files \cup {d})
  BY <1>4, <1>5, FS_Subset
<1>8. IsFiniteSet(B) /\ Cardinality(B) <= Cardinality(DOMAIN blob)
  BY <1>7, ImageIsSmall
<1>9. Cardinality(DOMAIN blob) \in Nat /\ Cardinality(B) \in Nat
  BY <1>7, <1>8, FS_CardinalityType
<1>10. QED BY <1>3, <1>5, <1>6, <1>7, <1>8, <1>9, InodesCounted

LEMMA FreshInode ==
  ASSUME CacheTypes, OneForeign, NEW c \in Clients, job[c].fd = 0, tmp = 0
  PROVE  NewInode \in Inodes \ Used
<1>1. PICK B : B = {blob[h] : h \in DOMAIN blob}  OBVIOUS
<1>2. PICK f : f = [d \in Clients \ {c} |-> job[d].fd]  OBVIOUS
<1>3. PICK K : K = {f[d] : d \in Clients \ {c}}  OBVIOUS
<1>4. IsFiniteSet(B) /\ Cardinality(B) <= Cardinality(Commits) + 1
  BY <1>1, BlobsCounted DEF OneForeign
<1>5. /\ IsFiniteSet(Clients \ {c})
      /\ Cardinality(Clients \ {c}) = Cardinality(Clients) - 1
  BY CacheAssumption, FS_RemoveElement
<1>6. IsFiniteSet(K) /\ Cardinality(K) <= Cardinality(Clients) - 1
  BY <1>2, <1>3, <1>5, ImageIsSmall
<1>7. /\ IsFiniteSet(B \cup K)
      /\ Cardinality(B \cup K) = Cardinality(B) + Cardinality(K) - Cardinality(B \cap K)
  BY <1>4, <1>6, FS_Union
<1>8. /\ Cardinality(B) \in Nat /\ Cardinality(K) \in Nat
      /\ Cardinality(B \cap K) \in Nat
  BY <1>4, <1>6, FS_CardinalityType, FS_Subset
<1>9. Inodes \ Used # {}
  <2> SUFFICES ASSUME Inodes \subseteq Used PROVE FALSE  OBVIOUS
  <2>1. Inodes \subseteq B \cup K
    BY <1>1, <1>2, <1>3, InodesCounted DEF Used
  <2>2. Cardinality(Inodes) <= Cardinality(B \cup K)
    BY <1>7, <2>1, FS_Subset
  <2>3. QED BY <1>4, <1>6, <1>7, <1>8, <2>2, InodesCounted
<1>10. Inodes \ Used \subseteq Nat  BY InodesCounted
<1>11. \E i \in Inodes \ Used : \A j \in Inodes \ Used : i <= j
  BY <1>9, <1>10, LeastNumber
<1>12. QED BY <1>11 DEF NewInode

-----------------------------------------------------------------------------
(* Every step of a job keeps the types and leaves the other jobs alone.    *)
Sound(c) == CacheTypes /\ JobSound(c) /\ DigestSound(c)
Steps(c) == Sound(c)' /\ Same(c) /\ UNCHANGED payload

LEMMA ReclaimTyped ==
  ASSUME data \in [Inodes -> Contents], Reclaim
  PROVE  data' \in [Inodes -> Contents]
  BY EmptyContent DEF Reclaim

LEMMA SoundBusy ==
  ASSUME NEW c \in Clients, Sound(c), Busy(c)
  PROVE  /\ Typed /\ job[c] \in Jobs /\ payload \in Histories
         /\ job[c].rev \in Commits /\ job[c].op \in OpsOf(c)
  BY CacheAssumption DEF Sound, CacheTypes, Typed, JobSound, OpsOf

(* A job that goes on or ends, and changes nothing but types that stay.    *)
LEMMA GoesOn ==
  ASSUME NEW c \in Clients, Sound(c), Busy(c), NEW label \in Pcs, Goto(c, label),
         label # "lookup", label \in {"sidecar", "claim"} => job[c].pc \in {"lookup", "sidecar", "claim"},
         label = "size" => job[c].pc \in {"sidecar", "claim"},
         job[c].pc # "read" /\ label # "read",
         label \in PublishingPcs /\ job[c].op # "serveAny" => job[c].digest \in Files,
         UNCHANGED payload
  PROVE  Typed' /\ Same(c) /\ JobSound(c)' /\ DigestSound(c)' /\ job'[c].pc = label
<1>1. /\ Typed' /\ Same(c) /\ job'[c].pc = label
      /\ job'[c].op = job[c].op /\ job'[c].rev = job[c].rev
      /\ job'[c].attempt = job[c].attempt /\ job'[c].fd = job[c].fd
      /\ job'[c].next = job[c].next /\ job'[c].digest = job[c].digest
  BY SoundBusy, GotoJob
<1>2. job[c].rev \in Commits /\ job[c].op \in OpsOf(c)  BY SoundBusy
<1>3. JobSound(c)'
  BY <1>1, <1>2, Numbers DEF Sound, JobSound, Busy, OpsOf
<1>4. DigestSound(c)'
  BY <1>1 DEF DigestSound, Files, Full
<1>5. QED BY <1>1, <1>3, <1>4

LEMMA Rests ==
  ASSUME NEW c \in Clients, Sound(c), NEW label \in Resting, Rest(c, label)
  PROVE  Typed' /\ Same(c) /\ JobSound(c)' /\ DigestSound(c)' /\ job'[c].pc = label
<1>1. Typed' /\ Same(c) /\ job'[c].pc = label /\ job'[c].attempt = 0 /\ job'[c].fd = 0
  BY RestJob DEF Sound, CacheTypes, Typed
<1>2. QED
  BY <1>1 DEF JobSound, DigestSound, Busy, Resting, PublishingPcs

LEMMA Retries ==
  ASSUME NEW c \in Clients, Sound(c), Busy(c), job[c].pc \in {"open", "read"},
         NEW file \in Inodes \cup {0}, Retried(c, file) \/ GivenUp(c)
  PROVE  /\ Typed' /\ Same(c) /\ JobSound(c)' /\ DigestSound(c)'
         /\ tmp' \in {file, 0}
         /\ \/ job'[c].pc = "failed" /\ tmp' = 0
            \/ job'[c].pc = "size" /\ job'[c].rev = job[c].rev /\ tmp' = file
<1>1. CASE GivenUp(c)
  BY <1>1, Rests DEF GivenUp, Resting
<1>2. CASE ~GivenUp(c)
  <2>1. PICK r : r = [job[c] EXCEPT !.pc = "size", !.seen = 0, !.fd = 0,
                                    !.append = FALSE, !.next = 0]
    OBVIOUS
  <2>2. job[c] \in Jobs  BY SoundBusy
  <2>3. /\ r \in Jobs /\ r.pc = "size" /\ r.fd = 0 /\ r.attempt = job[c].attempt
        /\ r.op = job[c].op /\ r.rev = job[c].rev
    <3>1. r.pc = "size" /\ r.fd = 0 /\ r.seen = 0 /\ r.next = 0 /\ r.append = FALSE
      BY <2>1, <2>2 DEF Jobs
    <3>2. /\ r.op = job[c].op /\ r.rev = job[c].rev
          /\ r.attempt = job[c].attempt /\ r.digest = job[c].digest
      BY <2>1, <2>2 DEF Jobs
    <3>3. r \in Jobs
      <4>1. PICK a : a = [job[c] EXCEPT !.append = FALSE]  OBVIOUS
      <4>2. a \in Jobs  BY <2>2, <4>1 DEF Jobs
      <4>3. r = [a EXCEPT !.pc = "size", !.seen = 0, !.fd = 0, !.next = 0]
        BY <2>1, <2>2, <4>1 DEF Jobs
      <4>4. PICK b : b = [a EXCEPT !.pc = "size"]  OBVIOUS
      <4>5. b \in Jobs  BY <4>2, <4>4 DEF Jobs, Pcs
      <4>6. PICK d : d = [b EXCEPT !.seen = 0, !.fd = 0]  OBVIOUS
      <4>7. d \in Jobs  BY <4>5, <4>6 DEF Jobs
      <4>8. r = [d EXCEPT !.next = 0]  BY <4>2, <4>3, <4>4, <4>6 DEF Jobs
      <4>9. QED BY <4>7, <4>8, Numbers DEF Jobs
    <3>4. QED BY <3>1, <3>2, <3>3
  <2>4. Becomes(c, r) /\ tmp' = file /\ ~(job[c].attempt >= MaxAttempts)
    BY <1>2, <2>1, Zenon DEF Retried
  <2>5. Typed' /\ Same(c) /\ job'[c] = r
    BY <2>3, <2>4, BecomesJob, SoundBusy
  <2>6. JobSound(c)' /\ DigestSound(c)'
    BY <2>2, <2>3, <2>4, <2>5, SoundBusy, Numbers
    DEF JobSound, DigestSound, PublishingPcs, Jobs, OpsOf
  <2>7. QED BY <2>3, <2>4, <2>5, <2>6
<1>3. QED BY <1>1, <1>2

(* The look-up and the sidecar.                                            *)
LEMMA LookUpTyped ==
  ASSUME NEW c \in Clients, Sound(c), LookUp(c) \/ ReadSidecar(c) \/ Claim(c)
  PROVE  Steps(c) /\ UNCHANGED blob
         /\ job'[c].pc \in {"done", "failed", "rmSnap", "sidecar", "claim", "size"}
<1>1. Busy(c)  BY DEF LookUp, ReadSidecar, Claim, At, Busy, Resting
<1>2. CASE LookUp(c)
  <2>1. /\ job[c].pc = "lookup"
        /\ UNCHANGED <<payload, begun, data, tmp, sidecar, blob, snap>>
    BY <1>2 DEF LookUp, At
  <2>2. \/ \E l \in {"done", "failed"} : Rest(c, l)
        \/ \E l \in {"rmSnap", "sidecar"} : Goto(c, l)
    BY <1>2, Zenon DEF LookUp
  <2>3. /\ Typed' /\ Same(c) /\ JobSound(c)' /\ DigestSound(c)'
        /\ job'[c].pc \in {"done", "failed", "rmSnap", "sidecar"}
    <3>1. ASSUME NEW l \in {"done", "failed"}, Rest(c, l)
          PROVE  /\ Typed' /\ Same(c) /\ JobSound(c)' /\ DigestSound(c)' /\ job'[c].pc = l
      BY <3>1, Rests DEF Resting
    <3>2. ASSUME NEW l \in {"rmSnap", "sidecar"}, Goto(c, l)
          PROVE  /\ Typed' /\ Same(c) /\ JobSound(c)' /\ DigestSound(c)' /\ job'[c].pc = l
      <4>1. l \in Pcs /\ l \notin PublishingPcs  BY DEF Pcs, PublishingPcs
      <4>2. QED BY <1>1, <2>1, <3>2, <4>1, GoesOn
    <3>3. QED BY <2>2, <3>1, <3>2
  <2>4. QED BY <2>1, <2>3 DEF Steps, Sound, CacheTypes, Typed
<1>3. CASE ReadSidecar(c)
  <2>1. PICK l \in {"size", "claim"} : Goto(c, l)  BY <1>3 DEF ReadSidecar
  <2>2. /\ job[c].pc = "sidecar" /\ tmp' \in {tmp, 0} /\ Reclaim
        /\ UNCHANGED <<payload, begun, sidecar, blob, snap>>
    BY <1>3 DEF ReadSidecar, At
  <2>3. l \in Pcs /\ l \notin PublishingPcs  BY DEF Pcs, PublishingPcs
  <2>4. /\ Typed' /\ Same(c) /\ JobSound(c)' /\ DigestSound(c)' /\ job'[c].pc = l
    BY <1>1, <2>1, <2>2, <2>3, GoesOn
  <2>5. data' \in [Inodes -> Contents]
    BY <2>2, ReclaimTyped DEF Sound, CacheTypes
  <2>6. QED BY <2>2, <2>4, <2>5 DEF Steps, Sound, CacheTypes, Typed
<1>4. CASE Claim(c)
  <2>1. /\ job[c].pc = "claim" /\ Goto(c, "size") /\ sidecar' = job[c].rev
        /\ UNCHANGED <<payload, begun, data, tmp, blob, snap>>
    BY <1>4 DEF Claim, At
  <2>2. "size" \in Pcs /\ "size" \notin PublishingPcs  BY DEF Pcs, PublishingPcs
  <2>3. /\ Typed' /\ Same(c) /\ JobSound(c)' /\ DigestSound(c)' /\ job'[c].pc = "size"
    BY <1>1, <2>1, <2>2, GoesOn
  <2>4. job[c].rev \in Commits  BY <1>1, SoundBusy
  <2>5. QED BY <2>1, <2>3, <2>4 DEF Steps, Sound, CacheTypes, Typed
<1>5. QED BY <1>2, <1>3, <1>4

(* An attempt.                                                             *)
LEMMA SizeTyped ==
  ASSUME NEW c \in Clients, Sound(c), Size(c)
  PROVE  /\ Steps(c) /\ UNCHANGED <<data, tmp, sidecar, blob>>
         /\ job'[c].pc = "open" /\ job'[c].rev = job[c].rev /\ job'[c].seen = Length
<1>1. /\ job[c].pc = "size"
      /\ UNCHANGED <<payload, begun, data, tmp, sidecar, blob, snap>>
  BY DEF Size, At
<1>2. Busy(c)  BY <1>1 DEF Busy, Resting
<1>3. PICK n : n = Length  OBVIOUS
<1>4. n \in Nat
  BY <1>3 DEF Sound, CacheTypes, Length, Contents
<1>5. PICK r : r = [job[c] EXCEPT !.pc = "open", !.attempt = @ + 1, !.seen = n]  OBVIOUS
<1>6. Becomes(c, r)  BY <1>3, <1>5, Zenon DEF Size, Length
<1>7. job[c] \in Jobs /\ job[c].attempt < MaxAttempts
  BY <1>1, <1>2, SoundBusy DEF Sound, JobSound
<1>8. /\ r.pc = "open" /\ r.seen = n /\ r.op = job[c].op /\ r.rev = job[c].rev
      /\ r.fd = job[c].fd
  BY <1>5, <1>7 DEF Jobs
<1>9. r \in Jobs
  <2>1. PICK a : a = [job[c] EXCEPT !.pc = "open", !.seen = n]  OBVIOUS
  <2>2. a \in Jobs  BY <1>4, <1>7, <2>1 DEF Jobs, Pcs
  <2>3. PICK k : k = job[c].attempt + 1  OBVIOUS
  <2>4. k \in 0 .. MaxAttempts  BY <1>7, <2>3, Numbers DEF Jobs
  <2>5. r = [a EXCEPT !.attempt = k]  BY <1>5, <1>7, <2>1, <2>3 DEF Jobs
  <2>6. QED BY <2>2, <2>4, <2>5 DEF Jobs
<1>10. Typed' /\ Same(c) /\ job'[c] = r  BY <1>2, <1>6, <1>9, BecomesJob, SoundBusy
<1>11. JobSound(c)' /\ DigestSound(c)'
  BY <1>1, <1>2, <1>8, <1>10, SoundBusy DEF Sound, JobSound, DigestSound, PublishingPcs, OpsOf
<1>12. QED
  BY <1>1, <1>3, <1>8, <1>10, <1>11 DEF Steps, Sound, CacheTypes, Typed

LEMMA FailTyped ==
  ASSUME NEW c \in Clients, Sound(c), RequestFails(c) \/ RangeFails(c) \/ ReadFails(c)
  PROVE  /\ Steps(c) /\ UNCHANGED <<sidecar, blob>> /\ Reclaim /\ tmp' \in {tmp, 0}
         /\ job[c].pc \in {"open", "read"}
         /\ \/ job'[c].pc = "failed"
            \/ job'[c].pc = "size" /\ job'[c].rev = job[c].rev
<1>1. /\ job[c].pc \in {"open", "read"} /\ Reclaim
      /\ UNCHANGED <<payload, begun, sidecar, blob, snap>>
  BY DEF RequestFails, RangeFails, ReadFails, At
<1>2. PICK file \in {tmp, 0} : Retried(c, file) \/ GivenUp(c)
  BY DEF RequestFails, RangeFails, ReadFails
<1>3. Busy(c)  BY <1>1 DEF Busy, Resting
<1>4. file \in Inodes \cup {0}  BY DEF Sound, CacheTypes
<1>5. /\ Typed' /\ Same(c) /\ JobSound(c)' /\ DigestSound(c)'
      /\ tmp' \in {file, 0}
      /\ \/ job'[c].pc = "failed" /\ tmp' = 0
         \/ job'[c].pc = "size" /\ job'[c].rev = job[c].rev /\ tmp' = file
  BY <1>1, <1>2, <1>3, <1>4, Retries
<1>6. data' \in [Inodes -> Contents]
  BY <1>1, ReclaimTyped DEF Sound, CacheTypes
<1>7. QED BY <1>1, <1>5, <1>6 DEF Steps, Sound, CacheTypes, Typed

(* A job that reads, hashes or removes.                                    *)
Onward(r) == \/ r.pc = "read" /\ r.fd \in Inodes /\ r.next >= 1
             \/ r.pc \in {"hash", "rmBlob"} /\ r.fd = 0

LEMMA StaysSound ==
  ASSUME NEW c \in Clients, Sound(c), Busy(c), job[c].pc \notin PublishingPcs,
         NEW r \in Jobs, Becomes(c, r), r.op = job[c].op, r.rev = job[c].rev,
         Onward(r), UNCHANGED payload
  PROVE  Typed' /\ Same(c) /\ job'[c] = r /\ JobSound(c)' /\ DigestSound(c)'
<1>1. Typed' /\ Same(c) /\ job'[c] = r  BY BecomesJob, SoundBusy
<1>2. JobSound(c)' /\ DigestSound(c)'
  BY <1>1, SoundBusy DEF JobSound, DigestSound, PublishingPcs, OpsOf, Onward, Busy, Resting
<1>3. QED BY <1>1, <1>2

LEMMA ResumeTyped ==
  ASSUME NEW c \in Clients, Sound(c), Resume(c)
  PROVE  /\ Steps(c) /\ UNCHANGED <<data, sidecar, blob>>
         /\ job[c].pc = "open"
         /\ \/ job'[c].pc = "failed" /\ tmp' = 0
            \/ /\ job'[c].pc = "read" /\ job'[c].rev = job[c].rev /\ tmp' = tmp /\ tmp # 0
               /\ job'[c].fd = tmp /\ job'[c].next = job[c].seen + 1
<1>1. /\ job[c].pc = "open" /\ job[c].seen \in 1 .. Chunks - 1
      /\ UNCHANGED <<payload, begun, data, sidecar, blob, snap>>
  BY DEF Resume, At
<1>2. Busy(c)  BY <1>1 DEF Busy, Resting
<1>3. CASE GivenUp(c)
  <2>1. /\ Typed' /\ Same(c) /\ JobSound(c)' /\ DigestSound(c)' /\ job'[c].pc = "failed"
        /\ tmp' = 0
    BY <1>3, Rests DEF GivenUp, Resting
  <2>2. QED BY <1>1, <2>1 DEF Steps, Sound, CacheTypes, Typed
<1>4. CASE ~GivenUp(c)
  <2>1. PICK n : n = job[c].seen + 1  OBVIOUS
  <2>2. n \in 1 .. Chunks  BY <1>1, <2>1, Numbers
  <2>3. PICK r : r = [job[c] EXCEPT !.pc = "read", !.fd = tmp, !.append = TRUE, !.next = n]
    OBVIOUS
  <2>4. Becomes(c, r) /\ tmp' = tmp /\ tmp # 0
    BY <1>4, <2>1, <2>3, Zenon DEF Resume
  <2>5. job[c] \in Jobs /\ tmp \in Inodes
    BY <1>2, <2>4, SoundBusy DEF Sound, CacheTypes
  <2>6. r.pc = "read" /\ r.fd = tmp /\ r.next = n /\ r.op = job[c].op /\ r.rev = job[c].rev
    BY <2>3, <2>5 DEF Jobs
  <2>7. r \in Jobs
    <3>1. PICK a : a = [job[c] EXCEPT !.append = TRUE]  OBVIOUS
    <3>2. a \in Jobs  BY <2>5, <3>1 DEF Jobs
    <3>3. PICK b : b = [a EXCEPT !.pc = "read", !.fd = tmp]  OBVIOUS
    <3>4. b \in Jobs  BY <2>5, <3>2, <3>3 DEF Jobs, Pcs
    <3>5. r = [b EXCEPT !.next = n]  BY <2>3, <2>5, <3>1, <3>3 DEF Jobs
    <3>6. n \in 0 .. Chunks + 1  BY <2>2, Numbers
    <3>7. QED BY <3>4, <3>5, <3>6 DEF Jobs
  <2>8. job[c].pc \notin PublishingPcs  BY <1>1 DEF PublishingPcs
  <2>9. /\ Typed' /\ Same(c) /\ job'[c] = r /\ JobSound(c)' /\ DigestSound(c)'
    <3>1. n >= 1  BY <2>2, Numbers
    <3>2. Onward(r)  BY <2>5, <2>6, <3>1 DEF Onward
    <3>3. QED BY <1>1, <1>2, <2>4, <2>6, <2>7, <2>8, <3>2, StaysSound
  <2>10. QED BY <1>1, <2>1, <2>4, <2>6, <2>9 DEF Steps, Sound, CacheTypes, Typed
<1>5. QED BY <1>3, <1>4

LEMMA StartTyped ==
  ASSUME OneForeign, NEW c \in Clients, Sound(c), Start(c)
  PROVE  /\ Steps(c) /\ UNCHANGED <<sidecar, blob>>
         /\ job[c].pc = "open" /\ job[c].seen = 0
         /\ job'[c].pc = "read" /\ job'[c].rev = job[c].rev /\ job'[c].fd = tmp'
         /\ job'[c].next = 1
         /\ tmp' \in Inodes
         /\ tmp' = tmp \/ tmp' \notin Used
         /\ data' = [data EXCEPT ![tmp'] = <<>>]
<1>1. PICK i : i = IF tmp = 0 THEN NewInode ELSE tmp  OBVIOUS
<1>2. /\ job[c].pc = "open" /\ job[c].seen = 0
      /\ UNCHANGED <<payload, begun, sidecar, blob, snap>>
      /\ tmp' = i /\ data' = [data EXCEPT ![i] = <<>>]
      /\ Becomes(c, [job[c] EXCEPT !.pc = "read", !.fd = i, !.next = 1])
  BY <1>1 DEF Start, At
<1>3. Busy(c)  BY <1>2 DEF Busy, Resting
<1>4. job[c] \in Jobs  BY <1>3, SoundBusy
<1>5. i \in Inodes /\ (i = tmp \/ i \notin Used)
  <2>1. CASE tmp # 0  BY <1>1, <2>1 DEF Sound, CacheTypes
  <2>2. CASE tmp = 0
    <3>1. job[c].fd = 0  BY <1>2 DEF Sound, JobSound
    <3>2. NewInode \in Inodes \ Used  BY <2>2, <3>1, FreshInode DEF Sound
    <3>3. QED BY <1>1, <2>2, <3>2
  <2>3. QED BY <2>1, <2>2
<1>6. PICK r : r = [job[c] EXCEPT !.pc = "read", !.fd = i, !.next = 1]  OBVIOUS
<1>7. r.pc = "read" /\ r.fd = i /\ r.next = 1 /\ r.op = job[c].op /\ r.rev = job[c].rev
  BY <1>4, <1>6 DEF Jobs
<1>8. r \in Jobs
  <2>1. PICK b : b = [job[c] EXCEPT !.pc = "read", !.fd = i]  OBVIOUS
  <2>2. b \in Jobs  BY <1>4, <1>5, <2>1 DEF Jobs, Pcs
  <2>3. r = [b EXCEPT !.next = 1]  BY <1>4, <1>6, <2>1 DEF Jobs
  <2>4. 1 \in 0 .. Chunks + 1  BY Numbers
  <2>5. QED BY <2>2, <2>3, <2>4 DEF Jobs
<1>9. job[c].pc \notin PublishingPcs  BY <1>2 DEF PublishingPcs
<1>10. /\ Typed' /\ Same(c) /\ job'[c] = r /\ JobSound(c)' /\ DigestSound(c)'
  <2>1. Onward(r)  BY <1>5, <1>7 DEF Onward
  <2>2. Becomes(c, r)  BY <1>2, <1>6
  <2>3. QED BY <1>2, <1>3, <1>7, <1>8, <1>9, <2>1, <2>2, StaysSound
<1>11. data' \in [Inodes -> Contents]
  BY <1>2, EmptyContent DEF Sound, CacheTypes
<1>12. QED BY <1>2, <1>5, <1>7, <1>10, <1>11 DEF Steps, Sound, CacheTypes, Typed

LEMMA ReadTyped ==
  ASSUME NEW c \in Clients, Sound(c), Read(c)
  PROVE  /\ Steps(c) /\ UNCHANGED <<tmp, sidecar, blob>>
         /\ job[c].pc = "read" /\ job[c].next \in 1 .. Chunks /\ job[c].fd \in Inodes
         /\ job'[c].pc = "read" /\ job'[c].rev = job[c].rev /\ job'[c].fd = job[c].fd
         /\ job'[c].next = job[c].next + 1
         /\ job[c].next = Len(data[job[c].fd]) + 1 =>
              data' = [data EXCEPT ![job[c].fd] =
                         Append(@, <<payload[job[c].rev], job[c].next>>)]
         /\ \A j \in Inodes \ {job[c].fd} : data'[j] = data[j]
<1>1. /\ job[c].pc = "read" /\ job[c].next <= Chunks
      /\ job' = [job EXCEPT ![c].next = @ + 1]
      /\ UNCHANGED <<payload, begun, tmp, sidecar, blob, snap>>
  BY DEF Read, At
<1>2. Busy(c)  BY <1>1 DEF Busy, Resting
<1>3. /\ job[c] \in Jobs /\ job[c].fd \in Inodes /\ job[c].next >= 1
      /\ job[c].rev \in Commits /\ payload \in Histories
  BY <1>1, <1>2, SoundBusy DEF Sound, JobSound
<1>4. job[c].next \in 1 .. Chunks  BY <1>1, <1>3, Numbers DEF Jobs
<1>5. PICK x : x = <<payload[job[c].rev], job[c].next>>  OBVIOUS
<1>6. x \in Pieces  BY <1>3, <1>4, <1>5, PieceOf
<1>7. PICK s : s = data[job[c].fd]  OBVIOUS
<1>8. s \in Contents  BY <1>3, <1>7 DEF Sound, CacheTypes
<1>9. PICK w : w = IF job[c].append THEN Append(s, x) ELSE WriteAt(s, job[c].next, x)
  OBVIOUS
<1>10. /\ w \in Contents
       /\ job[c].next = Len(s) + 1 => w = Append(s, x)
  <2>1. Append(s, x) \in Contents  BY <1>6, <1>8 DEF Contents
  <2>2. /\ WriteAt(s, job[c].next, x) \in Contents
        /\ job[c].next = Len(s) + 1 => WriteAt(s, job[c].next, x) = Append(s, x)
    BY <1>4, <1>6, <1>8, WriteAtContent
  <2>3. QED BY <1>9, <2>1, <2>2
<1>11. data' = [data EXCEPT ![job[c].fd] = w]
  BY <1>5, <1>7, <1>9 DEF Read
<1>12. data' \in [Inodes -> Contents]
  BY <1>10, <1>11 DEF Sound, CacheTypes
<1>13. PICK r : r = [job[c] EXCEPT !.next = @ + 1]  OBVIOUS
<1>14. /\ r \in Jobs /\ r.pc = "read" /\ r.fd = job[c].fd /\ r.next = job[c].next + 1
       /\ r.op = job[c].op /\ r.rev = job[c].rev
  <2>1. PICK n : n = job[c].next + 1  OBVIOUS
  <2>2. n \in 0 .. Chunks + 1  BY <1>4, <2>1, Numbers
  <2>3. r = [job[c] EXCEPT !.next = n]  BY <1>13, <2>1
  <2>4. QED BY <1>1, <1>3, <2>1, <2>2, <2>3 DEF Jobs
<1>15. Becomes(c, r)
  BY <1>1, <1>13, Zenon DEF Becomes
<1>16. job[c].pc \notin PublishingPcs  BY <1>1 DEF PublishingPcs
<1>17. r.next >= 1  BY <1>4, <1>14
<1>18. /\ Typed' /\ Same(c) /\ job'[c] = r /\ JobSound(c)' /\ DigestSound(c)'
  <2>1. Onward(r)  BY <1>3, <1>14, <1>17 DEF Onward
  <2>2. QED BY <1>1, <1>2, <1>14, <1>15, <1>16, <2>1, StaysSound
<1>19. Steps(c)
  BY <1>1, <1>12, <1>18 DEF Steps, Sound, CacheTypes, Typed
<1>20. \A j \in Inodes \ {job[c].fd} : data'[j] = data[j]
  BY <1>11 DEF Sound, CacheTypes
<1>21. job[c].next = Len(s) + 1 => data' = [data EXCEPT ![job[c].fd] = Append(s, x)]
  BY <1>10, <1>11
<1>22. QED
  BY <1>1, <1>3, <1>4, <1>5, <1>7, <1>14, <1>18, <1>19, <1>20, <1>21

LEMMA ReadEndTyped ==
  ASSUME NEW c \in Clients, Sound(c), ReadEnd(c)
  PROVE  /\ Steps(c) /\ UNCHANGED <<tmp, sidecar, blob>> /\ Reclaim
         /\ job[c].pc = "read" /\ job[c].next = Chunks + 1
         /\ job'[c].pc = "hash" /\ job'[c].rev = job[c].rev
<1>1. /\ job[c].pc = "read" /\ job[c].next = Chunks + 1 /\ Reclaim
      /\ UNCHANGED <<payload, begun, tmp, sidecar, blob, snap>>
  BY DEF ReadEnd, At
<1>2. Busy(c)  BY <1>1 DEF Busy, Resting
<1>3. PICK r : r = [Blank EXCEPT !.pc = "hash", !.op = job[c].op, !.rev = job[c].rev]
  OBVIOUS
<1>4. Becomes(c, r)  BY <1>3 DEF ReadEnd
<1>5. job[c].op \in Ops \cup {None} /\ job[c].rev \in Commits
  BY <1>2, SoundBusy DEF Jobs
<1>6. r \in Jobs
  BY <1>3, <1>5, BlankIsJob DEF Jobs, Pcs
<1>7. r.pc = "hash" /\ r.fd = 0 /\ r.op = job[c].op /\ r.rev = job[c].rev
  BY <1>3 DEF Blank
<1>8. Onward(r)  BY <1>7 DEF Onward
<1>9. job[c].pc \notin PublishingPcs  BY <1>1 DEF PublishingPcs
<1>10. Typed' /\ Same(c) /\ job'[c] = r /\ JobSound(c)' /\ DigestSound(c)'
  BY <1>1, <1>2, <1>4, <1>6, <1>7, <1>8, <1>9, StaysSound
<1>11. data' \in [Inodes -> Contents]
  BY <1>1, ReclaimTyped DEF Sound, CacheTypes
<1>12. QED BY <1>1, <1>7, <1>10, <1>11 DEF Steps, Sound, CacheTypes, Typed

-----------------------------------------------------------------------------
(* Publication and removal.                                                *)
LEMMA HashTyped ==
  ASSUME NEW c \in Clients, Sound(c), Hash(c)
  PROVE  /\ Steps(c) /\ UNCHANGED blob /\ Reclaim
         /\ job[c].pc = "hash"
         /\ \/ job'[c].pc = "failed" /\ tmp = 0 /\ UNCHANGED <<tmp, sidecar>>
            \/ job'[c].pc = "failed" /\ tmp' = 0
            \/ /\ job'[c].pc = "promote" /\ job'[c].digest = data[tmp] /\ tmp # 0
               /\ UNCHANGED <<tmp, sidecar>>
<1>1. /\ job[c].pc = "hash" /\ Reclaim
      /\ UNCHANGED <<payload, begun, blob, snap>>
  BY DEF Hash, At
<1>2. Busy(c)  BY <1>1 DEF Busy, Resting
<1>3. data' \in [Inodes -> Contents]
  BY <1>1, ReclaimTyped DEF Sound, CacheTypes
<1>4. CASE Rest(c, "failed") /\ \/ tmp = 0 /\ UNCHANGED <<tmp, sidecar>>
                                \/ tmp' = 0 /\ sidecar' = None
  <2>1. "failed" \in Resting  BY DEF Resting
  <2>2. Typed' /\ Same(c) /\ JobSound(c)' /\ DigestSound(c)' /\ job'[c].pc = "failed"
    BY <1>4, <2>1, Rests
  <2>3. QED BY <1>1, <1>3, <1>4, <2>2 DEF Steps, Sound, CacheTypes, Typed
<1>5. CASE tmp # 0 /\ Expected(c) \in {None, data[tmp]} /\ Hashed(c)
  <2>1. PICK h : h = data[tmp]  OBVIOUS
  <2>2. PICK r : r = [job[c] EXCEPT !.pc = "promote", !.digest = h]  OBVIOUS
  <2>3. Becomes(c, r) /\ UNCHANGED <<tmp, sidecar>>
    BY <1>5, <2>1, <2>2, Zenon DEF Hashed
  <2>4. h \in Contents  BY <1>5, <2>1 DEF Sound, CacheTypes
  <2>5. job[c] \in Jobs  BY <1>2, SoundBusy
  <2>6. /\ r.pc = "promote" /\ r.digest = h /\ r.op = job[c].op /\ r.rev = job[c].rev
        /\ r.fd = job[c].fd
    BY <2>2, <2>5 DEF Jobs
  <2>7. r \in Jobs  BY <2>2, <2>4, <2>5 DEF Jobs, Pcs
  <2>8. Typed' /\ Same(c) /\ job'[c] = r  BY <1>2, <2>3, <2>7, BecomesJob, SoundBusy
  <2>9. JobSound(c)'
    BY <1>1, <1>2, <2>6, <2>8, SoundBusy DEF Sound, JobSound, OpsOf
  <2>10. r.op # "serveAny" => r.digest \in Files
    <3>1. payload \in Histories /\ job[c].rev \in Commits  BY <1>2, SoundBusy
    <3>2. Full(job[c].rev) # None  BY <3>1, FileIsContent
    <3>3. QED BY <1>5, <2>1, <2>6, <3>1, <3>2 DEF Expected, Files
  <2>11. DigestSound(c)'
    BY <1>1, <2>8, <2>10 DEF DigestSound, Files, Full
  <2>12. QED
    BY <1>1, <1>3, <1>5, <2>1, <2>3, <2>6, <2>8, <2>9, <2>11 DEF Steps, Sound, CacheTypes, Typed
<1>6. QED
  <2>1. \/ tmp = 0 /\ Rest(c, "failed") /\ UNCHANGED <<tmp, sidecar>>
        \/ tmp # 0 /\ Expected(c) \in {None, data[tmp]} /\ Hashed(c)
        \/ Rest(c, "failed") /\ tmp' = 0 /\ sidecar' = None
    BY Zenon DEF Hash
  <2>2. QED BY <1>4, <1>5, <2>1

LEMMA PromoteTyped ==
  ASSUME NEW c \in Clients, Sound(c), Promote(c)
  PROVE  /\ Steps(c) /\ UNCHANGED sidecar /\ Reclaim /\ tmp' = 0
         /\ job[c].pc = "promote"
         /\ \/ job'[c].pc = "failed" /\ UNCHANGED blob
            \/ job'[c].pc = "unclaim" /\ UNCHANGED blob
            \/ /\ job'[c].pc = "unclaim" /\ tmp # 0
               /\ job[c].digest \notin DOMAIN blob
               /\ blob' = [g \in DOMAIN blob \cup {job[c].digest} |->
                             IF g = job[c].digest THEN tmp ELSE blob[g]]
<1>1. /\ job[c].pc = "promote" /\ Reclaim /\ tmp' = 0
      /\ UNCHANGED <<payload, begun, sidecar, snap>>
  BY DEF Promote, At
<1>2. Busy(c)  BY <1>1 DEF Busy, Resting
<1>3. data' \in [Inodes -> Contents]
  BY <1>1, ReclaimTyped DEF Sound, CacheTypes
<1>4. PICK h : h = job[c].digest  OBVIOUS
<1>5. \/ Rest(c, "failed") /\ UNCHANGED blob
      \/ /\ Goto(c, "unclaim") /\ tmp # 0 /\ h \notin DOMAIN blob
         /\ blob' = [g \in DOMAIN blob \cup {h} |-> IF g = h THEN tmp ELSE blob[g]]
      \/ Goto(c, "unclaim") /\ UNCHANGED blob
  BY <1>4, Zenon DEF Promote
<1>6. ASSUME Goto(c, "unclaim")
      PROVE  Typed' /\ Same(c) /\ JobSound(c)' /\ DigestSound(c)' /\ job'[c].pc = "unclaim"
  <2>1. "unclaim" \in Pcs  BY DEF Pcs
  <2>2. job[c].op # "serveAny" => job[c].digest \in Files
    BY <1>1 DEF Sound, DigestSound, PublishingPcs
  <2>3. QED BY <1>1, <1>2, <1>6, <2>1, <2>2, GoesOn
<1>7. CASE Rest(c, "failed") /\ UNCHANGED blob
  <2>1. "failed" \in Resting  BY DEF Resting
  <2>2. Typed' /\ Same(c) /\ JobSound(c)' /\ DigestSound(c)' /\ job'[c].pc = "failed"
    BY <1>7, <2>1, Rests
  <2>3. QED BY <1>1, <1>3, <1>7, <2>2 DEF Steps, Sound, CacheTypes, Typed
<1>8. CASE Goto(c, "unclaim") /\ UNCHANGED blob
  BY <1>1, <1>3, <1>6, <1>8 DEF Steps, Sound, CacheTypes, Typed
<1>9. CASE /\ Goto(c, "unclaim") /\ tmp # 0 /\ h \notin DOMAIN blob
           /\ blob' = [g \in DOMAIN blob \cup {h} |-> IF g = h THEN tmp ELSE blob[g]]
  <2>1. h \in Contents  BY <1>2, <1>4, SoundBusy DEF Jobs
  <2>2. /\ DOMAIN blob' = DOMAIN blob \cup {h}
        /\ \A g \in DOMAIN blob' : blob'[g] \in Inodes
    BY <1>9 DEF Sound, CacheTypes
  <2>3. /\ blob' \in [DOMAIN blob' -> Inodes] /\ DOMAIN blob' \subseteq Contents
    BY <1>9, <2>1, <2>2 DEF Sound, CacheTypes
  <2>4. Steps(c)
    BY <1>1, <1>3, <1>6, <1>9, <2>3 DEF Steps, Sound, CacheTypes, Typed
  <2>5. QED BY <1>1, <1>4, <1>6, <1>9, <2>4
<1>10. QED BY <1>5, <1>7, <1>8, <1>9

LEMMA PublishTyped ==
  ASSUME NEW c \in Clients, Sound(c), Unclaim(c) \/ Unlink(c) \/ Link(c)
  PROVE  /\ Steps(c) /\ UNCHANGED <<data, tmp, blob>>
         /\ job[c].pc \in {"unclaim", "unlink", "link"}
         /\ job'[c].pc \in {"unlink", "link", "done", "failed"}
         /\ job[c].pc # "unclaim" => UNCHANGED sidecar
<1>1. Busy(c) /\ UNCHANGED <<payload, begun, data, tmp, blob>>
  BY DEF Unclaim, Unlink, Link, At, Busy, Resting
<1>2. ASSUME job[c].pc \in {"unclaim", "unlink"}, NEW l \in {"unlink", "link"}, Goto(c, l)
      PROVE  Typed' /\ Same(c) /\ JobSound(c)' /\ DigestSound(c)' /\ job'[c].pc = l
  <2>1. l \in Pcs  BY DEF Pcs
  <2>2. job[c].op # "serveAny" => job[c].digest \in Files
    BY <1>2 DEF Sound, DigestSound, PublishingPcs
  <2>3. QED BY <1>1, <1>2, <2>1, <2>2, GoesOn
<1>3. CASE Unclaim(c)
  <2>1. job[c].pc = "unclaim" /\ Goto(c, "unlink") /\ sidecar' = None /\ UNCHANGED snap
    BY <1>3 DEF Unclaim, At
  <2>2. QED BY <1>1, <1>2, <2>1 DEF Steps, Sound, CacheTypes, Typed
<1>4. CASE Unlink(c)
  <2>1. /\ job[c].pc = "unlink" /\ Goto(c, "link") /\ UNCHANGED sidecar
        /\ snap' = [snap EXCEPT ![job[c].rev] = None]
    BY <1>4 DEF Unlink, At
  <2>2. QED BY <1>1, <1>2, <2>1 DEF Steps, Sound, CacheTypes, Typed
<1>5. CASE Link(c)
  <2>1. /\ job[c].pc = "link" /\ UNCHANGED sidecar
        /\ snap' = [snap EXCEPT ![job[c].rev] = IF @ = None THEN job[c].digest ELSE @]
    BY <1>5 DEF Link, At
  <2>2. PICK l \in {"done", "failed"} : Rest(c, l)  BY <1>5 DEF Link
  <2>3. l \in Resting  BY DEF Resting
  <2>4. Typed' /\ Same(c) /\ JobSound(c)' /\ DigestSound(c)' /\ job'[c].pc = l
    BY <2>2, <2>3, Rests
  <2>5. QED BY <1>1, <2>1, <2>4 DEF Steps, Sound, CacheTypes, Typed
<1>6. QED BY <1>3, <1>4, <1>5

LEMMA RemoveTyped ==
  ASSUME NEW c \in Clients, Sound(c), RemoveSnapshot(c) \/ RemoveBlob(c)
  PROVE  /\ Steps(c) /\ UNCHANGED <<tmp, sidecar>>
         /\ Reclaim \/ UNCHANGED data
         /\ job[c].pc \in {"rmSnap", "rmBlob"}
         /\ job'[c].pc \in {"rmBlob", "done"}
         /\ DOMAIN blob' \subseteq DOMAIN blob
         /\ \A h \in DOMAIN blob' : blob'[h] = blob[h]
<1>1. CASE RemoveSnapshot(c)
  <2>1. PICK h : h = IF Present(job[c].rev) THEN snap[job[c].rev] ELSE <<>>  OBVIOUS
  <2>2. PICK r : r = [job[c] EXCEPT !.pc = "rmBlob", !.digest = h]  OBVIOUS
  <2>3. /\ job[c].pc = "rmSnap" /\ snap' = [snap EXCEPT ![job[c].rev] = None]
        /\ UNCHANGED <<payload, begun, data, tmp, sidecar, blob>>
    BY <1>1 DEF RemoveSnapshot, At
  <2>4. Becomes(c, r)  BY <1>1, <2>1, <2>2, Zenon DEF RemoveSnapshot
  <2>5. Busy(c)  BY <2>3 DEF Busy, Resting
  <2>6. job[c] \in Jobs  BY <2>5, SoundBusy
  <2>7. h \in Contents
    BY <2>1, EmptyContent DEF Present, Sound, CacheTypes
  <2>8. r \in Jobs  BY <2>2, <2>6, <2>7 DEF Jobs, Pcs
  <2>9. r.pc = "rmBlob" /\ r.op = job[c].op /\ r.rev = job[c].rev /\ r.fd = job[c].fd
    BY <2>2, <2>6 DEF Jobs
  <2>10. job[c].fd = 0  BY <2>3 DEF Sound, JobSound
  <2>11. Onward(r)  BY <2>9, <2>10 DEF Onward
  <2>12. job[c].pc \notin PublishingPcs  BY <2>3 DEF PublishingPcs
  <2>13. Typed' /\ Same(c) /\ job'[c] = r /\ JobSound(c)' /\ DigestSound(c)'
    BY <2>3, <2>4, <2>5, <2>8, <2>9, <2>11, <2>12, StaysSound
  <2>14. Steps(c)
    BY <2>3, <2>13 DEF Steps, Sound, CacheTypes, Typed
  <2>15. QED BY <2>3, <2>9, <2>13, <2>14
<1>2. CASE RemoveBlob(c)
  <2>1. /\ job[c].pc = "rmBlob" /\ Rest(c, "done") /\ Reclaim
        /\ UNCHANGED <<payload, begun, tmp, sidecar, snap>>
    BY <1>2 DEF RemoveBlob, At
  <2>2. blob' = blob \/ blob' = WithoutBlob(job[c].digest)
    BY <1>2 DEF RemoveBlob
  <2>3. /\ DOMAIN blob' \subseteq DOMAIN blob
        /\ \A h \in DOMAIN blob' : blob'[h] = blob[h]
        /\ blob' \in [DOMAIN blob' -> Inodes] /\ DOMAIN blob' \subseteq Contents
    BY <2>2 DEF WithoutBlob, Sound, CacheTypes
  <2>4. data' \in [Inodes -> Contents]
    BY <2>1, ReclaimTyped DEF Sound, CacheTypes
  <2>5. "done" \in Resting  BY DEF Resting
  <2>6. Typed' /\ Same(c) /\ JobSound(c)' /\ DigestSound(c)' /\ job'[c].pc = "done"
    BY <2>1, <2>5, Rests
  <2>7. Steps(c)
    BY <2>1, <2>3, <2>4, <2>6 DEF Steps, Sound, CacheTypes, Typed
  <2>8. QED BY <2>1, <2>3, <2>6, <2>7
<1>3. QED BY <1>1, <1>2

(* A process that dies, and an operation that begins.                      *)
LEMMA KilledTyped ==
  ASSUME NEW c \in Clients, Sound(c), Killed(c)
  PROVE  Steps(c) /\ UNCHANGED <<tmp, sidecar, blob>> /\ Reclaim /\ job'[c].pc = "idle"
<1>1. /\ Rest(c, "idle") /\ Reclaim
      /\ UNCHANGED <<payload, begun, tmp, sidecar, blob, snap>>
  BY DEF Killed
<1>2. "idle" \in Resting  BY DEF Resting
<1>3. Typed' /\ Same(c) /\ JobSound(c)' /\ DigestSound(c)' /\ job'[c].pc = "idle"
  BY <1>1, <1>2, Rests
<1>4. data' \in [Inodes -> Contents]
  BY <1>1, ReclaimTyped DEF Sound, CacheTypes
<1>5. QED BY <1>1, <1>3, <1>4 DEF Steps, Sound, CacheTypes, Typed

LEMMA BeginTyped ==
  ASSUME NEW c \in Clients, Sound(c), Begin(c)
  PROVE  /\ Steps(c) /\ UNCHANGED <<data, tmp, sidecar, blob>> /\ job'[c].pc = "lookup"
         /\ job[c].pc \in IF c = Daemon THEN {"idle"} ELSE Resting
         /\ Serial => \A d \in Clients : ~Busy(d)
<1>1. /\ begun < MaxBegun /\ begun' = begun + 1
      /\ Serial => \A d \in Clients : ~Busy(d)
      /\ job[c].pc \in IF c = Daemon THEN {"idle"} ELSE Resting
      /\ UNCHANGED <<payload, data, tmp, sidecar, blob, snap>>
  BY DEF Begin
<1>2. PICK o \in OpsOf(c), v \in Commits :
        Becomes(c, [Blank EXCEPT !.pc = "lookup", !.op = o, !.rev = v])
  BY DEF Begin
<1>3. PICK r : r = [Blank EXCEPT !.pc = "lookup", !.op = o, !.rev = v]  OBVIOUS
<1>4. o \in Ops  BY DEF OpsOf, Ops
<1>5. r \in Jobs  BY <1>3, <1>4, BlankIsJob DEF Jobs, Pcs
<1>6. r.pc = "lookup" /\ r.op = o /\ r.rev = v /\ r.fd = 0 /\ r.attempt = 0
  BY <1>3 DEF Blank
<1>7. Becomes(c, r)  BY <1>2, <1>3
<1>8. Typed' /\ Same(c) /\ job'[c] = r
  BY <1>5, <1>7, BecomesJob DEF Sound, CacheTypes, Typed
<1>9. JobSound(c)' /\ DigestSound(c)'
  BY <1>6, <1>8 DEF JobSound, DigestSound, PublishingPcs, OpsOf
<1>10. begun' \in 0 .. MaxBegun  BY <1>1, Numbers DEF Sound, CacheTypes
<1>11. Steps(c)
  BY <1>1, <1>8, <1>9, <1>10 DEF Steps, Sound, CacheTypes, Typed
<1>12. QED BY <1>1, <1>6, <1>8, <1>11

-----------------------------------------------------------------------------
(* CInv is an invariant.                                                   *)
LEMMA OthersSound ==
  ASSUME CInv, NEW c \in Clients, Steps(c)
  PROVE  CacheTypes' /\ \A d \in Clients : JobSound(d)' /\ DigestSound(d)'
<1>1. ASSUME NEW d \in Clients, d # c
      PROVE  JobSound(d)' /\ DigestSound(d)'
  <2>1. job'[d] = job[d] /\ UNCHANGED payload  BY <1>1 DEF Steps, Same
  <2>2. JobSound(d) /\ DigestSound(d)  BY DEF CInv
  <2>3. JobSound(d)'  BY <2>1, <2>2 DEF JobSound, Busy
  <2>4. DigestSound(d)'  BY <2>1, <2>2 DEF DigestSound, Files, Full
  <2>5. QED BY <2>3, <2>4
<1>2. Sound(c)'  BY DEF Steps
<1>3. QED BY <1>1, <1>2 DEF Sound

(* What a step of a client does to the names of the blobs.                 *)
Names(c) ==
  \/ DOMAIN blob' \subseteq DOMAIN blob
  \/ /\ job[c].pc = "promote" /\ job'[c].pc = "unclaim"
     /\ DOMAIN blob' = DOMAIN blob \cup {job[c].digest}

LEMMA ClientSteps ==
  ASSUME CInv, NEW c \in Clients, Begin(c) \/ Work(c)
  PROVE  /\ Steps(c) /\ Names(c)
         /\ job[c].pc \in Publishing =>
              job'[c].pc \in {"unlink", "link", "done", "failed"}
         /\ c = Daemon => job[c].pc \notin {"done", "failed"}
<1>1. Sound(c) /\ OneForeign  BY DEF CInv, Sound
<1>2. CASE Begin(c)
  BY <1>1, <1>2, BeginTyped DEF Names, Publishing, Resting
<1>3. CASE LookUp(c) \/ ReadSidecar(c) \/ Claim(c)
  BY <1>1, <1>3, LookUpTyped DEF Names, Publishing, LookUp, ReadSidecar, Claim, At
<1>4. CASE Size(c)
  BY <1>1, <1>4, SizeTyped DEF Names, Publishing, Size, At
<1>5. CASE RequestFails(c) \/ RangeFails(c) \/ ReadFails(c)
  BY <1>1, <1>5, FailTyped DEF Names, Publishing
<1>6. CASE Resume(c)
  BY <1>1, <1>6, ResumeTyped DEF Names, Publishing
<1>7. CASE Start(c)
  BY <1>1, <1>7, StartTyped DEF Names, Publishing
<1>8. CASE Read(c)
  BY <1>1, <1>8, ReadTyped DEF Names, Publishing
<1>9. CASE ReadEnd(c)
  BY <1>1, <1>9, ReadEndTyped DEF Names, Publishing
<1>10. CASE Hash(c)
  BY <1>1, <1>10, HashTyped DEF Names, Publishing
<1>11. CASE Promote(c)
  BY <1>1, <1>11, PromoteTyped DEF Names, Publishing
<1>12. CASE Unclaim(c) \/ Unlink(c) \/ Link(c)
  BY <1>1, <1>12, PublishTyped DEF Names
<1>13. CASE RemoveSnapshot(c) \/ RemoveBlob(c)
  BY <1>1, <1>13, RemoveTyped DEF Names, Publishing
<1>14. QED
  BY <1>2, <1>3, <1>4, <1>5, <1>6, <1>7, <1>8, <1>9, <1>10, <1>11, <1>12, <1>13 DEF Work

LEMMA CrashSteps ==
  ASSUME CInv, NEW c \in Clients, Killed(c)
  PROVE  Steps(c) /\ UNCHANGED blob
<1>1. Sound(c)  BY DEF CInv, Sound
<1>2. QED BY <1>1, KilledTyped

LEMMA ClientTyped ==
  ASSUME CInv, NEW c \in Clients \ {Daemon}, Begin(c) \/ Work(c) \/ Crash(c), UNCHANGED at
  PROVE  CInv'
<1>1. Steps(c) /\ Names(c)
  BY ClientSteps, CrashSteps DEF Crash, Names
<1>2. Files' = Files /\ job'[Daemon] = job[Daemon]
  BY <1>1, CacheAssumption DEF Steps, Same, Files, Full
<1>3. DOMAIN blob' \subseteq DOMAIN blob \cup Files
  <2>1. CASE job[c].pc = "promote"
    <3>1. job[c].op # "serveAny"
      BY <2>1 DEF CInv, JobSound, Busy, Resting, OpsOf
    <3>2. job[c].digest \in Files
      BY <2>1, <3>1 DEF CInv, DigestSound, PublishingPcs
    <3>3. QED BY <1>1, <3>2 DEF Names
  <2>2. CASE job[c].pc # "promote"  BY <1>1, <2>2 DEF Names
  <2>3. QED BY <2>1, <2>2
<1>4. OneForeign'  BY <1>2, <1>3 DEF CInv, OneForeign
<1>5. QED BY <1>1, <1>4, OthersSound DEF CInv

LEMMA FetchTyped ==
  ASSUME CInv, Fetch
  PROVE  CInv'
<1>1. Daemon \in Clients /\ at = "resolve"  BY CacheAssumption DEF Fetch
<1>2. Begin(Daemon) \/ Work(Daemon)  BY DEF Fetch
<1>3. /\ Steps(Daemon) /\ Names(Daemon)
      /\ job[Daemon].pc \in Publishing =>
           job'[Daemon].pc \in {"unlink", "link", "done", "failed"}
      /\ job[Daemon].pc \notin {"done", "failed"}
  BY <1>1, <1>2, ClientSteps
<1>4. Files' = Files  BY <1>3 DEF Steps, Files, Full
<1>5. ASSUME DOMAIN blob \subseteq Files PROVE OneForeign'
  BY <1>3, <1>4, <1>5 DEF Names, OneForeign
<1>6. ASSUME ~(DOMAIN blob \subseteq Files) PROVE OneForeign'
  <2>1. job[Daemon].pc \in Publishing /\ \E d : DOMAIN blob \subseteq Files \cup {d}
    BY <1>1, <1>3, <1>6 DEF CInv, OneForeign, Publishing
  <2>2. DOMAIN blob' \subseteq DOMAIN blob  BY <1>3, <2>1 DEF Names, Publishing
  <2>3. QED BY <1>3, <1>4, <2>1, <2>2 DEF OneForeign
<1>7. OneForeign'  BY <1>5, <1>6
<1>8. QED BY <1>1, <1>3, <1>7, OthersSound DEF CInv

LEMMA CacheKept ==
  ASSUME CInv, UNCHANGED cacheVars, at' = at \/ at' # "resolve"
  PROVE  CInv'
<1>1. Files' = Files  BY DEF cacheVars, Files, Full
<1>2. OneForeign'  BY <1>1 DEF CInv, OneForeign, cacheVars
<1>3. CacheTypes'  BY DEF CInv, CacheTypes, cacheVars
<1>4. \A c \in Clients : JobSound(c)' /\ DigestSound(c)'
  BY <1>1 DEF CInv, JobSound, DigestSound, Busy, cacheVars
<1>5. QED BY <1>2, <1>3, <1>4 DEF CInv

(* The daemon leaves the look-up for good.                                 *)
LEMMA NotBack ==
  ASSUME Fetched \/ NotFetched \/ Spawn \/ Llama
  PROVE  at' = at \/ at' # "resolve"
<1> USE DEF L!To, L!Exit, L!Leave
<1>1. CASE Fetched \/ NotFetched  BY <1>1 DEF Fetched, NotFetched, L!Resolved, L!NotResolved
<1>2. CASE Spawn  BY <1>2 DEF Spawn, L!Spawn
<1>3. CASE Llama
  <2>1. CASE L!Main
    BY <2>1 DEF L!Main, L!Installed, L!Download, L!Unpack, L!Copied, L!Mark, L!SpawnFails,
                L!Arm, L!Healthy, L!Unhealthy, L!Configure, L!TakeChild, L!KillChild
  <2>2. CASE L!Handler  BY <2>2 DEF L!Handler, L!TakeChild, L!KillChild
  <2>3. CASE L!Watch \/ L!ServiceEnds \/ L!ChildLoads \/ L!ChildStalls \/ L!ChildEnds
    BY <2>3 DEF L!Watch, L!ServiceEnds, L!ChildLoads, L!ChildStalls, L!ChildEnds
  <2>4. QED BY <1>3, <2>1, <2>2, <2>3 DEF Llama
<1>4. QED BY <1>1, <1>2, <1>3

LEMMA TypesInit == ServingInit => CInv
<1> SUFFICES ASSUME ServingInit PROVE CInv  OBVIOUS
<1>1. /\ payload \in Histories /\ begun = 0 /\ job = [c \in Clients |-> Blank]
      /\ data = [i \in Inodes |-> <<>>] /\ tmp = 0 /\ sidecar = None /\ blob = <<>>
      /\ snap = [r \in Commits |-> None]
  BY DEF ServingInit, Init
<1>2. DOMAIN blob = {}  BY <1>1
<1>3. CacheTypes
  BY <1>1, <1>2, BlankIsJob, EmptyContent, Numbers DEF CacheTypes
<1>4. OneForeign  BY <1>2 DEF OneForeign
<1>5. \A c \in Clients : JobSound(c) /\ DigestSound(c)
  BY <1>1 DEF JobSound, DigestSound, Busy, Resting, Blank, PublishingPcs
<1>6. QED BY <1>3, <1>4, <1>5 DEF CInv

LEMMA TypesNext == CInv /\ DInv /\ [Next]_vars => CInv'
<1> SUFFICES ASSUME CInv, DInv, [Next]_vars PROVE CInv'  OBVIOUS
<1>1. CASE \E c \in Clients : Other(c)
  BY <1>1, ClientTyped DEF Other, daemonVars
<1>2. CASE Fetch  BY <1>2, FetchTyped
<1>3. CASE Fetched \/ NotFetched \/ Spawn \/ Llama
  BY <1>3, NotBack, CacheKept DEF Fetched, NotFetched, Spawn, Llama
<1>4. CASE Signal
  <2>1. CASE at = "resolve"
    <3>1. Killed(Daemon) /\ at' = "exited"
      BY <1>4, <2>1 DEF Signal, L!Signal, L!Exit, DInv, QuietBeforeSpawn, Early
    <3>2. Steps(Daemon) /\ UNCHANGED blob
      BY <3>1, CrashSteps, CacheAssumption
    <3>3. Files' = Files  BY <3>2 DEF Steps, Files, Full
    <3>4. OneForeign'  BY <3>1, <3>2, <3>3 DEF CInv, OneForeign
    <3>5. QED BY <3>2, <3>4, OthersSound, CacheAssumption DEF CInv
  <2>2. CASE at # "resolve"
    <3>1. UNCHANGED cacheVars /\ (at' = at \/ at' # "resolve")
      BY <1>4, <2>2 DEF Signal, L!Signal, L!Exit
    <3>2. QED BY <3>1, CacheKept
  <2>3. QED BY <2>1, <2>2
<1>5. CASE UNCHANGED vars  BY <1>5, CacheKept DEF vars, daemonVars
<1>6. QED BY <1>1, <1>2, <1>3, <1>4, <1>5 DEF Next

(* The types of the daemon.                                                *)
LEMMA LlamaInit == ServingInit => L!LlamaTypeOK
  BY DEF ServingInit, L!Init, L!LlamaTypeOK

LEMMA LlamaNext == L!LlamaTypeOK /\ [Next]_vars => L!LlamaTypeOK'
<1> SUFFICES ASSUME L!LlamaTypeOK, [Next]_vars PROVE L!LlamaTypeOK'  OBVIOUS
<1> USE DEF L!LlamaTypeOK, L!To, L!Exit, L!Exits, L!Returns, L!stopVars, L!installVars
<1>1. CASE UNCHANGED daemonVars  BY <1>1 DEF daemonVars
<1>2. CASE Fetched \/ NotFetched
  BY <1>2 DEF Fetched, NotFetched, L!Resolved, L!NotResolved
<1>3. CASE Spawn
  <2>1. Present(job[Daemon].rev) \in BOOLEAN  BY Zenon DEF Present
  <2>2. PICK b \in BOOLEAN : L!Spawn(b)  BY <1>3, <2>1 DEF Spawn
  <2>3. QED BY <2>2 DEF L!Spawn
<1>4. CASE Signal  BY <1>4 DEF Signal, L!Signal
<1>5. CASE L!Installed \/ L!Download \/ L!Unpack \/ L!Copied \/ L!Mark \/ L!SpawnFails
  BY <1>5 DEF L!Installed, L!Download, L!Unpack, L!Copied, L!Mark, L!SpawnFails
<1>6. CASE L!Arm \/ L!Healthy \/ L!Unhealthy \/ L!Configure \/ L!ServiceEnds
  BY <1>6 DEF L!Arm, L!Healthy, L!Unhealthy, L!Configure, L!ServiceEnds
<1>7. CASE \E w \in {"main", "handler"} : L!TakeChild(w) \/ L!KillChild(w)
  <2>1. PICK w \in {"main", "handler"} : L!TakeChild(w) \/ L!KillChild(w)  BY <1>7
  <2>2. CASE L!TakeChild(w)
    <3>1. /\ lock' = w /\ taken' = slot /\ slot' = FALSE
          /\ UNCHANGED <<at, exit, handler, child, model, binary, version, available>>
      BY <2>2 DEF L!TakeChild
    <3>2. slot \in BOOLEAN /\ model \in BOOLEAN /\ available \in BOOLEAN  OBVIOUS
    <3>3. {slot', taken', model', available'} \subseteq BOOLEAN
      BY <3>1, <3>2, Zenon
    <3>4. QED BY <3>1, <3>3
  <2>3. CASE L!KillChild(w)  BY <2>3 DEF L!KillChild, L!Leave
  <2>4. QED BY <2>1, <2>2, <2>3
<1>8. CASE L!Watch
  BY <1>8 DEF L!Watch
<1>9. CASE L!ChildLoads \/ L!ChildStalls \/ L!ChildEnds
  BY <1>9 DEF L!ChildLoads, L!ChildStalls, L!ChildEnds
<1>10. CASE Llama  BY <1>10, <1>5, <1>6, <1>7, <1>8, <1>9 DEF Llama, L!Main, L!Handler
<1>11. QED BY <1>1, <1>2, <1>3, <1>4, <1>10 DEF Next, Other, Fetch, vars

LEMMA CacheIsTyped == CacheTypes => CacheTypeOK
  BY DEF CacheTypes, CacheTypeOK, Jobs, Blank

(* The types of the cache and of the daemon hold however operations        *)
(* overlap: there is always an inode left for a new temporary file, since  *)
(* every blob but one is the file of a revision.                           *)
THEOREM ServingTypes == Spec => []TypeOK
<1>1. CInv /\ L!LlamaTypeOK => TypeOK  BY CacheIsTyped DEF CInv, TypeOK
<1>2. QED
  BY <1>1, DaemonInit, DaemonInv, TypesInit, TypesNext, LlamaInit, LlamaNext, PTL DEF Spec

-----------------------------------------------------------------------------
(* SInv is an invariant while operations do not overlap.                   *)

(* Nothing that is in use changes but the temporary file.                  *)
Keeps == \A i \in Inodes : i \in Used' => data'[i] = data[i]
Solo(c) == \A d \in Clients \ {c} : ~Busy(d)

LEMMA ReclaimKeeps ==
  ASSUME Reclaim \/ UNCHANGED data
  PROVE  Keeps
  BY DEF Reclaim, Keeps

LEMMA InUse ==
  /\ tmp' \in Used'
  /\ \A h \in DOMAIN blob' : blob'[h] \in Used'
  BY DEF Used

(* The others rest, or the temporary file is what it was.                  *)
LEMMA OthersFit ==
  ASSUME CInv, SInv, NEW c \in Clients, Steps(c), Fits(c)',
         Solo(c) \/ (UNCHANGED <<tmp, sidecar>> /\ Keeps)
  PROVE  \A d \in Clients : Fits(d)'
<1> SUFFICES ASSUME NEW d \in Clients, d # c PROVE Fits(d)'  OBVIOUS
<1>1. job'[d] = job[d]  BY DEF Steps, Same
<1>2. CASE Solo(c)
  BY <1>1, <1>2 DEF Solo, Fits, Busy, Resting
<1>3. CASE UNCHANGED <<tmp, sidecar>> /\ Keeps
  <2>1. tmp # 0 => data'[tmp] = data[tmp]
    BY <1>3, InUse DEF Keeps, CInv, CacheTypes
  <2>2. Length' = Length  BY <1>3, <2>1 DEF Length
  <2>3. QED BY <1>1, <1>3, <2>1, <2>2 DEF SInv, Fits
<1>4. QED BY <1>2, <1>3

(* A step that writes neither to the temporary file nor to a blob.         *)
LEMMA Undisturbed ==
  ASSUME CInv, SInv, NEW c \in Clients, Steps(c), Fits(c)', Keeps,
         Solo(c) \/ UNCHANGED <<tmp, sidecar>>,
         tmp' \in {tmp, 0}, UNCHANGED sidecar \/ tmp' = 0,
         DOMAIN blob' \subseteq DOMAIN blob,
         \A h \in DOMAIN blob' : blob'[h] = blob[h]
  PROVE  SInv'
<1>1. Beginning'
  <2>1. CASE tmp' = 0  BY <2>1 DEF Beginning
  <2>2. CASE tmp' # 0
    <3>1. tmp' = tmp /\ tmp \in Inodes /\ UNCHANGED <<sidecar, payload>>
      BY <2>2 DEF CInv, CacheTypes, Steps
    <3>2. data'[tmp] = data[tmp]  BY <3>1, InUse DEF Keeps
    <3>3. QED BY <2>2, <3>1, <3>2 DEF SInv, Beginning
  <2>3. QED BY <2>1, <2>2
<1>2. BlobsWhole'
  <2> SUFFICES ASSUME NEW h \in DOMAIN blob'
               PROVE  data'[blob'[h]] = h /\ blob'[h] # tmp'
    BY DEF BlobsWhole
  <2>1. h \in DOMAIN blob /\ blob'[h] = blob[h] /\ blob[h] \in Inodes
    BY DEF CInv, CacheTypes
  <2>2. blob[h] # 0  BY <2>1, InodesCounted
  <2>3. data[blob[h]] = h /\ blob[h] # tmp  BY <2>1 DEF SInv, BlobsWhole
  <2>4. data'[blob'[h]] = data[blob[h]]  BY <2>1, InUse DEF Keeps
  <2>5. QED BY <2>1, <2>2, <2>3, <2>4
<1>3. \A d \in Clients : Fits(d)'  BY OthersFit
<1>4. QED BY <1>1, <1>2, <1>3 DEF SInv

(* Steps after which a job claims nothing.                                 *)
Free == {"idle", "done", "failed", "lookup", "sidecar", "rmSnap", "rmBlob", "unlink", "link"}

LEMMA FreeFits ==
  ASSUME NEW c, job'[c].pc \in Free
  PROVE  Fits(c)'
  BY DEF Fits, Free

LEMMA SoloBusy ==
  ASSUME OneIsBusy, NEW c \in Clients, Busy(c)
  PROVE  Solo(c)
  BY DEF OneIsBusy, Solo

LEMMA LengthKept ==
  ASSUME CInv, tmp' = tmp, Keeps
  PROVE  Length' = Length /\ (tmp # 0 => data'[tmp] = data[tmp])
<1>1. tmp # 0 => data'[tmp] = data[tmp]
  BY InUse DEF Keeps, CInv, CacheTypes
<1>2. QED BY <1>1 DEF Length

LEMMA LookUpExact ==
  ASSUME CInv, OneIsBusy, SInv, NEW c \in Clients,
         LookUp(c) \/ ReadSidecar(c) \/ Claim(c)
  PROVE  SInv'
<1>1. Sound(c)  BY DEF CInv, Sound
<1>2. Solo(c)  BY SoloBusy DEF LookUp, ReadSidecar, Claim, At, Busy, Resting
<1>3. /\ Steps(c) /\ UNCHANGED blob
      /\ job'[c].pc \in {"done", "failed", "rmSnap", "sidecar", "claim", "size"}
  BY <1>1, LookUpTyped
<1>4. Typed  BY <1>1 DEF Sound, CacheTypes, Typed
<1>5. CASE LookUp(c)
  <2>1. UNCHANGED <<data, tmp, sidecar>>  BY <1>5 DEF LookUp
  <2>2. job'[c].pc \in {"done", "failed", "rmSnap", "sidecar"}
    <3>1. \/ \E l \in {"done", "failed"} : Rest(c, l)
          \/ \E l \in {"rmSnap", "sidecar"} : Goto(c, l)
      BY <1>5, Zenon DEF LookUp
    <3>2. ASSUME NEW l \in {"done", "failed"}, Rest(c, l) PROVE job'[c].pc = l
      BY <1>4, <3>2, RestJob DEF Resting
    <3>3. ASSUME NEW l \in {"rmSnap", "sidecar"}, Goto(c, l) PROVE job'[c].pc = l
      <4>1. l \in Pcs  BY DEF Pcs
      <4>2. QED BY <1>4, <3>3, <4>1, GotoJob
    <3>4. QED BY <3>1, <3>2, <3>3
  <2>3. Fits(c)'  BY <2>2, FreeFits DEF Free
  <2>4. QED BY <1>2, <1>3, <2>1, <2>3, ReclaimKeeps, Undisturbed
<1>6. CASE ReadSidecar(c)
  <2>1. /\ Goto(c, IF sidecar = job[c].rev THEN "size" ELSE "claim")
        /\ tmp' = IF sidecar = job[c].rev THEN tmp ELSE 0
        /\ UNCHANGED sidecar /\ Reclaim
    BY <1>6 DEF ReadSidecar
  <2>2. "size" \in Pcs /\ "claim" \in Pcs  BY DEF Pcs
  <2>3. /\ job'[c].pc = IF sidecar = job[c].rev THEN "size" ELSE "claim"
        /\ job'[c].rev = job[c].rev
    BY <1>4, <2>1, <2>2, GotoJob
  <2>4. Fits(c)'  BY <2>1, <2>3 DEF Fits
  <2>5. QED BY <1>2, <1>3, <2>1, <2>4, ReclaimKeeps, Undisturbed
<1>7. CASE Claim(c)
  <2>1. /\ job[c].pc = "claim" /\ Goto(c, "size") /\ sidecar' = job[c].rev
        /\ UNCHANGED <<data, tmp>>
    BY <1>7 DEF Claim, At
  <2>2. "size" \in Pcs  BY DEF Pcs
  <2>3. job'[c].pc = "size" /\ job'[c].rev = job[c].rev
    BY <1>4, <2>1, <2>2, GotoJob
  <2>4. tmp = 0  BY <2>1 DEF SInv, Fits
  <2>5. Fits(c)'  BY <2>1, <2>3 DEF Fits
  <2>6. QED BY <1>2, <1>3, <2>1, <2>4, <2>5, ReclaimKeeps, Undisturbed
<1>8. QED BY <1>5, <1>6, <1>7

LEMMA AttemptExact ==
  ASSUME CInv, OneIsBusy, SInv, NEW c \in Clients,
         \/ Size(c) \/ Resume(c)
         \/ RequestFails(c) \/ RangeFails(c) \/ ReadFails(c) \/ ReadEnd(c)
  PROVE  SInv'
<1>1. Sound(c)  BY DEF CInv, Sound
<1>2. Fits(c)  BY DEF SInv
<1>3. CASE Size(c)
  <2>1. /\ Steps(c) /\ UNCHANGED <<data, tmp, sidecar, blob>>
        /\ job'[c].pc = "open" /\ job'[c].rev = job[c].rev /\ job'[c].seen = Length
    BY <1>1, <1>3, SizeTyped
  <2>2. job[c].pc = "size"  BY <1>3 DEF Size, At
  <2>3. Solo(c)  BY <2>2, SoloBusy DEF Busy, Resting
  <2>4. Length' = Length  BY <2>1 DEF Length
  <2>5. Fits(c)'  BY <1>2, <2>1, <2>2, <2>4 DEF Fits
  <2>6. QED BY <2>1, <2>3, <2>5, ReclaimKeeps, Undisturbed
<1>4. CASE Resume(c)
  <2>1. /\ Steps(c) /\ UNCHANGED <<data, sidecar, blob>> /\ job[c].pc = "open"
        /\ \/ job'[c].pc = "failed" /\ tmp' = 0
           \/ /\ job'[c].pc = "read" /\ job'[c].rev = job[c].rev /\ tmp' = tmp /\ tmp # 0
              /\ job'[c].fd = tmp /\ job'[c].next = job[c].seen + 1
    BY <1>1, <1>4, ResumeTyped
  <2>2. Solo(c)  BY <2>1, SoloBusy DEF Busy, Resting
  <2>3. tmp' = tmp => Length' = Length  BY <2>1 DEF Length
  <2>4. Fits(c)'  BY <1>2, <2>1, <2>3 DEF Fits
  <2>5. tmp' \in {tmp, 0}  BY <2>1
  <2>6. QED BY <2>1, <2>2, <2>4, <2>5, ReclaimKeeps, Undisturbed
<1>5. CASE RequestFails(c) \/ RangeFails(c) \/ ReadFails(c)
  <2>1. /\ Steps(c) /\ UNCHANGED <<sidecar, blob>> /\ Reclaim /\ tmp' \in {tmp, 0}
        /\ job[c].pc \in {"open", "read"}
        /\ \/ job'[c].pc = "failed"
           \/ job'[c].pc = "size" /\ job'[c].rev = job[c].rev
    BY <1>1, <1>5, FailTyped
  <2>2. Solo(c)  BY <2>1, SoloBusy DEF Busy, Resting
  <2>3. Fits(c)'  BY <1>2, <2>1 DEF Fits
  <2>4. QED BY <2>1, <2>2, <2>3, ReclaimKeeps, Undisturbed
<1>6. CASE ReadEnd(c)
  <2>1. /\ Steps(c) /\ UNCHANGED <<tmp, sidecar, blob>> /\ Reclaim
        /\ job[c].pc = "read" /\ job[c].next = Chunks + 1
        /\ job'[c].pc = "hash" /\ job'[c].rev = job[c].rev
    BY <1>1, <1>6, ReadEndTyped
  <2>2. Solo(c)  BY <2>1, SoloBusy DEF Busy, Resting
  <2>3. Length' = Length  BY <2>1, ReclaimKeeps, LengthKept
  <2>4. Length \in Nat
    BY <1>1 DEF Length, Sound, CacheTypes, Contents
  <2>5. tmp # 0 /\ Length = Chunks /\ sidecar = job[c].rev
    BY <1>2, <2>1, <2>4, Numbers DEF Fits
  <2>6. Fits(c)'  BY <2>1, <2>3, <2>5 DEF Fits
  <2>7. QED BY <2>1, <2>2, <2>6, ReclaimKeeps, Undisturbed
<1>7. QED BY <1>3, <1>4, <1>5, <1>6

LEMMA StartExact ==
  ASSUME CInv, OneIsBusy, SInv, NEW c \in Clients, Start(c)
  PROVE  SInv'
<1>1. Sound(c) /\ OneForeign /\ Fits(c)  BY DEF CInv, Sound, SInv
<1>2. /\ Steps(c) /\ UNCHANGED <<sidecar, blob>>
      /\ job[c].pc = "open"
      /\ job'[c].pc = "read" /\ job'[c].rev = job[c].rev /\ job'[c].fd = tmp'
      /\ job'[c].next = 1
      /\ tmp' \in Inodes
      /\ tmp' = tmp \/ tmp' \notin Used
      /\ data' = [data EXCEPT ![tmp'] = <<>>]
  BY <1>1, StartTyped
<1>3. PICK i \in Inodes : i = tmp'  BY <1>2
<1>4. i # 0  BY <1>3, InodesCounted
<1>5. data'[i] = <<>> /\ \A j \in Inodes \ {i} : data'[j] = data[j]
  BY <1>2, <1>3 DEF CInv, CacheTypes
<1>6. Length' = 0  BY <1>3, <1>4, <1>5 DEF Length
<1>7. Solo(c)  BY <1>2, SoloBusy DEF Busy, Resting
<1>8. sidecar = job[c].rev /\ job[c].rev \in Commits
  BY <1>1, <1>2 DEF Fits, Sound, JobSound, Busy, Resting
<1>9. Fits(c)'  BY <1>2, <1>3, <1>4, <1>6, <1>8 DEF Fits
<1>10. Beginning'
  <2>1. Len(data'[tmp']) = 0 /\ sidecar' \in Commits  BY <1>2, <1>3, <1>5, <1>8
  <2>2. QED BY <2>1, Numbers DEF Beginning
<1>11. BlobsWhole'
  <2> SUFFICES ASSUME NEW h \in DOMAIN blob
               PROVE  data'[blob[h]] = h /\ blob[h] # i
    BY <1>2, <1>3 DEF BlobsWhole
  <2>1. blob[h] \in Inodes /\ blob[h] \in Used  BY DEF CInv, CacheTypes, Used
  <2>2. data[blob[h]] = h /\ blob[h] # tmp  BY DEF SInv, BlobsWhole
  <2>3. blob[h] # i  BY <1>2, <1>3, <2>1, <2>2
  <2>4. QED BY <1>5, <2>1, <2>2, <2>3
<1>12. \A d \in Clients : Fits(d)'  BY <1>2, <1>7, <1>9, OthersFit
<1>13. QED BY <1>10, <1>11, <1>12 DEF SInv

LEMMA ReadExact ==
  ASSUME CInv, OneIsBusy, SInv, NEW c \in Clients, Read(c)
  PROVE  SInv'
<1>1. Sound(c) /\ Fits(c)  BY DEF CInv, Sound, SInv
<1>2. /\ Steps(c) /\ UNCHANGED <<tmp, sidecar, blob>>
      /\ job[c].pc = "read" /\ job[c].next \in 1 .. Chunks /\ job[c].fd \in Inodes
      /\ job'[c].pc = "read" /\ job'[c].rev = job[c].rev /\ job'[c].fd = job[c].fd
      /\ job'[c].next = job[c].next + 1
      /\ job[c].next = Len(data[job[c].fd]) + 1 =>
           data' = [data EXCEPT ![job[c].fd] =
                      Append(@, <<payload[job[c].rev], job[c].next>>)]
      /\ \A j \in Inodes \ {job[c].fd} : data'[j] = data[j]
  BY <1>1, ReadTyped
<1>3. /\ tmp # 0 /\ job[c].fd = tmp /\ job[c].next = Length + 1 /\ sidecar = job[c].rev
  BY <1>1, <1>2 DEF Fits
<1>4. PICK s : s = data[tmp]  OBVIOUS
<1>5. PICK x : x = <<payload[sidecar], Len(s) + 1>>  OBVIOUS
<1>6. s \in Contents /\ Length = Len(s) /\ Len(s) \in Nat
  BY <1>2, <1>3, <1>4 DEF CInv, CacheTypes, Length, Contents
<1>7. /\ Beginning /\ sidecar \in Commits /\ payload \in Histories
      /\ UNCHANGED payload
  BY <1>2, <1>3 DEF SInv, Beginning, CInv, CacheTypes, Steps
<1>8. data'[tmp] = Append(s, x)
  BY <1>2, <1>3, <1>4, <1>5, <1>6 DEF CInv, CacheTypes
<1>9. /\ Len(Append(s, x)) = Len(s) + 1
      /\ Append(s, x)[Len(s) + 1] = x
      /\ \A i \in 1 .. Len(s) : Append(s, x)[i] = s[i]
  BY <1>6 DEF Contents
<1>10. Length' = Len(s) + 1  BY <1>2, <1>3, <1>8, <1>9 DEF Length
<1>11. Solo(c)  BY <1>2, SoloBusy DEF Busy, Resting
<1>12. Fits(c)'
  BY <1>2, <1>3, <1>6, <1>10 DEF Fits
<1>13. Beginning'
  <2>1. Len(s) + 1 <= Chunks  BY <1>2, <1>3, <1>6, Numbers
  <2>2. \A i \in 1 .. Len(s) : s[i] = <<payload[sidecar], i>>
    BY <1>3, <1>4, <1>7 DEF Beginning
  <2>3. \A i \in 1 .. Len(s) + 1 : Append(s, x)[i] = <<payload[sidecar], i>>
    BY <1>5, <1>6, <1>9, <2>2
  <2>4. QED BY <1>2, <1>7, <1>8, <1>9, <2>1, <2>3 DEF Beginning
<1>14. BlobsWhole'
  <2> SUFFICES ASSUME NEW h \in DOMAIN blob
               PROVE  data'[blob[h]] = h /\ blob[h] # tmp
    BY <1>2 DEF BlobsWhole
  <2>1. blob[h] \in Inodes  BY DEF CInv, CacheTypes
  <2>2. data[blob[h]] = h /\ blob[h] # tmp  BY DEF SInv, BlobsWhole
  <2>3. QED BY <1>2, <1>3, <2>1, <2>2
<1>15. \A d \in Clients : Fits(d)'  BY <1>2, <1>11, <1>12, OthersFit
<1>16. QED BY <1>13, <1>14, <1>15 DEF SInv

LEMMA HashExact ==
  ASSUME CInv, OneIsBusy, SInv, NEW c \in Clients, Hash(c)
  PROVE  SInv'
<1>1. Sound(c) /\ Fits(c)  BY DEF CInv, Sound, SInv
<1>2. /\ Steps(c) /\ UNCHANGED blob /\ Reclaim
      /\ job[c].pc = "hash"
      /\ \/ job'[c].pc = "failed" /\ tmp = 0 /\ UNCHANGED <<tmp, sidecar>>
         \/ job'[c].pc = "failed" /\ tmp' = 0
         \/ /\ job'[c].pc = "promote" /\ job'[c].digest = data[tmp] /\ tmp # 0
            /\ UNCHANGED <<tmp, sidecar>>
  BY <1>1, HashTyped
<1>3. Solo(c) /\ Keeps  BY <1>2, SoloBusy, ReclaimKeeps DEF Busy, Resting
<1>4. tmp' = tmp /\ tmp # 0 => data'[tmp] = data[tmp]  BY <1>3, LengthKept
<1>5. Fits(c)'  BY <1>2, <1>4 DEF Fits
<1>6. tmp' \in {tmp, 0} /\ (UNCHANGED sidecar \/ tmp' = 0)  BY <1>2
<1>7. QED BY <1>2, <1>3, <1>5, <1>6, Undisturbed

LEMMA PromoteExact ==
  ASSUME CInv, OneIsBusy, SInv, NEW c \in Clients, Promote(c)
  PROVE  SInv'
<1>1. Sound(c) /\ Fits(c)  BY DEF CInv, Sound, SInv
<1>2. PICK h : h = job[c].digest  OBVIOUS
<1>3. /\ Steps(c) /\ UNCHANGED sidecar /\ Reclaim /\ tmp' = 0
      /\ job[c].pc = "promote"
      /\ \/ job'[c].pc = "failed" /\ UNCHANGED blob
         \/ job'[c].pc = "unclaim" /\ UNCHANGED blob
         \/ /\ job'[c].pc = "unclaim" /\ tmp # 0 /\ h \notin DOMAIN blob
            /\ blob' = [g \in DOMAIN blob \cup {h} |-> IF g = h THEN tmp ELSE blob[g]]
  BY <1>1, <1>2, PromoteTyped
<1>4. Solo(c) /\ Keeps  BY <1>3, SoloBusy, ReclaimKeeps DEF Busy, Resting
<1>5. Fits(c)'  BY <1>3 DEF Fits
<1>6. CASE UNCHANGED blob  BY <1>3, <1>4, <1>5, <1>6, Undisturbed
<1>7. CASE /\ tmp # 0 /\ h \notin DOMAIN blob
           /\ blob' = [g \in DOMAIN blob \cup {h} |-> IF g = h THEN tmp ELSE blob[g]]
  <2>1. tmp \in Inodes /\ h = data[tmp]
    BY <1>1, <1>2, <1>3, <1>7 DEF CInv, CacheTypes, Fits
  <2>2. BlobsWhole'
    <3> SUFFICES ASSUME NEW g \in DOMAIN blob'
                 PROVE  data'[blob'[g]] = g /\ blob'[g] # 0
      BY <1>3 DEF BlobsWhole
    <3>1. CASE g = h
      <4>1. blob'[g] = tmp  BY <1>7, <3>1
      <4>2. data'[tmp] = data[tmp]  BY <1>4, <2>1, <4>1, InUse DEF Keeps
      <4>3. QED BY <1>7, <2>1, <3>1, <4>1, <4>2
    <3>2. CASE g # h
      <4>1. g \in DOMAIN blob /\ blob'[g] = blob[g] /\ blob[g] \in Inodes
        BY <1>7, <3>2 DEF CInv, CacheTypes
      <4>2. data'[blob[g]] = data[blob[g]]  BY <1>4, <4>1, InUse DEF Keeps
      <4>3. data[blob[g]] = g  BY <4>1 DEF SInv, BlobsWhole
      <4>4. QED BY <4>1, <4>2, <4>3, InodesCounted
    <3>3. QED BY <3>1, <3>2
  <2>3. Beginning'  BY <1>3 DEF Beginning
  <2>4. \A d \in Clients : Fits(d)'  BY <1>3, <1>4, <1>5, OthersFit
  <2>5. QED BY <2>2, <2>3, <2>4 DEF SInv
<1>8. QED BY <1>3, <1>6, <1>7

LEMMA PublishExact ==
  ASSUME CInv, OneIsBusy, SInv, NEW c \in Clients,
         \/ Unclaim(c) \/ Unlink(c) \/ Link(c)
         \/ RemoveSnapshot(c) \/ RemoveBlob(c)
  PROVE  SInv'
<1>1. Sound(c) /\ Fits(c)  BY DEF CInv, Sound, SInv
<1>2. CASE Unclaim(c) \/ Unlink(c) \/ Link(c)
  <2>1. /\ Steps(c) /\ UNCHANGED <<data, tmp, blob>>
        /\ job[c].pc \in {"unclaim", "unlink", "link"}
        /\ job'[c].pc \in {"unlink", "link", "done", "failed"}
        /\ job[c].pc # "unclaim" => UNCHANGED sidecar
    BY <1>1, <1>2, PublishTyped
  <2>2. Solo(c)  BY <2>1, SoloBusy DEF Busy, Resting
  <2>3. Fits(c)'  BY <2>1, FreeFits DEF Free
  <2>4. UNCHANGED sidecar \/ tmp = 0  BY <1>1, <2>1 DEF Fits
  <2>5. QED BY <2>1, <2>2, <2>3, <2>4, ReclaimKeeps, Undisturbed
<1>3. CASE RemoveSnapshot(c) \/ RemoveBlob(c)
  <2>1. /\ Steps(c) /\ UNCHANGED <<tmp, sidecar>>
        /\ Reclaim \/ UNCHANGED data
        /\ job[c].pc \in {"rmSnap", "rmBlob"}
        /\ job'[c].pc \in {"rmBlob", "done"}
        /\ DOMAIN blob' \subseteq DOMAIN blob
        /\ \A h \in DOMAIN blob' : blob'[h] = blob[h]
    BY <1>1, <1>3, RemoveTyped
  <2>2. Fits(c)'  BY <2>1, FreeFits DEF Free
  <2>3. QED BY <2>1, <2>2, ReclaimKeeps, Undisturbed
<1>4. QED BY <1>2, <1>3

LEMMA KilledExact ==
  ASSUME CInv, SInv, NEW c \in Clients, Killed(c)
  PROVE  SInv'
<1>1. Sound(c)  BY DEF CInv, Sound
<1>2. Steps(c) /\ UNCHANGED <<tmp, sidecar, blob>> /\ Reclaim /\ job'[c].pc = "idle"
  BY <1>1, KilledTyped
<1>3. Fits(c)'  BY <1>2, FreeFits DEF Free
<1>4. QED BY <1>2, <1>3, ReclaimKeeps, Undisturbed

LEMMA BeginExact ==
  ASSUME CInv, SInv, NEW c \in Clients, Begin(c)
  PROVE  SInv'
<1>1. Sound(c)  BY DEF CInv, Sound
<1>2. Steps(c) /\ UNCHANGED <<data, tmp, sidecar, blob>> /\ job'[c].pc = "lookup"
  BY <1>1, BeginTyped
<1>3. Fits(c)'  BY <1>2, FreeFits DEF Free
<1>4. QED BY <1>2, <1>3, ReclaimKeeps, Undisturbed

LEMMA ClientExact ==
  ASSUME CInv, OneIsBusy, SInv, NEW c \in Clients, Begin(c) \/ Work(c) \/ Crash(c)
  PROVE  SInv'
  BY BeginExact, KilledExact, LookUpExact, AttemptExact, StartExact, ReadExact,
     HashExact, PromoteExact, PublishExact DEF Work, Crash

LEMMA ExactStays == SInv /\ UNCHANGED cacheVars => SInv'
<1> SUFFICES ASSUME SInv, UNCHANGED cacheVars PROVE SInv'  OBVIOUS
<1>1. Length' = Length  BY DEF cacheVars, Length
<1>2. QED BY <1>1 DEF cacheVars, SInv, Beginning, Fits, BlobsWhole

LEMMA ExactInit == ServingInit => SInv
<1> SUFFICES ASSUME ServingInit PROVE SInv  OBVIOUS
<1>1. job = [c \in Clients |-> Blank] /\ tmp = 0 /\ DOMAIN blob = {}
  BY DEF ServingInit, Init
<1>2. QED BY <1>1 DEF SInv, Beginning, BlobsWhole, Fits, Blank

LEMMA ExactNext == CInv /\ LInv /\ SInv /\ [Next]_vars => SInv'
<1> SUFFICES ASSUME CInv, LInv, SInv, [Next]_vars PROVE SInv'  OBVIOUS
<1>1. OneIsBusy  BY DEF LInv
<1>2. CASE \E c \in Clients : Other(c)  BY <1>1, <1>2, ClientExact DEF Other
<1>3. CASE Fetch  BY <1>1, <1>3, ClientExact, CacheAssumption DEF Fetch
<1>4. CASE Fetched \/ NotFetched \/ Spawn \/ Llama
  BY <1>4, ExactStays DEF Fetched, NotFetched, Spawn, Llama
<1>5. CASE Signal  BY <1>5, KilledExact, ExactStays, CacheAssumption DEF Signal
<1>6. CASE UNCHANGED vars  BY <1>6, ExactStays DEF vars
<1>7. QED BY <1>2, <1>3, <1>4, <1>5, <1>6 DEF Next

LEMMA WholeAtTheEnd == CInv /\ SInv => ResumeIsExact
<1> SUFFICES ASSUME CInv, SInv, NEW c \in Clients, job[c].pc = "hash"
             PROVE  tmp # 0 /\ data[tmp] = Full(job[c].rev)
  BY DEF ResumeIsExact, At
<1>1. tmp # 0 /\ Length = Chunks /\ sidecar = job[c].rev  BY DEF SInv, Fits
<1>2. PICK s : s = data[tmp]  OBVIOUS
<1>3. PICK f : f = Full(sidecar)  OBVIOUS
<1>4. /\ sidecar \in Commits /\ payload \in Histories /\ s \in Contents /\ Len(s) = Chunks
      /\ \A i \in 1 .. Chunks : s[i] = <<payload[sidecar], i>>
  BY <1>1, <1>2 DEF SInv, Beginning, CInv, CacheTypes, Length
<1>5. f \in Contents /\ Len(f) = Chunks  BY <1>3, <1>4, FileIsContent
<1>6. \A i \in 1 .. Chunks : f[i] = <<payload[sidecar], i>>  BY <1>3 DEF Full
<1>7. s = f  BY <1>4, <1>5, <1>6, SeqEqual DEF Contents
<1>8. QED BY <1>1, <1>2, <1>3, <1>7

LEMMA VerifiedIsWhole == CInv /\ SInv => VerifiedIsComplete
<1> SUFFICES ASSUME CInv, SInv, NEW r \in Commits, Present(r), Passes(r, Full(r))
             PROVE  data[blob[snap[r]]] = Full(r)
  BY DEF VerifiedIsComplete
<1>1. Full(r) # None  BY FileIsContent DEF CInv, CacheTypes
<1>2. data[blob[snap[r]]] = snap[r]  BY DEF Present, SInv, BlobsWhole
<1>3. QED BY <1>1, <1>2 DEF Passes

(* While operations do not overlap, a download that comes to its end has   *)
(* the file of its revision on disk, whatever it resumed.                  *)
THEOREM ResumesExactly == ASSUME Serial PROVE Spec => []ResumeIsExact
<1>1. LInv /\ CInv /\ SInv => ResumeIsExact  BY WholeAtTheEnd
<1>2. QED
  BY <1>1, DaemonInit, DaemonInv, TypesInit, TypesNext, CacheInit, CacheInv,
     ExactInit, ExactNext, PTL DEF Spec

(* While operations do not overlap, what a verified look-up returns is the *)
(* whole file of the revision, also after downloads without a checksum.    *)
(* Where they do overlap this is false, see the run models_overlap.        *)
THEOREM LookUpsAreWhole == ASSUME Serial PROVE Spec => []VerifiedIsComplete
<1>1. LInv /\ CInv /\ SInv => VerifiedIsComplete  BY VerifiedIsWhole
<1>2. QED
  BY <1>1, DaemonInit, DaemonInv, TypesInit, TypesNext, CacheInit, CacheInv,
     ExactInit, ExactNext, PTL DEF Spec
=============================================================================
