------------------------------ MODULE ModelCache ------------------------------
(***************************************************************************)
(* The Hugging Face cache as Rayline fills it (crates/rayline-hf):         *)
(* processes that fetch, look up and remove one GGUF file of one           *)
(* repository at several pinned commits.  A download goes to a temporary   *)
(* file whose name depends on the file only; a sidecar names the URL it    *)
(* came from, so that another process may resume it.  The finished file is *)
(* renamed to a blob named after its SHA256, and a link per commit points  *)
(* at the blob.                                                            *)
(*                                                                         *)
(* A file is an inode: a descriptor opened before a rename or a removal    *)
(* still writes to it.  The content of a file stands for its SHA256.       *)
(***************************************************************************)
EXTENDS Naturals, Sequences, FiniteSets

CONSTANTS
  Clients,      \* processes that use the cache, one operation at a time each
  Daemon,       \* the client that is the serve daemon: it fetches once
  Commits,      \* the pinned revisions
  Histories,    \* what the file may be at each revision
  Chunks,       \* how many reads the file takes
  MaxAttempts,  \* MAX_DOWNLOAD_ATTEMPTS
  MaxBegun,     \* how many operations begin (a bound of the model)
  Serial,       \* no client begins while another one is busy
  Unverified,   \* the daemon may be started without a SHA256
  None

ASSUME CacheAssumption ==
  /\ IsFiniteSet(Clients) /\ Daemon \in Clients
  /\ IsFiniteSet(Commits) /\ None \notin Commits
  /\ \A h \in Histories, r \in Commits : None # [i \in 1 .. Chunks |-> <<h[r], i>>]
  /\ \A h \in Histories : DOMAIN h = Commits
  /\ {Chunks, MaxAttempts, MaxBegun} \subseteq Nat \ {0}
  /\ {Serial, Unverified} \subseteq BOOLEAN

VARIABLES
  payload,  \* payload[r]: what the file is at revision r
  begun,    \* how many operations have begun
  job,      \* what each client does, a record of Blank's fields
  data,     \* the content of each inode
  tmp,      \* the inode of the temporary file
  sidecar,  \* the revision the sidecar names
  blob,     \* the inode of each blob, by SHA256
  snap      \* snap[r]: the blob the link of revision r points at

cacheVars == <<payload, begun, job, data, tmp, sidecar, blob, snap>>

Resting == {"idle", "done", "failed"}
Pcs == Resting \cup {"lookup", "sidecar", "claim", "size", "open", "read",
                     "hash", "promote", "unclaim", "unlink", "link",
                     "rmSnap", "rmBlob"}
Ops == {"download", "serve", "serveAny", "remove"}

Blank ==
  [pc      |-> "idle",
   op      |-> None,   \* "download", "serve", "serveAny" or "remove"
   rev     |-> None,   \* the revision it asks for
   attempt |-> 0,      \* download attempts begun
   seen    |-> 0,      \* the length of the temporary file at the request
   fd      |-> 0,      \* the inode it writes to
   append  |-> FALSE,  \* it writes at the end of the file
   next    |-> 0,      \* the next chunk the server sends
   digest  |-> <<>>]   \* the SHA256 it computed, or that of the blob it removes

\* The descriptors, the temporary file and the blobs hold at most this many.
Inodes == 1 .. 2 * Cardinality(Clients) + Cardinality(Commits) + 1
Hole   == <<None, 0>>
Full(r) == [i \in 1 .. Chunks |-> <<payload[r], i>>]
Expected(c) == IF job[c].op = "serveAny" THEN None ELSE Full(job[c].rev)

Used == {tmp} \cup {blob[h] : h \in DOMAIN blob} \cup {job[c].fd : c \in Clients}
NewInode == CHOOSE i \in Inodes \ Used : \A j \in Inodes \ Used : i <= j

(* An inode nothing refers to any more is gone.                            *)
Reclaim == data' = [i \in Inodes |-> IF i \in Used' THEN data[i] ELSE <<>>]

WriteAt(s, i, x) ==
  [j \in 1 .. IF i > Len(s) THEN i ELSE Len(s) |->
     IF j = i THEN x ELSE IF j <= Len(s) THEN s[j] ELSE Hole]

-----------------------------------------------------------------------------
At(c, label) == job[c].pc = label
Busy(c) == job[c].pc \notin Resting

Becomes(c, record) == job' = [job EXCEPT ![c] = record]
Goto(c, label) == job' = [job EXCEPT ![c].pc = label]

(* An operation ends; what it was is remembered of the daemon only.        *)
Rest(c, label) ==
  Becomes(c, [Blank EXCEPT !.pc = label,
                           !.op  = IF c = Daemon THEN job[c].op ELSE @,
                           !.rev = IF c = Daemon THEN job[c].rev ELSE @])

Init ==
  /\ payload \in Histories
  /\ begun = 0
  /\ job = [c \in Clients |-> Blank]
  /\ data = [i \in Inodes |-> <<>>]
  /\ tmp = 0
  /\ sidecar = None
  /\ blob = <<>>
  /\ snap = [r \in Commits |-> None]

OpsOf(c) == IF c # Daemon THEN {"download", "remove"}
            ELSE IF Unverified THEN {"serve", "serveAny"} ELSE {"serve"}

Begin(c) ==
  /\ job[c].pc \in IF c = Daemon THEN {"idle"} ELSE Resting
  /\ Serial => \A d \in Clients : ~Busy(d)
  /\ begun < MaxBegun
  /\ begun' = begun + 1
  /\ \E o \in OpsOf(c), r \in Commits :
       Becomes(c, [Blank EXCEPT !.pc = "lookup", !.op = o, !.rev = r])
  /\ UNCHANGED <<payload, data, tmp, sidecar, blob, snap>>

(* The link of a revision leads to a file.                                 *)
Present(r) == snap[r] # None /\ snap[r] \in DOMAIN blob

(* verify_file_sha256 trusts the name the link points at and hashes the    *)
(* file only when the name is another one.                                 *)
Passes(r, expected) ==
  \/ expected = None
  \/ snap[r] = expected
  \/ data[blob[snap[r]]] = expected

(* On a mismatch the daemon gives up; the CLI takes the file as missing.   *)
LookUp(c) ==
  LET r == job[c].rev hit == Present(r) /\ Passes(r, Expected(c)) IN
  /\ At(c, "lookup")
  /\ \/ hit /\ job[c].op # "remove" /\ Rest(c, "done")
     \/ hit /\ job[c].op = "remove" /\ Goto(c, "rmSnap")
     \/ /\ ~hit
        /\ IF job[c].op = "download" \/ (job[c].op # "remove" /\ ~Present(r))
           THEN Goto(c, "sidecar") ELSE Rest(c, "failed")
  /\ UNCHANGED <<payload, begun, data, tmp, sidecar, blob, snap>>

-----------------------------------------------------------------------------
(* The download.                                                           *)

(* Variant: whatever is in the temporary file is resumed.                  *)
TrustTmp(c) ==
  /\ At(c, "sidecar")
  /\ Goto(c, IF sidecar = None THEN "claim" ELSE "size")
  /\ UNCHANGED <<payload, begun, data, tmp, sidecar, blob, snap>>

(* Bytes of another URL are discarded.                                     *)
ReadSidecar(c) ==
  /\ At(c, "sidecar")
  /\ Goto(c, IF sidecar = job[c].rev THEN "size" ELSE "claim")
  /\ tmp' = IF sidecar = job[c].rev THEN tmp ELSE 0
  /\ UNCHANGED <<payload, begun, sidecar, blob, snap>>
  /\ Reclaim

Claim(c) ==
  /\ At(c, "claim")
  /\ sidecar' = job[c].rev
  /\ Goto(c, "size")
  /\ UNCHANGED <<payload, begun, data, tmp, blob, snap>>

(* Variant: the attempts are not counted.                                  *)
SizeUncounted(c) ==
  /\ At(c, "size")
  /\ Becomes(c, [job[c] EXCEPT !.pc = "open",
                               !.seen = IF tmp = 0 THEN 0 ELSE Len(data[tmp])])
  /\ UNCHANGED <<payload, begun, data, tmp, sidecar, blob, snap>>

Size(c) ==
  /\ At(c, "size")
  /\ Becomes(c, [job[c] EXCEPT !.pc = "open", !.attempt = @ + 1,
                               !.seen = IF tmp = 0 THEN 0 ELSE Len(data[tmp])])
  /\ UNCHANGED <<payload, begun, data, tmp, sidecar, blob, snap>>

(* The end of an attempt: giving up removes the temporary file; after a    *)
(* transient error another attempt follows while some are left.            *)
GivenUp(c) == Rest(c, "failed") /\ tmp' = 0
(* Variant: one attempt too many.                                          *)
RetriedTooOften(c, file) ==
  IF job[c].attempt > MaxAttempts THEN GivenUp(c)
  ELSE /\ Becomes(c, [job[c] EXCEPT !.pc = "size", !.seen = 0, !.fd = 0,
                                    !.append = FALSE, !.next = 0])
       /\ tmp' = file

Retried(c, file) ==
  IF job[c].attempt >= MaxAttempts THEN GivenUp(c)
  ELSE /\ Becomes(c, [job[c] EXCEPT !.pc = "size", !.seen = 0, !.fd = 0,
                                    !.append = FALSE, !.next = 0])
       /\ tmp' = file

(* The request fails, or the server refuses it.                            *)
RequestFails(c) ==
  /\ At(c, "open")
  /\ Retried(c, tmp) \/ GivenUp(c)
  /\ UNCHANGED <<payload, begun, sidecar, blob, snap>>
  /\ Reclaim

(* A partial file at or past the end (416), or a server that ignores the   *)
(* range (200): start over.                                                *)
RangeFails(c) ==
  /\ At(c, "open")
  /\ job[c].seen > 0
  /\ Retried(c, 0)
  /\ UNCHANGED <<payload, begun, sidecar, blob, snap>>
  /\ Reclaim

(* The open for append fails when the file has gone in the meantime.       *)
Resume(c) ==
  /\ At(c, "open")
  /\ job[c].seen \in 1 .. Chunks - 1
  /\ IF tmp = 0
     THEN GivenUp(c)
     ELSE /\ Becomes(c, [job[c] EXCEPT !.pc = "read", !.fd = tmp,
                                       !.append = TRUE, !.next = job[c].seen + 1])
          /\ UNCHANGED tmp
  /\ UNCHANGED <<payload, begun, data, sidecar, blob, snap>>

(* File::create: a new file, or the old one cut to nothing.                *)
Start(c) ==
  LET i == IF tmp = 0 THEN NewInode ELSE tmp IN
  /\ At(c, "open")
  /\ job[c].seen = 0
  /\ Becomes(c, [job[c] EXCEPT !.pc = "read", !.fd = i, !.next = 1])
  /\ tmp' = i
  /\ data' = [data EXCEPT ![i] = <<>>]
  /\ UNCHANGED <<payload, begun, sidecar, blob, snap>>

Read(c) ==
  LET j == job[c] x == <<payload[j.rev], j.next>> IN
  /\ At(c, "read")
  /\ j.next <= Chunks
  /\ data' = [data EXCEPT ![j.fd] = IF j.append THEN Append(@, x)
                                    ELSE WriteAt(@, j.next, x)]
  /\ job' = [job EXCEPT ![c].next = @ + 1]
  /\ UNCHANGED <<payload, begun, tmp, sidecar, blob, snap>>

ReadFails(c) ==
  /\ At(c, "read")
  /\ job[c].next <= Chunks
  /\ Retried(c, tmp) \/ GivenUp(c)
  /\ UNCHANGED <<payload, begun, sidecar, blob, snap>>
  /\ Reclaim

ReadEnd(c) ==
  /\ At(c, "read")
  /\ job[c].next = Chunks + 1
  /\ Becomes(c, [Blank EXCEPT !.pc = "hash", !.op = job[c].op, !.rev = job[c].rev])
  /\ UNCHANGED <<payload, begun, tmp, sidecar, blob, snap>>
  /\ Reclaim

-----------------------------------------------------------------------------
(* Publication.                                                            *)

Hashed(c) ==
  /\ Becomes(c, [job[c] EXCEPT !.pc = "promote", !.digest = data[tmp]])
  /\ UNCHANGED <<tmp, sidecar>>

(* The file at the temporary path is hashed, whoever wrote it.             *)
Hash(c) ==
  /\ At(c, "hash")
  /\ IF tmp = 0 THEN Rest(c, "failed") /\ UNCHANGED <<tmp, sidecar>>
     ELSE IF Expected(c) \in {None, data[tmp]} THEN Hashed(c)
     ELSE Rest(c, "failed") /\ tmp' = 0 /\ sidecar' = None
  /\ UNCHANGED <<payload, begun, blob, snap>>
  /\ Reclaim

Promote(c) ==
  LET h == job[c].digest IN
  /\ At(c, "promote")
  /\ \/ h \notin DOMAIN blob /\ tmp = 0 /\ Rest(c, "failed") /\ UNCHANGED blob
     \/ h \notin DOMAIN blob /\ tmp # 0 /\ Goto(c, "unclaim")
        /\ blob' = [g \in DOMAIN blob \cup {h} |-> IF g = h THEN tmp ELSE blob[g]]
     \/ h \in DOMAIN blob /\ Goto(c, "unclaim") /\ UNCHANGED blob
  /\ tmp' = 0
  /\ UNCHANGED <<payload, begun, sidecar, snap>>
  /\ Reclaim

Unclaim(c) ==
  /\ At(c, "unclaim")
  /\ sidecar' = None
  /\ Goto(c, "unlink")
  /\ UNCHANGED <<payload, begun, data, tmp, blob, snap>>

Unlink(c) ==
  /\ At(c, "unlink")
  /\ snap' = [snap EXCEPT ![job[c].rev] = None]
  /\ Goto(c, "link")
  /\ UNCHANGED <<payload, begun, data, tmp, sidecar, blob>>

(* Making a link fails where there is one.                                 *)
Link(c) ==
  /\ At(c, "link")
  /\ Rest(c, IF snap[job[c].rev] = None THEN "done" ELSE "failed")
  /\ snap' = [snap EXCEPT ![job[c].rev] = IF @ = None THEN job[c].digest ELSE @]
  /\ UNCHANGED <<payload, begun, data, tmp, sidecar, blob>>

-----------------------------------------------------------------------------
(* Removal.                                                                *)

RemoveSnapshot(c) ==
  LET r == job[c].rev IN
  /\ At(c, "rmSnap")
  /\ Becomes(c, [job[c] EXCEPT !.pc = "rmBlob",
                    !.digest = IF Present(r) THEN snap[r] ELSE <<>>])
  /\ snap' = [snap EXCEPT ![r] = None]
  /\ UNCHANGED <<payload, begun, data, tmp, sidecar, blob>>

WithoutBlob(h) == [g \in DOMAIN blob \ {h} |-> blob[g]]

(* Variant: the blob goes with its link, whoever else points at it.        *)
RemoveSharedBlob(c) ==
  /\ At(c, "rmBlob")
  /\ Rest(c, "done")
  /\ blob' = WithoutBlob(job[c].digest)
  /\ UNCHANGED <<payload, begun, tmp, sidecar, snap>>
  /\ Reclaim

RemoveBlob(c) ==
  /\ At(c, "rmBlob")
  /\ Rest(c, "done")
  /\ blob' = IF \E r \in Commits : snap[r] = job[c].digest THEN blob
             ELSE WithoutBlob(job[c].digest)
  /\ UNCHANGED <<payload, begun, tmp, sidecar, snap>>
  /\ Reclaim

-----------------------------------------------------------------------------
(* The process is killed; the files stay as they are.                      *)
Killed(c) ==
  /\ Rest(c, "idle")
  /\ UNCHANGED <<payload, begun, tmp, sidecar, blob, snap>>
  /\ Reclaim

Crash(c) == c # Daemon /\ Busy(c) /\ Killed(c)

Work(c) ==
  \/ LookUp(c)  \/ ReadSidecar(c) \/ Claim(c)   \/ Size(c)
  \/ RequestFails(c) \/ RangeFails(c) \/ Resume(c) \/ Start(c)
  \/ Read(c)    \/ ReadFails(c)   \/ ReadEnd(c)
  \/ Hash(c)    \/ Promote(c)     \/ Unclaim(c) \/ Unlink(c) \/ Link(c)
  \/ RemoveSnapshot(c) \/ RemoveBlob(c)

-----------------------------------------------------------------------------
(* Type correctness of the cache.                                          *)
CacheTypeOK ==
  /\ payload \in Histories
  /\ \A c \in Clients :
       /\ DOMAIN job[c] = DOMAIN Blank
       /\ job[c].pc \in Pcs
       /\ job[c].op \in Ops \cup {None}
       /\ job[c].rev \in Commits \cup {None}
       /\ job[c].attempt \in 0 .. MaxAttempts
       /\ job[c].fd \in Inodes \cup {0}
       /\ job[c].next \in 0 .. Chunks + 1
  /\ begun \in 0 .. MaxBegun
  /\ DOMAIN data = Inodes
  /\ tmp \in Inodes \cup {0}
  /\ sidecar \in Commits \cup {None}
  /\ \A h \in DOMAIN blob : blob[h] \in Inodes
  /\ DOMAIN snap = Commits

(* What a verified lookup returns is the whole file of the revision it was *)
(* asked for (verified_hf_cache_file), however many downloads were cut     *)
(* short and resumed by other processes.                                   *)
VerifiedIsComplete ==
  \A r \in Commits :
    Present(r) /\ Passes(r, Full(r)) => data[blob[snap[r]]] = Full(r)

(* A download that comes to its end has the file of its URL on disk: what  *)
(* an earlier process left behind is resumed only if it belongs there and  *)
(* exactly where it stops.  Otherwise a download that nothing disturbs     *)
(* fails its checksum.                                                     *)
ResumeIsExact ==
  \A c \in Clients :
    At(c, "hash") => tmp # 0 /\ data[tmp] = Full(job[c].rev)

(* A link never points nowhere, also when a removal or a download stops    *)
(* half way: is_blob_referenced_elsewhere keeps a blob that another        *)
(* revision shares, and the blob is there before its link.                 *)
LinksResolve == \A r \in Commits : snap[r] # None => Present(r)

(* Every operation comes to an end: attempts are bounded, and a refused    *)
(* range does not lead back to the same range.                             *)
OperationsEnd == \A c \in Clients : Busy(c) ~> ~Busy(c)
=============================================================================
