----------------------------- MODULE SelfUpdate -----------------------------
(***************************************************************************)
(* `raydock update` (update.rs) and the migration of the old command       *)
(* layout (command_alias.rs).  The installation is five files beside one   *)
(* another; commands replace them one after the other, without a lock, and *)
(* may stop at any of them.  Releases are numbered; VersionOf says which   *)
(* versions they are.  The code of this repository runs in the releases    *)
(* that have the execution core; the updater of the older ones is known    *)
(* only from what the code says of it, and replaces two files.             *)
(***************************************************************************)
EXTENDS Naturals, Sequences

CONSTANTS
  Releases,        \* 1..n
  VersionOf,       \* what each of them is called
  FirstCore,       \* CORE_FIRST_VERSION
  Updaters,        \* commands that may overlap
  MaxUpdates       \* bound on the commands that start

VARIABLES
  files,     \* release of launcher, daemon, core and license; 0 where there is none
  alias,     \* `rayline`: 0 when a link to the launcher, else the release of a binary
  update,    \* per command: where it is, the release it runs as, what was asked for
  started,   \* commands so far (bound)
  left       \* history: requests whose runs were cut off before they replaced the
             \* launcher; all of them once a run ended behind it or two overlapped

updateVars == <<files, alias, update, started, left>>

-----------------------------------------------------------------------------
(* The order of release versions.  A version is read as                    *)
(*   base    its numbers                     (0.2.13-dev.1+ab12 : 0,2,13)  *)
(*   suffix  the numbers and words behind it (dev, 1)                      *)
(*   build   its build label                 (ab12), which has no order    *)
(* A token of the suffix is <<"number", n>> or <<"word", w>> with w one of *)
(* Words, the labels in alphabetical order; "xyz" is one the program does  *)
(* not know.                                                               *)
Words == <<"a", "alpha", "b", "beta", "c", "dev", "main", "post", "pre", "preview",
           "r", "rc", "rev", "xyz">>
(* The release ladder, from the rawest build to the one after a release.   *)
Ladder == << {"main"}, {"dev"}, {"a", "alpha"}, {"b", "beta"},
             {"c", "pre", "preview", "rc"}, {"xyz"}, {"post", "r", "rev"} >>
PostRelease == 7
(* Variant: a label the program does not know ranks above all others.      *)
UnknownIsNewest(w) == IF w = "xyz" THEN 8 ELSE CHOOSE i \in DOMAIN Ladder : w \in Ladder[i]

TextRank(w) == CHOOSE i \in DOMAIN Ladder : w \in Ladder[i]

Alphabetical(w) == CHOOSE i \in DOMAIN Words : Words[i] = w
Tokens == ({"number"} \X Nat) \cup ({"word"} \X {Words[i] : i \in DOMAIN Words})
IsVersion(v) == v.base \in Seq(Nat) /\ v.suffix \in Seq(Tokens)

(* Numbers come before words; words by their rank, then by the alphabet.   *)
TokenLess(t, u) ==
  \/ t[1] = "number" /\ u[1] = "word"
  \/ t[1] = "number" /\ u[1] = "number" /\ t[2] < u[2]
  \/ /\ t[1] = "word" /\ u[1] = "word"
     /\ \/ TextRank(t[2]) < TextRank(u[2])
        \/ TextRank(t[2]) = TextRank(u[2]) /\ Alphabetical(t[2]) < Alphabetical(u[2])

(* A missing number of the base counts as 0.                               *)
Part(base, i) == IF i \in DOMAIN base THEN base[i] ELSE 0
BaseLess(a, b) ==
  \E i \in DOMAIN a.base \cup DOMAIN b.base :
    /\ Part(a.base, i) < Part(b.base, i)
    /\ \A j \in 1..(i - 1) : Part(a.base, j) = Part(b.base, j)
BaseEqual(a, b) == ~BaseLess(a, b) /\ ~BaseLess(b, a)

IsPost(suffix) == suffix # <<>> /\ suffix[1][1] = "word" /\ TextRank(suffix[1][2]) = PostRelease

(* A suffix whose tokens run out first is the smaller one.                 *)
TokensLess(s, t) ==
  \/ Len(s) < Len(t) /\ s = SubSeq(t, 1, Len(s))
  \/ \E i \in DOMAIN s \cap DOMAIN t :
       TokenLess(s[i], t[i]) /\ SubSeq(s, 1, i - 1) = SubSeq(t, 1, i - 1)

(* A bare release stands above its previews and below its post-releases.   *)
SuffixLess(s, t) ==
  \/ s = <<>> /\ IsPost(t)
  \/ t = <<>> /\ s # <<>> /\ ~IsPost(s)
  \/ s # <<>> /\ t # <<>> /\ TokensLess(s, t)

(* target.public_cmp(current) == Greater, with the operands swapped.       *)
PublicLess(a, b) == BaseLess(a, b) \/ (BaseEqual(a, b) /\ SuffixLess(a.suffix, b.suffix))

-----------------------------------------------------------------------------
(* The installation.                                                       *)
Names == {"launcher", "daemon", "core", "license"}
PredatesCore(r) == BaseLess(VersionOf[r], FirstCore)

(* What is asked for: the release that the channel's pointer names at that *)
(* moment, a version or channel of the user's choice, or either by force.  *)
Requests == [target : Releases, intent : {"latest", "explicit", "force"}]
Nothing == [target |-> 0, intent |-> "latest"]
Idle == [at |-> "idle", current |-> 0, ask |-> Nothing, sound |-> TRUE]
Target(u) == update[u].ask.target
Installing == {"license", "core", "launcher", "daemon", "link", "stale core", "stale license",
               "copy", "relink"}
OthersInstalling(u) == \E v \in Updaters \ {u} : update[v].at \in Installing
Overlaps(u) == OthersInstalling(u) \/ (update[u].at = "fetch" /\ update[u].current # files["launcher"])

Whole(r) == [n \in Names |-> IF n \in {"core", "license"} /\ PredatesCore(r) THEN 0 ELSE r]

Init ==
  /\ \/ \E r \in Releases : files = Whole(r) /\ alias = 0
     \/ \E r \in Releases : /\ PredatesCore(r)
                            /\ files = [Whole(r) EXCEPT !["launcher"] = 0] /\ alias = r
  /\ update = [u \in Updaters |-> Idle]
  /\ started = 0 /\ left = {}

-----------------------------------------------------------------------------
At(u, s) == update[u].at = s
Go(u, s) == update' = [update EXCEPT ![u].at = s]
End(u) == update' = [update EXCEPT ![u] = Idle]

(* A run begins to replace files: it overlaps with those that do already,  *)
(* and with one that has replaced the launcher since this run decided.     *)
Enter(u, s, ask) ==
  /\ update' = [v \in Updaters |->
       IF v = u THEN [update[u] EXCEPT !.at = s, !.ask = ask, !.sound = ~Overlaps(u)]
       ELSE IF update[v].at \in Installing THEN [update[v] EXCEPT !.sound = FALSE]
       ELSE update[v]]
  /\ left' = IF Overlaps(u) THEN Requests ELSE left

(* The command is started as `raydock`, or as `rayline` when that is a     *)
(* link to it.                                                             *)
Start(u) ==
  /\ At(u, "idle") /\ started < MaxUpdates
  /\ files["launcher"] # 0 /\ ~PredatesCore(files["launcher"])
  /\ update' = [update EXCEPT ![u] = [Idle EXCEPT !.at = "decide", !.current = files["launcher"]]]
  /\ started' = started + 1
  /\ UNCHANGED <<files, alias, left>>

(* It is started as `rayline`, which still is a binary of its own.         *)
StartLegacy(u) ==
  /\ At(u, "idle") /\ started < MaxUpdates
  /\ alias # 0 /\ ~PredatesCore(alias)
  /\ update' = [update EXCEPT ![u] = [Idle EXCEPT !.at = "migrate", !.current = alias]]
  /\ started' = started + 1
  /\ UNCHANGED <<files, alias, left>>

(* The launcher is run instead, which may be an older release by now.      *)
Forward(u) ==
  IF PredatesCore(files["launcher"]) THEN End(u)
  ELSE update' = [update EXCEPT ![u].at = "decide", ![u].current = files["launcher"]]

(* Another first invocation has replaced the binary that runs: only the    *)
(* completed layout is accepted.                                           *)
AlreadyMigrated(u) ==
  /\ At(u, "migrate") /\ alias = 0
  /\ Forward(u)
  /\ UNCHANGED <<files, alias, started, left>>

Migrate(u) ==
  /\ At(u, "migrate") /\ alias # 0
  /\ Enter(u, "copy", [Nothing EXCEPT !.target = alias])
  /\ UNCHANGED <<files, alias, started>>

(* The staged copy is moved over the launcher.                             *)
MigrateLauncher(u) ==
  /\ At(u, "copy")
  /\ files' = [files EXCEPT !["launcher"] = Target(u)]
  /\ Go(u, "relink")
  /\ UNCHANGED <<alias, started, left>>

MigrateAlias(u) ==
  /\ At(u, "relink")
  /\ alias' = 0
  /\ Forward(u)
  /\ UNCHANGED <<files, started, left>>

(* The updater of a release without the core, which replaces the binary it *)
(* runs as and the daemon.                                                 *)
OldUpdate ==
  /\ started < MaxUpdates /\ \A u \in Updaters : At(u, "idle")
  /\ \E r \in Releases \ {files["daemon"]} :
       \/ /\ alias # 0 /\ files["launcher"] = 0 /\ PredatesCore(alias)
          /\ alias' = r /\ files' = [files EXCEPT !["daemon"] = r]
       \/ /\ files["launcher"] # 0 /\ PredatesCore(files["launcher"])
          /\ files' = [files EXCEPT !["daemon"] = r, !["launcher"] = r] /\ alias' = alias
  /\ started' = started + 1
  /\ UNCHANGED <<update, left>>

-----------------------------------------------------------------------------
(* evaluate_check: a version or channel that was asked for may go back.    *)
Available(current, q) ==
  CASE q.intent = "force"    -> TRUE
    [] q.intent = "explicit" -> VersionOf[q.target] # VersionOf[current]
    [] q.intent = "latest"   -> PublicLess(VersionOf[current], VersionOf[q.target])

(* What a request is answered before anything is downloaded.               *)
Decision(current, q) ==
  IF Available(current, q) THEN "update"
  ELSE IF files["core"] # 0 THEN "latest"
  ELSE IF q.target # current THEN "name repair"
  ELSE "update"

Answered(u) ==
  /\ At(u, "decide")
  /\ \E q \in Requests : Decision(update[u].current, q) # "update"
  /\ End(u)
  /\ UNCHANGED <<files, alias, started, left>>

Accepted(u, q) ==
  /\ At(u, "decide")
  /\ Decision(update[u].current, q) = "update"
  /\ update' = [update EXCEPT ![u].at = "fetch", ![u].ask = q]
  /\ UNCHANGED <<files, alias, started, left>>

(* The pointer cannot be fetched, a download fails, is not signed or has   *)
(* the wrong digest, or a newer release lists no core; --check and         *)
(* --dry-run end here as well.                                             *)
NotInstalled(u) ==
  /\ update[u].at \in {"decide", "fetch"}
  /\ End(u)
  /\ UNCHANGED <<files, alias, started, left>>

(* Every artifact is verified before the first file is replaced.           *)
FirstStep(r) == IF PredatesCore(r) THEN "launcher" ELSE "license"
Verified(u) ==
  /\ At(u, "fetch")
  /\ Enter(u, FirstStep(Target(u)), update[u].ask)
  /\ UNCHANGED <<files, alias, started>>

-----------------------------------------------------------------------------
(* Variant: the core stays when a release without one is installed.        *)
FollowingKeepCore(s, r) ==
  CASE s = "license" -> "core"
    [] s = "core" -> "launcher"
    [] s = "launcher" -> "daemon"
    [] s = "daemon" -> "link"
    [] OTHER -> "done"

(* The order of the replacements, and after which of them a run that ends  *)
(* is not repeated by the next one.                                        *)
Following(s, r) ==
  CASE s = "license" -> "core"
    [] s = "core" -> "launcher"
    [] s = "launcher" -> "daemon"
    [] s = "daemon" -> "link"
    [] s = "link" -> IF PredatesCore(r) THEN "stale core" ELSE "done"
    [] s = "stale core" -> "stale license"
    [] OTHER -> "done"

Advance(u, s) ==
  LET next == Following(s, Target(u))
  IN  IF next = "done"
      THEN /\ End(u)
           /\ left' = IF update[u].sound THEN {} ELSE left
      ELSE Go(u, next) /\ UNCHANGED left

(* replace_file: a staged copy is moved over the file.                     *)
Replace(u, n) ==
  /\ At(u, n)
  /\ files' = [files EXCEPT ![n] = Target(u)]
  /\ Advance(u, n)
  /\ UNCHANGED <<alias, started>>

InstallAlias(u) ==
  /\ At(u, "link")
  /\ alias' = 0
  /\ Advance(u, "link")
  /\ UNCHANGED <<files, started>>

(* remove_stale_core                                                       *)
RemoveStale(u) ==
  \/ /\ At(u, "stale core")
     /\ files' = [files EXCEPT !["core"] = 0]
     /\ Advance(u, "stale core")
     /\ UNCHANGED <<alias, started>>
  \/ /\ At(u, "stale license")
     /\ files' = [files EXCEPT !["license"] = 0]
     /\ Advance(u, "stale license")
     /\ UNCHANGED <<alias, started>>

(* It cannot be removed: the user is told to, and the update has succeeded.*)
RemoveFails(u) ==
  /\ update[u].at \in {"stale core", "stale license"}
  /\ IF At(u, "stale core")
     THEN update' = [update EXCEPT ![u].at = "stale license", ![u].sound = FALSE]
     ELSE End(u)
  /\ left' = Requests
  /\ UNCHANGED <<files, alias, started>>

(* A file cannot be staged or moved, or the command is killed.             *)
CutOff(u) ==
  /\ update[u].at \in Installing
  /\ End(u)
  /\ left' = CASE update[u].at \in {"license", "core", "launcher"} -> left \cup {update[u].ask}
               [] update[u].at \in {"copy", "relink"} -> left
               [] OTHER -> Requests
  /\ UNCHANGED <<files, alias, started>>

UpdateNext ==
  \/ OldUpdate
  \/ \E u \in Updaters :
       \/ Start(u) \/ StartLegacy(u) \/ AlreadyMigrated(u)
       \/ Migrate(u) \/ MigrateLauncher(u) \/ MigrateAlias(u)
       \/ Answered(u) \/ \E q \in Requests : Accepted(u, q)
       \/ NotInstalled(u) \/ Verified(u)
       \/ \E n \in Names : Replace(u, n)
       \/ InstallAlias(u) \/ RemoveStale(u) \/ RemoveFails(u) \/ CutOff(u)

-----------------------------------------------------------------------------
UpdateTypeOK ==
  /\ files \in [Names -> Releases \cup {0}]
  /\ alias \in Releases \cup {0}
  /\ left \subseteq Requests

Consistent == files = Whole(files["launcher"]) /\ alias = 0

(* update.rs 175-196 and docs/hybrid-routing.md 428-440: an update that    *)
(* succeeds leaves files of one release, without a core where the release  *)
(* has none, and `rayline` is a link; "already on latest" is said of files *)
(* of one release only, so a run that was cut off is finished by the same  *)
(* request.  Excepted are runs that ended behind the launcher, or          *)
(* overlapped: the code cannot see what they left.                         *)
SuccessIsWhole ==
  \A u \in Updaters :
    update[u].at \in {"daemon", "link", "stale core", "stale license"} /\ update'[u].at = "idle"
      => left' = Requests \/ Consistent'

LatestIsWhole ==
  \A u \in Updaters, q \in Requests :
    /\ At(u, "decide")
    /\ Decision(update[u].current, q) = "latest"
    /\ left \subseteq {q} /\ ~OthersInstalling(u)
    /\ update[u].current = files["launcher"]
    => files = Whole(files["launcher"])

(* update.rs 1126-1290: the versions are in one order, whatever suffixes   *)
(* they carry, so that following the channel never leads round in a circle;*)
(* the ladder from main over dev to the release and what follows it is     *)
(* part of that order.                                                     *)
OrderIsStrict(versions) ==
  /\ \A a, b \in versions : PublicLess(a, b) => ~PublicLess(b, a)
  /\ \A a, b, c \in versions : PublicLess(a, b) => PublicLess(a, c) \/ PublicLess(c, b)
=============================================================================
