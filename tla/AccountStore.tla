---------------------------- MODULE AccountStore ----------------------------
(***************************************************************************)
(* credentials.json, as the commands that sign in, sign out, refresh a     *)
(* token and mint a router key read and rewrite it.  The file holds, for   *)
(* one environment, the login and the router key minted under it.  No lock *)
(* is taken: a command reads the file, may wait for the service, and       *)
(* writes the whole file back (by a rename, so it is never torn).          *)
(*                                                                         *)
(* The settings say which kind of login the environment uses, "session" or *)
(* "legacy"; a login of the other kind counts as none.                     *)
(***************************************************************************)
EXTENDS Naturals

CONSTANTS
  Callers,      \* processes that run a command, one after the other
  Accounts,     \* accounts of the service
  MaxCommands,  \* bound: commands that are begun
  Absent        \* no login, no key, no token

VARIABLES
  kind,     \* the kind of login the settings ask for
  login,    \* the login that is stored
  stored,   \* the router key that is stored
  call,     \* what each process does
  begun,    \* commands begun so far
  mixed     \* history: a command wrote what it had read before another one
            \* changed the account, and no sign-out has cleared it since

Kinds == {"session", "legacy"}

(* `owner` is who the tokens belong to, `subject` what the entry records.  *)
Login == [kind : Kinds, owner : Accounts, subject : Accounts \cup {Absent}, fresh : BOOLEAN]
Token == [owner : Accounts, own : BOOLEAN]

(* `own`: minted with the token of the stored login, not with one given on *)
(* the command line or in the environment.                                 *)
Key == Token

File == [login : Login \cup {Absent}, stored : Key \cup {Absent}]

Stages == {"idle", "key", "token", "refresh", "signin", "exchange", "mint", "revoke",
           "merge", "write"}

(* How a login is obtained; "headless" asks a device that has a browser.   *)
Ways == {"browser", "paste", "headless"}

Call == [op : {"launch", "mint", "login", "logout", "forget"}, at : Stages,
         given : Token \cup {Absent}, asks : BOOLEAN, by : Ways, token : Token \cup {Absent},
         result : Login \cup {Absent}, copy : File, stale : BOOLEAN]

NoFile == [login |-> Absent, stored |-> Absent]
Idle == [op |-> "login", at |-> "idle", given |-> Absent, asks |-> FALSE, by |-> "browser",
         token |-> Absent,
         result |-> Absent, copy |-> NoFile, stale |-> FALSE]

Now == [login |-> login, stored |-> stored]

Init ==
  /\ kind \in Kinds
  /\ login = Absent
  /\ stored = Absent
  /\ call = [c \in Callers |-> Idle]
  /\ begun = 0
  /\ mixed = FALSE

KeepsFile == UNCHANGED <<kind, login, stored, begun, mixed>>
Goes(c, new) == call' = [call EXCEPT ![c] = new]
Ends(c) == Goes(c, Idle) /\ KeepsFile

-----------------------------------------------------------------------------
(* The beginning of each command.                                          *)

Begin(c, new) ==
  /\ call[c].at = "idle"
  /\ begun < MaxCommands
  /\ begun' = begun + 1
  /\ Goes(c, new)
  /\ UNCHANGED <<kind, login, stored, mixed>>

(* A launch needs the router key.  A token on the command line mints one   *)
(* at once; one in the environment is used if no key is stored.            *)
LaunchWith(c, given) ==
  \/ Begin(c, [Idle EXCEPT !.op = "launch", !.at = "mint", !.token = given])
  \/ Begin(c, [Idle EXCEPT !.op = "launch", !.at = "key", !.given = given])

Launch(c) ==
  \/ \E a \in Accounts : LaunchWith(c, [owner |-> a, own |-> FALSE])
  \/ \E asks \in BOOLEAN :
       Begin(c, [Idle EXCEPT !.op = "launch", !.at = "key", !.asks = asks])

Mint(c) == Begin(c, [Idle EXCEPT !.op = "mint", !.at = "token"])
SignIn(c) == \E way \in Ways : Begin(c, [Idle EXCEPT !.at = "signin", !.by = way])
Logout(c) == Begin(c, [Idle EXCEPT !.op = "logout", !.at = "revoke"])
ForgetKey(c) == Begin(c, [Idle EXCEPT !.op = "forget", !.at = "merge"])

-----------------------------------------------------------------------------
(* The key and the token.                                                  *)

UseStored(c) ==
  /\ call[c].at = "key"
  /\ stored # Absent
  /\ Ends(c)

NeedsKey(c) ==
  /\ call[c].at = "key"
  /\ stored = Absent
  /\ Goes(c, [call[c] EXCEPT !.at = "token"])
  /\ KeepsFile

UseGiven(c) ==
  /\ call[c].at = "token"
  /\ call[c].given # Absent
  /\ Goes(c, [call[c] EXCEPT !.at = "mint", !.token = call[c].given])
  /\ KeepsFile

LoggedIn == login # Absent /\ login.kind = kind

(* Someone at a terminal is asked to sign in, once.                        *)
AskOrEnd(c) ==
  IF call[c].asks
  THEN /\ \E way \in Ways \ {"paste"} :
            Goes(c, [call[c] EXCEPT !.at = "signin", !.by = way, !.asks = FALSE,
                                    !.token = Absent, !.copy = NoFile, !.stale = FALSE])
       /\ KeepsFile
  ELSE Ends(c)

ResolveToken(c) ==
  /\ call[c].at = "token"
  /\ call[c].given = Absent
  /\ IF ~LoggedIn THEN AskOrEnd(c)
     ELSE /\ Goes(c, [call[c] EXCEPT
                        !.at = IF login.fresh THEN "mint" ELSE "refresh",
                        !.token = [owner |-> login.owner, own |-> TRUE],
                        !.copy = Now, !.stale = FALSE])
          /\ KeepsFile

(* The service answers a refresh with a login of the same account.  Where  *)
(* a session's answer does not name the subject, the recorded one stays.   *)
Refreshed(old) == [old EXCEPT !.fresh = TRUE]

(* A session is saved by reading the file again; a legacy login is written *)
(* into the copy that was read before the service was asked.               *)
Refresh(c) ==
  /\ call[c].at = "refresh"
  /\ LET old == call[c].copy.login
     IN  Goes(c, [call[c] EXCEPT !.at = IF old.kind = "session" THEN "merge" ELSE "write",
                                 !.result = Refreshed(old)])
  /\ KeepsFile

RefreshFails(c) ==
  /\ call[c].at = "refresh"
  /\ AskOrEnd(c)

-----------------------------------------------------------------------------
(* Signing in.                                                             *)

CodeArrives(c, way) ==
  /\ call[c].at = "signin"
  /\ call[c].by = way
  /\ Goes(c, [call[c] EXCEPT !.at = "exchange", !.by = "browser"])
  /\ KeepsFile

(* The browser comes back to the loopback address.  A connection without a *)
(* code, or with the code of another attempt, is answered and leaves the   *)
(* command waiting: what it goes on with is its own attempt's code.        *)
CallbackArrives(c) == CodeArrives(c, "browser")

(* The same with an address that is pasted; another attempt's is refused.  *)
Paste(c) == kind = "session" /\ CodeArrives(c, "paste")

(* A legacy one carries the refresh token itself.                          *)
LegacyPaste(c) == kind = "legacy" /\ CodeArrives(c, "paste")

(* The login that is the result; whether a legacy token names its subject  *)
(* is up to the service.                                                   *)
NewLogins == {l \in Login :
  /\ l.kind = kind
  /\ l.fresh
  /\ l.subject \in {l.owner} \cup (IF kind = "legacy" THEN {Absent} ELSE {})}

Obtained(c, new) ==
  /\ Goes(c, [call[c] EXCEPT !.at = "merge", !.result = new, !.stale = FALSE])
  /\ KeepsFile

Exchange(c) ==
  /\ call[c].at = "exchange"
  /\ kind = "session"
  /\ \E new \in NewLogins : Obtained(c, new)

(* A legacy code is exchanged for a token that is refreshed at once.       *)
LegacyExchange(c) ==
  /\ call[c].at = "exchange"
  /\ kind = "legacy"
  /\ \E new \in NewLogins : Obtained(c, new)

(* Without a browser: the service is polled until the code is approved; a  *)
(* legacy approval is then exchanged.                                      *)
DeviceApproved(c) ==
  /\ call[c].at = "signin" /\ call[c].by = "headless"
  /\ kind = "session"
  /\ \E new \in NewLogins : Obtained(c, new)

LegacyDeviceApproved(c) == kind = "legacy" /\ CodeArrives(c, "headless")

(* Denied, expired, timed out, or an answer that cannot be used.           *)
SignInFails(c) ==
  /\ call[c].at \in {"signin", "exchange"}
  /\ Ends(c)

-----------------------------------------------------------------------------
(* The service's answers to the other requests.                            *)

Minted(c) ==
  /\ call[c].at = "mint"
  /\ Goes(c, [call[c] EXCEPT !.at = "merge", !.result = Absent])
  /\ KeepsFile

MintFails(c) == call[c].at = "mint" /\ Ends(c)

(* A failed revocation is reported and changes nothing else.               *)
Revoke(c) ==
  /\ call[c].at = "revoke"
  /\ Goes(c, [call[c] EXCEPT !.at = "merge"])
  /\ KeepsFile

-----------------------------------------------------------------------------
(* Rewriting the file.                                                     *)

(* Whether the account that signs in is provably the stored one.           *)
SameAccount(old, new) ==
  /\ old # Absent
  /\ old.kind = new.kind
  /\ old.subject # Absent
  /\ old.subject = new.subject

Saved(copy, new) ==
  [login |-> new, stored |-> IF SameAccount(copy.login, new) THEN copy.stored ELSE Absent]

LegacyRefresh(it) ==
  it.token # Absent /\ it.result # Absent /\ it.result.kind = "legacy"

(* A mutated form: signing out keeps the router key.                       *)
RewrittenKeepingKey(it) ==
  IF it.op = "logout" THEN [it.copy EXCEPT !.login = Absent]
  ELSE IF it.op = "forget" THEN [it.copy EXCEPT !.stored = Absent]
  ELSE IF it.result = Absent THEN [it.copy EXCEPT !.stored = it.token]
  ELSE IF LegacyRefresh(it) THEN [it.copy EXCEPT !.login = it.result]
  ELSE Saved(it.copy, it.result)

(* What the command makes of the file it read.                             *)
Rewritten(it) ==
  IF it.op = "logout" THEN NoFile
  ELSE IF it.op = "forget" THEN [it.copy EXCEPT !.stored = Absent]
  ELSE IF it.result = Absent THEN [it.copy EXCEPT !.stored = it.token]
  ELSE IF LegacyRefresh(it) THEN [it.copy EXCEPT !.login = it.result]
  ELSE Saved(it.copy, it.result)

Merge(c) ==
  /\ call[c].at = "merge"
  /\ Goes(c, [call[c] EXCEPT !.at = "write", !.copy = Now,
                             !.stale = @ /\ call[c].token # Absent])
  /\ KeepsFile

NothingToClear(c) ==
  /\ call[c].at = "merge"
  /\ \/ call[c].op = "logout" /\ Now = NoFile
     \/ call[c].op = "forget" /\ stored = Absent
  /\ Ends(c)

Owner(l) == IF l = Absent THEN Absent ELSE l.owner

(* What the process goes on with: a refresh and a sign-in within a launch  *)
(* lead to the key, everything else is done.                               *)
Continues(c) ==
  IF call[c].result = Absent \/ call[c].op \notin {"launch", "mint"} THEN Idle
  ELSE [call[c] EXCEPT !.at = IF call[c].token = Absent THEN "token" ELSE "mint",
                       !.result = Absent, !.copy = NoFile]

Write(c) ==
  /\ call[c].at = "write"
  /\ LET new == Rewritten(call[c])
         turns == Owner(new.login) # Owner(login)
     IN  /\ login' = new.login
         /\ stored' = new.stored
         /\ call' = [d \in Callers |->
              IF d = c THEN Continues(c)
              ELSE [call[d] EXCEPT !.stale = @ \/ (turns /\ call[d].at # "idle")]]
         /\ mixed' = (call[c].stale \/ (mixed /\ new # NoFile))
  /\ UNCHANGED <<kind, begun>>

-----------------------------------------------------------------------------
(* What happens beside the commands.                                       *)

(* A command is killed; its temporary file has a name of its own.          *)
Killed(c) == call[c].at # "idle" /\ Ends(c)

(* The token comes within the margin of its expiry.                        *)
Expire ==
  /\ login # Absent /\ login.fresh
  /\ login' = [login EXCEPT !.fresh = FALSE]
  /\ UNCHANGED <<kind, stored, call, begun, mixed>>

(* The settings of the environment are edited while no command runs.       *)
Reconfigure ==
  /\ \A c \in Callers : call[c].at = "idle"
  /\ kind' \in Kinds \ {kind}
  /\ UNCHANGED <<login, stored, call, begun, mixed>>

AccountStep(c) ==
  \/ Launch(c) \/ Mint(c) \/ SignIn(c) \/ Logout(c) \/ ForgetKey(c)
  \/ UseStored(c) \/ NeedsKey(c) \/ UseGiven(c) \/ ResolveToken(c) \/ Refresh(c) \/ RefreshFails(c)
  \/ CallbackArrives(c) \/ Paste(c) \/ LegacyPaste(c) \/ Exchange(c) \/ LegacyExchange(c)
  \/ DeviceApproved(c) \/ LegacyDeviceApproved(c) \/ SignInFails(c)
  \/ Minted(c) \/ MintFails(c) \/ Revoke(c)
  \/ Merge(c) \/ NothingToClear(c) \/ Write(c) \/ Killed(c)

AccountNext == Expire \/ Reconfigure \/ \E c \in Callers : AccountStep(c)

-----------------------------------------------------------------------------
AccountTypeOK ==
  /\ kind \in Kinds
  /\ Now \in File
  /\ call \in [Callers -> Call]
  /\ begun \in 0 .. MaxCommands
  /\ mixed \in BOOLEAN

(* A key that was minted under a login is of the account that is signed in *)
(* now: neither a sign-out nor a login as somebody else leaves it behind,  *)
(* and a refresh does not bring it back (status.rs, logout_from_home: "so  *)
(* a later login as a different account cannot keep routing on the         *)
(* previous account's key").  Commands that overlap with a change of       *)
(* account can break it until the next sign-out: no lock is taken.         *)
KeyIsOfAccount ==
  ~mixed /\ stored # Absent /\ stored.own => Owner(login) = stored.owner
=============================================================================
