------------------------- MODULE HostCommands_proofs -------------------------
(***************************************************************************)
(* Proofs about HostCommands: the types of its parts, and for each the     *)
(* property the runs check.  The parts have nothing in common, so each has *)
(* an inductive invariant of its own; the order of the versions, which     *)
(* SelfUpdate relies on, is proved for sequences of any length.            *)
(***************************************************************************)
EXTENDS HostCommands, FiniteSetTheorems, SequenceTheorems, WellFoundedInduction, TLAPS

(***************************************************************************)
(* Credentials.  What a command holds fits what is stored, unless the      *)
(* account has changed since; what it read is marked stale then.           *)
(***************************************************************************)
AccountConstants ==
  /\ NoValue \notin Accounts /\ MaxCommands \in Nat
  /\ NoValue \notin A!Login /\ NoValue \notin A!Key

LEMMA AccountAssumptions == AccountConstants
  BY HostAssumption DEF AccountConstants

(* A login names the account its tokens belong to, or none.                *)
NamesOwner(l) == l # NoValue => l.subject \in {l.owner, NoValue}

(* What a command works with: `it` is its entry in call.                   *)
TokenFits(it) ==
  /\ it.given # NoValue => it.given.own = FALSE
  /\ it.at \in {"key", "token", "signin", "exchange", "revoke"} => it.token = NoValue
  /\ (it.at \in {"refresh", "merge", "write", "mint"} /\ it.token # NoValue
        /\ it.token.own = TRUE /\ it.stale = FALSE) => A!Owner(login) = it.token.owner
  /\ (it.at \in {"merge", "write"} /\ it.token # NoValue /\ it.result # NoValue)
       => it.result.owner = it.token.owner /\ it.token.own = TRUE

(* What it has read: the key was that of the login when it was read.       *)
CopyFits(it) ==
  /\ it.at = "refresh" => /\ it.copy.login # NoValue /\ it.token # NoValue
                          /\ it.token.own = TRUE /\ it.copy.login.owner = it.token.owner
  /\ (it.at \in {"refresh", "write"} /\ it.stale = FALSE) =>
       /\ A!Owner(it.copy.login) = A!Owner(login)
       /\ \/ mixed = TRUE
          \/ it.copy.login = NoValue
          \/ it.copy.stored # NoValue /\ it.copy.stored.own = TRUE
               => it.copy.stored.owner = it.copy.login.owner

Fits(it) ==
  NamesOwner(it.copy.login) /\ NamesOwner(it.result) /\ TokenFits(it) /\ CopyFits(it)

AccountTypes ==
  /\ kind \in A!Kinds
  /\ login \in A!Login \cup {NoValue} /\ stored \in A!Key \cup {NoValue}
  /\ call \in [Launchers -> A!Call]
  /\ begun \in 0 .. MaxCommands

KeyFits ==
  (mixed = FALSE /\ stored # NoValue /\ stored.own = TRUE) => A!Owner(login) = stored.owner

AccountInv ==
  /\ AccountTypes /\ mixed \in BOOLEAN
  /\ NamesOwner(login) /\ KeyFits
  /\ \A c \in Launchers : Fits(call[c])

LEMMA IdleFits == A!Idle \in A!Call /\ Fits(A!Idle) /\ A!Idle.at = "idle"
  BY DEF A!Idle, A!NoFile, A!Call, A!Stages, A!Ways, A!File, Fits, NamesOwner, TokenFits, CopyFits

(* A step that leaves the file alone.                                      *)
LEMMA OneCommand ==
  ASSUME AccountInv, NEW c \in Launchers, NEW it \in A!Call, Fits(it),
         call' = [call EXCEPT ![c] = it], begun' \in 0 .. MaxCommands,
         UNCHANGED <<kind, login, stored, mixed>>
  PROVE  AccountInv'
  <1>1. AccountTypes'  BY DEF AccountInv, AccountTypes
  <1>2. mixed' \in BOOLEAN /\ NamesOwner(login)' /\ KeyFits'
    BY Zenon DEF AccountInv, NamesOwner, KeyFits, A!Owner
  <1>3. ASSUME NEW d \in Launchers PROVE Fits(call[d])'
    <2>1. call'[d] = IF d = c THEN it ELSE call[d]  BY DEF AccountInv, AccountTypes
    <2>2. Fits(call'[d])  BY <2>1 DEF AccountInv
    <2> QED BY <2>2 DEF Fits, NamesOwner, TokenFits, CopyFits, A!Owner
  <1> QED BY <1>1, <1>2, <1>3 DEF AccountInv

(* Commands begin with nothing in hand but, perhaps, a token they were     *)
(* given.                                                                  *)
LEMMA BeginInv ==
  ASSUME AccountConstants, AccountInv, NEW c \in Launchers, NEW it \in A!Call, Fits(it), A!Begin(c, it)
  PROVE  AccountInv'
  <1>1. call' = [call EXCEPT ![c] = it] /\ UNCHANGED <<kind, login, stored, mixed>>
    BY DEF A!Begin, A!Goes
  <1>2. begun' \in 0 .. MaxCommands
    BY DEF A!Begin, AccountConstants, AccountInv, AccountTypes
  <1> QED BY <1>1, <1>2, OneCommand

LEMMA BeginsInv ==
  ASSUME AccountConstants, AccountInv, NEW c \in Launchers,
         A!Launch(c) \/ A!Mint(c) \/ A!SignIn(c) \/ A!Logout(c) \/ A!ForgetKey(c)
  PROVE  AccountInv'
  <1> USE DEF A!Idle, A!NoFile, A!Call, A!Stages, A!Ways, A!File, A!Token, Fits, NamesOwner, TokenFits, CopyFits
  <1>1. ASSUME NEW a \in Accounts
        PROVE  LET given == [owner |-> a, own |-> FALSE]
                   one == [A!Idle EXCEPT !.op = "launch", !.at = "mint", !.token = given]
                   two == [A!Idle EXCEPT !.op = "launch", !.at = "key", !.given = given]
               IN  one \in A!Call /\ Fits(one) /\ two \in A!Call /\ Fits(two)
    OBVIOUS
  <1>2. \A asks \in BOOLEAN :
          LET it == [A!Idle EXCEPT !.op = "launch", !.at = "key", !.asks = asks]
          IN  it \in A!Call /\ Fits(it)
    OBVIOUS
  <1>3. LET it == [A!Idle EXCEPT !.op = "mint", !.at = "token"] IN it \in A!Call /\ Fits(it)
    OBVIOUS
  <1>4. \A way \in A!Ways : LET it == [A!Idle EXCEPT !.at = "signin", !.by = way]
                            IN it \in A!Call /\ Fits(it)
    OBVIOUS
  <1>5. LET it == [A!Idle EXCEPT !.op = "logout", !.at = "revoke"] IN it \in A!Call /\ Fits(it)
    OBVIOUS
  <1>6. LET it == [A!Idle EXCEPT !.op = "forget", !.at = "merge"] IN it \in A!Call /\ Fits(it)
    OBVIOUS
  <1>7. \E it \in A!Call : Fits(it) /\ A!Begin(c, it)
    <2> USE <1>1, <1>2, <1>3, <1>4, <1>5, <1>6
    <2> HIDE DEF A!Idle, A!NoFile, A!Call, A!Stages, A!File, A!Token, Fits
    <2> QED BY Zenon DEF A!Launch, A!LaunchWith, A!Mint, A!SignIn, A!Logout, A!ForgetKey
  <1> QED BY <1>7, BeginInv

LEMMA GoesInv ==
  ASSUME AccountInv, NEW c \in Launchers, NEW it \in A!Call, Fits(it), A!Goes(c, it), A!KeepsFile
  PROVE  AccountInv'
  <1>1. call' = [call EXCEPT ![c] = it] /\ UNCHANGED <<kind, login, stored, mixed>>
          /\ begun' \in 0 .. MaxCommands
    BY DEF A!Goes, A!KeepsFile, AccountInv, AccountTypes
  <1> QED BY <1>1, OneCommand

LEMMA EndsInv == ASSUME AccountInv, NEW c \in Launchers, A!Ends(c) PROVE AccountInv'
  BY IdleFits, GoesInv DEF A!Ends

(* The entry of a command has all its fields.                              *)
LEMMA CallParts ==
  ASSUME AccountInv, NEW c \in Launchers
  PROVE  /\ call[c] \in A!Call /\ Fits(call[c])
         /\ login \in A!Login \cup {NoValue} /\ NamesOwner(login)
         /\ A!Now \in A!File /\ A!Now.login = login /\ A!Now.stored = stored
  BY DEF AccountInv, AccountTypes, A!Call, A!File, A!Now, A!Key

LEMMA NoFileParts == A!NoFile \in A!File /\ A!NoFile.login = NoValue /\ A!NoFile.stored = NoValue
  BY DEF A!NoFile, A!File

(* What a step changes in a command's entry, where it concerns its fit.    *)
LEMMA CallFields ==
  ASSUME NEW it \in A!Call
  PROVE  /\ it.given \in A!Token \cup {NoValue} /\ it.token \in A!Token \cup {NoValue}
         /\ it.result \in A!Login \cup {NoValue} /\ it.copy \in A!File
         /\ it.copy.login \in A!Login \cup {NoValue}
         /\ it.copy.stored \in A!Token \cup {NoValue}
         /\ it.stale = TRUE \/ it.stale = FALSE
  BY DEF A!Call, A!File, A!Key

LEMMA AskInv ==
  ASSUME AccountInv, NEW c \in Launchers, A!AskOrEnd(c)
  PROVE  AccountInv'
  <1>0. PICK it \in A!Call : it = call[c]  BY CallParts
  <1>1. Fits(it)  BY <1>0, CallParts
  <1>2. CASE A!Ends(c)  BY <1>2, EndsInv
  <1>3. ASSUME NEW way \in A!Ways,
               A!Goes(c, [it EXCEPT !.at = "signin", !.by = way, !.asks = FALSE,
                            !.token = NoValue, !.copy = A!NoFile, !.stale = FALSE]),
               A!KeepsFile
        PROVE  AccountInv'
    <2> DEFINE f == A!NoFile
    <2>1. f \in A!File /\ f.login = NoValue  BY NoFileParts
    <2> HIDE DEF f
    <2> DEFINE new == [it EXCEPT !.at = "signin", !.by = way, !.asks = FALSE,
                          !.token = NoValue, !.copy = f, !.stale = FALSE]
    <2>2. new \in A!Call  BY <2>1 DEF A!Call, A!Stages
    <2>3. Fits(new)
      BY <1>1, <2>1 DEF A!Call, Fits, NamesOwner, TokenFits, CopyFits
    <2> QED BY <1>3, <2>2, <2>3, GoesInv DEF f
  <1> QED BY <1>0, <1>2, <1>3, Zenon DEF A!AskOrEnd

LEMMA TokenInv ==
  ASSUME AccountConstants, AccountInv, NEW c \in Launchers,
         A!UseStored(c) \/ A!NeedsKey(c) \/ A!UseGiven(c) \/ A!ResolveToken(c)
           \/ A!Refresh(c) \/ A!RefreshFails(c)
  PROVE  AccountInv'
  <1>0. PICK it \in A!Call : it = call[c]  BY CallParts
  <1>a. Fits(it) /\ login \in A!Login \cup {NoValue} /\ NamesOwner(login)
    BY <1>0, CallParts
  <1>1. CASE A!UseStored(c)  BY <1>1, EndsInv DEF A!UseStored
  <1>2. CASE A!NeedsKey(c)
    <2> DEFINE new == [it EXCEPT !.at = "token"]
    <2>1. it.at = "key" /\ A!Goes(c, new) /\ A!KeepsFile
      BY <1>0, <1>2, Zenon DEF A!NeedsKey
    <2>2. new \in A!Call  BY DEF A!Call, A!Stages
    <2>3. Fits(new)  BY <1>a, <2>1 DEF A!Call, Fits, TokenFits, CopyFits
    <2> QED BY <2>1, <2>2, <2>3, GoesInv
  <1>3. CASE A!UseGiven(c)
    <2> DEFINE new == [it EXCEPT !.at = "mint", !.token = it.given]
    <2>1. it.at = "token" /\ A!Goes(c, new) /\ A!KeepsFile
      BY <1>0, <1>3, Zenon DEF A!UseGiven
    <2>2. new \in A!Call  BY DEF A!Call, A!Stages
    <2>3. Fits(new)  BY <1>a, <2>1 DEF A!Call, Fits, TokenFits, CopyFits
    <2> QED BY <2>1, <2>2, <2>3, GoesInv
  <1>5. CASE A!ResolveToken(c)
    <2>1. CASE A!AskOrEnd(c)  BY <2>1, AskInv
    <2> DEFINE s == IF login.fresh THEN "mint" ELSE "refresh"
               t == [owner |-> login.owner, own |-> TRUE]
               f == A!Now
               new == [it EXCEPT !.at = s, !.token = t, !.copy = f, !.stale = FALSE]
    <2>2. CASE A!LoggedIn /\ A!Goes(c, new) /\ A!KeepsFile
      <3>1. login \in A!Login /\ login # NoValue  BY <1>a, <2>2 DEF A!LoggedIn
      <3>2. /\ s \in {"mint", "refresh"} /\ f \in A!File /\ f.login = login /\ f.stored = stored
            /\ t \in A!Token /\ t.owner = login.owner /\ t.own = TRUE /\ t # NoValue
        <4>1. s \in {"mint", "refresh"}  OBVIOUS
        <4>2. f \in A!File /\ f.login = login /\ f.stored = stored  BY CallParts
        <4>3. login.owner \in Accounts  BY <3>1 DEF A!Login
        <4>4. t \in A!Token /\ t.owner = login.owner /\ t.own = TRUE
          BY <4>3 DEF A!Token
        <4>5. t # NoValue  BY <4>4 DEF AccountConstants, A!Key
        <4> QED BY <4>1, <4>2, <4>4, <4>5
      <3> HIDE DEF s, t, f
      <3>3. new \in A!Call  BY <3>2 DEF A!Call, A!Stages
      <3>4. mixed = TRUE \/ mixed = FALSE  BY DEF AccountInv
      <3>5. Fits(new)
        BY <1>a, <3>1, <3>2, <3>4
           DEF A!Call, Fits, NamesOwner, TokenFits, CopyFits, AccountInv, KeyFits, A!Owner
      <3> QED BY <2>2, <3>3, <3>5, GoesInv
    <2> QED BY <1>0, <1>5, <2>1, <2>2, Zenon DEF A!ResolveToken
  <1>6. CASE A!Refresh(c)
    <2> DEFINE old == it.copy.login
               s == IF old.kind = "session" THEN "merge" ELSE "write"
               r == A!Refreshed(old)
               new == [it EXCEPT !.at = s, !.result = r]
    <2>1. old \in A!Login /\ old # NoValue /\ it.at = "refresh"
      BY <1>0, <1>a, <1>6, CallFields DEF A!Refresh, Fits, CopyFits
    <2>2. r \in A!Login /\ NamesOwner(r) /\ r.owner = old.owner /\ s \in {"merge", "write"}
      <3>1. NamesOwner(old)  BY <1>a DEF Fits
      <3> HIDE DEF old
      <3> QED BY <2>1, <3>1 DEF A!Refreshed, A!Login, NamesOwner
    <2>3. A!Goes(c, new) /\ A!KeepsFile
      BY <1>0, <1>6, Zenon DEF A!Refresh
    <2> HIDE DEF s, r
    <2>4. new \in A!Call  BY <2>2 DEF A!Call, A!Stages
    <2>5. Fits(new)
      BY <1>a, <2>1, <2>2 DEF A!Call, Fits, TokenFits, CopyFits
    <2> QED BY <2>3, <2>4, <2>5, GoesInv
  <1>7. CASE A!RefreshFails(c)  BY <1>7, AskInv DEF A!RefreshFails
  <1> QED BY <1>1, <1>2, <1>3, <1>5, <1>6, <1>7

LEMMA SignInInv ==
  ASSUME AccountConstants, AccountInv, NEW c \in Launchers,
         A!CallbackArrives(c) \/ A!Paste(c) \/ A!LegacyPaste(c) \/ A!Exchange(c)
           \/ A!LegacyExchange(c) \/ A!DeviceApproved(c) \/ A!LegacyDeviceApproved(c)
           \/ A!SignInFails(c)
  PROVE  AccountInv'
  <1>0. PICK it \in A!Call : it = call[c]  BY CallParts
  <1>a. Fits(it)  BY <1>0, CallParts
  <1>1. ASSUME NEW way \in A!Ways, A!CodeArrives(c, way) PROVE AccountInv'
    <2> DEFINE new == [it EXCEPT !.at = "exchange", !.by = "browser"]
    <2>1. it.at = "signin" /\ A!Goes(c, new) /\ A!KeepsFile
      BY <1>0, <1>1, Zenon DEF A!CodeArrives
    <2>2. new \in A!Call  BY DEF A!Call, A!Stages, A!Ways
    <2>3. Fits(new)  BY <1>a, <2>1 DEF A!Call, Fits, TokenFits, CopyFits
    <2> QED BY <2>1, <2>2, <2>3, GoesInv
  <1>2. ASSUME NEW login2 \in A!NewLogins, A!Obtained(c, login2), it.at \in {"exchange", "signin"}
        PROVE  AccountInv'
    <2> DEFINE new == [it EXCEPT !.at = "merge", !.result = login2, !.stale = FALSE]
    <2>1. A!Goes(c, new) /\ A!KeepsFile
      BY <1>0, <1>2, Zenon DEF A!Obtained
    <2>2. login2 \in A!Login /\ NamesOwner(login2)
      BY DEF A!NewLogins, NamesOwner
    <2>3. new \in A!Call  BY <2>2 DEF A!Call, A!Stages
    <2>4. Fits(new)  BY <1>a, <1>2, <2>2 DEF A!Call, Fits, TokenFits, CopyFits
    <2> QED BY <2>1, <2>3, <2>4, GoesInv
  <1>3. CASE A!CallbackArrives(c) \/ A!Paste(c) \/ A!LegacyPaste(c) \/ A!LegacyDeviceApproved(c)
    BY <1>1, <1>3, Zenon
       DEF A!CallbackArrives, A!Paste, A!LegacyPaste, A!LegacyDeviceApproved, A!Ways
  <1>4. CASE A!Exchange(c) \/ A!LegacyExchange(c) \/ A!DeviceApproved(c)
    BY <1>0, <1>2, <1>4 DEF A!Exchange, A!LegacyExchange, A!DeviceApproved
  <1>5. CASE A!SignInFails(c)  BY <1>5, EndsInv DEF A!SignInFails
  <1> QED BY <1>3, <1>4, <1>5

LEMMA ServiceInv ==
  ASSUME AccountConstants, AccountInv, NEW c \in Launchers,
         A!Minted(c) \/ A!MintFails(c) \/ A!Revoke(c) \/ A!Merge(c)
           \/ A!NothingToClear(c) \/ A!Killed(c)
  PROVE  AccountInv'
  <1>0. PICK it \in A!Call : it = call[c]  BY CallParts
  <1>a. Fits(it) /\ NamesOwner(login)  BY <1>0, CallParts
  <1>1. CASE A!Minted(c)
    <2> DEFINE new == [it EXCEPT !.at = "merge", !.result = NoValue]
    <2>1. it.at = "mint" /\ A!Goes(c, new) /\ A!KeepsFile
      BY <1>0, <1>1, Zenon DEF A!Minted
    <2>2. new \in A!Call  BY DEF A!Call, A!Stages
    <2>3. Fits(new)  BY <1>a, <2>1 DEF A!Call, Fits, NamesOwner, TokenFits, CopyFits
    <2> QED BY <2>1, <2>2, <2>3, GoesInv
  <1>2. CASE A!Revoke(c)
    <2> DEFINE new == [it EXCEPT !.at = "merge"]
    <2>1. it.at = "revoke" /\ A!Goes(c, new) /\ A!KeepsFile
      BY <1>0, <1>2, Zenon DEF A!Revoke
    <2>2. new \in A!Call  BY DEF A!Call, A!Stages
    <2>3. Fits(new)  BY <1>a, <2>1 DEF A!Call, Fits, TokenFits, CopyFits
    <2> QED BY <2>1, <2>2, <2>3, GoesInv
  <1>3. CASE A!Merge(c)
    <2> DEFINE f == A!Now
               b == it.stale /\ it.token # NoValue
               new == [it EXCEPT !.at = "write", !.copy = f, !.stale = b]
    <2>1. it.at = "merge" /\ A!Goes(c, new) /\ A!KeepsFile
      <3>1. it.at = "merge" /\ A!KeepsFile  BY <1>0, <1>3, Zenon DEF A!Merge
      <3>2. call' = [call EXCEPT ![c] = new]  BY <1>0, <1>3 DEF A!Merge, A!Goes
      <3> QED BY <3>1, <3>2, Zenon DEF A!Goes
    <2>2. /\ f \in A!File /\ f.login = login /\ f.stored = stored
          /\ b \in BOOLEAN
      BY CallParts
    <2>3. b = FALSE => it.stale = FALSE \/ it.token = NoValue
      BY CallFields
    <2> HIDE DEF f, b
    <2>4. new \in A!Call  BY <2>2 DEF A!Call, A!Stages
    <2>5. mixed = TRUE \/ mixed = FALSE  BY DEF AccountInv
    <2>6. Fits(new)
      BY <1>a, <2>1, <2>2, <2>3, <2>5
         DEF A!Call, Fits, NamesOwner, TokenFits, CopyFits, AccountInv, KeyFits, A!Owner
    <2> QED BY <2>1, <2>4, <2>6, GoesInv
  <1>4. CASE A!MintFails(c) \/ A!NothingToClear(c) \/ A!Killed(c)
    BY <1>4, EndsInv DEF A!MintFails, A!NothingToClear, A!Killed
  <1> QED BY <1>1, <1>2, <1>3, <1>4

(* A login that comes near its expiry, and settings that change.           *)
LEMMA BesideInv ==
  ASSUME AccountConstants, AccountInv, A!Expire \/ A!Reconfigure
  PROVE  AccountInv'
  <1>1. CASE A!Expire
    <2>1. PICK l \in A!Login : l = login /\ login' = [l EXCEPT !.fresh = FALSE]
      BY <1>1 DEF A!Expire, AccountInv, AccountTypes
    <2>2. /\ login' \in A!Login /\ login'.owner = l.owner /\ login'.subject = l.subject
      BY <2>1 DEF A!Login
    <2>3. l # NoValue /\ login' # NoValue  BY <2>1, <2>2 DEF AccountConstants
    <2>4. A!Owner(login)' = A!Owner(login) /\ NamesOwner(login)'
      BY <2>1, <2>2, <2>3 DEF A!Owner, NamesOwner, AccountInv
    <2>5. UNCHANGED <<kind, stored, call, begun, mixed>>  BY <1>1 DEF A!Expire
    <2>6. AccountTypes' /\ mixed' \in BOOLEAN
      BY <2>2, <2>5 DEF AccountInv, AccountTypes
    <2>7. KeyFits'  BY <2>4, <2>5 DEF AccountInv, KeyFits
    <2>8. ASSUME NEW d \in Launchers PROVE Fits(call[d])'
      <3>1. Fits(call[d])  BY DEF AccountInv
      <3>2. A!Owner(call[d].copy.login)' = A!Owner(call[d].copy.login) /\ call'[d] = call[d]
        BY <2>5 DEF A!Owner
      <3> QED BY <2>4, <2>5, <3>1, <3>2, Zenon DEF Fits, NamesOwner, TokenFits, CopyFits
    <2> QED BY <2>4, <2>6, <2>7, <2>8 DEF AccountInv
  <1>2. CASE A!Reconfigure
    BY <1>2 DEF A!Reconfigure, AccountInv, AccountTypes, KeyFits, NamesOwner, Fits, TokenFits, CopyFits,
       A!Owner
  <1> QED BY <1>1, <1>2

(* The write.  Whose login it leaves, and whose key beside it.             *)
LEMMA RewrittenCases ==
  ASSUME NEW it \in A!Call, NEW new, new = A!Rewritten(it)
  PROVE  \/ it.op = "logout" /\ new.login = NoValue /\ new.stored = NoValue
         \/ it.op = "forget" /\ new.login = it.copy.login /\ new.stored = NoValue
         \/ it.result = NoValue /\ new.login = it.copy.login /\ new.stored = it.token
         \/ /\ A!LegacyRefresh(it)
            /\ new.login = it.result /\ new.stored = it.copy.stored
         \/ /\ it.result # NoValue /\ new.login = it.result
            /\ \/ new.stored = NoValue
               \/ new.stored = it.copy.stored /\ A!SameAccount(it.copy.login, it.result)
  <1> PICK f \in A!File : f = it.copy  BY CallFields
  <1> HIDE DEF A!File
  <1>0. \A x : /\ [f EXCEPT !.stored = x].login = f.login /\ [f EXCEPT !.stored = x].stored = x
               /\ [f EXCEPT !.login = x].login = x /\ [f EXCEPT !.login = x].stored = f.stored
    BY DEF A!File
  <1>1. CASE it.op = "logout"
    BY <1>1, NoFileParts DEF A!Rewritten
  <1>2. CASE it.op = "forget"
    BY <1>0, <1>2 DEF A!Rewritten
  <1>3. CASE it.op \notin {"logout", "forget"} /\ it.result = NoValue
    BY <1>0, <1>3 DEF A!Rewritten
  <1>4. CASE it.op \notin {"logout", "forget"} /\ it.result # NoValue /\ A!LegacyRefresh(it)
    BY <1>0, <1>4 DEF A!Rewritten
  <1>5. CASE it.op \notin {"logout", "forget"} /\ it.result # NoValue /\ ~A!LegacyRefresh(it)
    <2> DEFINE key2 == IF A!SameAccount(it.copy.login, it.result) THEN it.copy.stored ELSE NoValue
    <2>1. new = [login |-> it.result, stored |-> key2]
      BY <1>5 DEF A!Rewritten, A!Saved
    <2>2. key2 = NoValue \/ (key2 = it.copy.stored /\ A!SameAccount(it.copy.login, it.result))
      OBVIOUS
    <2> HIDE DEF key2
    <2>3. new.login = it.result /\ new.stored = key2  BY <2>1
    <2> QED BY <1>5, <2>2, <2>3
  <1> QED BY <1>1, <1>2, <1>3, <1>4, <1>5

LEMMA WriteTypes ==
  ASSUME NEW it \in A!Call, Fits(it), NEW new, new = A!Rewritten(it)
  PROVE  /\ new.login \in A!Login \cup {NoValue} /\ new.stored \in A!Key \cup {NoValue}
         /\ NamesOwner(new.login)
  <1>1. NamesOwner(it.copy.login) /\ NamesOwner(it.result) /\ NamesOwner(NoValue)
    BY DEF Fits, NamesOwner
  <1> QED BY <1>1, CallFields, RewrittenCases DEF A!Key

LEMMA OwnerOf ==
  ASSUME AccountConstants, NEW l \in A!Login \cup {NoValue}
  PROVE  /\ A!Owner(l) = NoValue <=> l = NoValue
         /\ l # NoValue => A!Owner(l) = l.owner /\ l.owner \in Accounts
  BY DEF A!Owner, AccountConstants, A!Login

LEMMA WriteKey ==
  ASSUME AccountConstants, AccountInv, NEW it \in A!Call, Fits(it), it.at = "write",
         it.stale = FALSE, NEW new, new = A!Rewritten(it), mixed = FALSE \/ new = A!NoFile,
         new.stored # NoValue, new.stored.own = TRUE
  PROVE  A!Owner(new.login) = new.stored.owner
  <1>1. mixed = FALSE  BY NoFileParts
  <1>2. /\ A!Owner(it.copy.login) = A!Owner(login)
        /\ \/ it.copy.login = NoValue
           \/ it.copy.stored # NoValue /\ it.copy.stored.own = TRUE
                => it.copy.stored.owner = it.copy.login.owner
    BY <1>1 DEF Fits, CopyFits
  <1>3. it.token # NoValue /\ it.token.own = TRUE => A!Owner(login) = it.token.owner
    BY DEF Fits, TokenFits
  <1>4. it.token # NoValue /\ it.result # NoValue => it.result.owner = it.token.owner /\ it.token.own = TRUE
    BY DEF Fits, TokenFits
  <1>5. NamesOwner(it.copy.login) /\ NamesOwner(it.result)
    BY DEF Fits
  <1>6. it.copy.login \in A!Login \cup {NoValue} /\ it.result \in A!Login \cup {NoValue}
          /\ it.token \in A!Token \cup {NoValue}
    BY CallFields
  <1>7. CASE it.result = NoValue /\ new.login = it.copy.login /\ new.stored = it.token
    BY <1>2, <1>3, <1>7
  <1>8. CASE A!LegacyRefresh(it) /\ new.login = it.result /\ new.stored = it.copy.stored
    <2>1. it.token # NoValue /\ it.result # NoValue  BY <1>8 DEF A!LegacyRefresh
    <2>2. it.token.owner \in Accounts
      BY <1>6, <2>1 DEF A!Token
    <2>3. A!Owner(it.copy.login) = it.token.owner /\ it.copy.login # NoValue
      BY <1>2, <1>3, <1>4, <1>6, <2>1, <2>2, OwnerOf DEF AccountConstants
    <2> QED BY <1>2, <1>4, <1>6, <1>8, <2>1, <2>3, OwnerOf
  <1>9. CASE /\ it.result # NoValue /\ new.login = it.result
             /\ new.stored = it.copy.stored /\ A!SameAccount(it.copy.login, it.result)
    <2>1. it.copy.login # NoValue /\ it.copy.login.owner = it.result.owner
      BY <1>5, <1>9 DEF A!SameAccount, NamesOwner
    <2> QED BY <1>2, <1>6, <1>9, <2>1, OwnerOf
  <1> QED BY <1>7, <1>8, <1>9, RewrittenCases

(* What the command goes on with, and what becomes of the others.          *)
LEMMA WriterGoesOn ==
  ASSUME AccountConstants, AccountInv, NEW c \in Launchers, A!Write(c)
  PROVE  \E after \in A!Call : after = A!Continues(c) /\ Fits(after)'
  <1>0. PICK it \in A!Call : it = call[c]  BY CallParts
  <1>1. Fits(it) /\ it.at = "write" /\ login' = A!Rewritten(it).login
    BY <1>0, CallParts DEF A!Write
  <1> DEFINE f == A!NoFile
  <1>2. f \in A!File /\ f.login = NoValue  BY NoFileParts
  <1> HIDE DEF f
  <1>3. CASE A!Continues(c) = A!Idle
    <2>1. A!Idle \in A!Call  BY IdleFits
    <2>2. Fits(A!Idle)'
      BY DEF A!Idle, A!NoFile, Fits, NamesOwner, TokenFits, CopyFits
    <2> QED BY <1>3, <2>1, <2>2
  <1> DEFINE s == IF it.token = NoValue THEN "token" ELSE "mint"
             new == [it EXCEPT !.at = s, !.result = NoValue, !.copy = f]
  <1>4. CASE it.result # NoValue /\ it.op \in {"launch", "mint"} /\ A!Continues(c) = new
    <2>1. s \in {"token", "mint"} /\ (s = "token" <=> it.token = NoValue)  OBVIOUS
    <2> HIDE DEF s
    <2>2. new \in A!Call  BY <1>2, <2>1 DEF A!Call, A!Stages
    <2>3. login' = it.result
      <3> DEFINE file == A!Rewritten(it)
      <3>1. login' = file.login /\ file = A!Rewritten(it)  BY <1>1
      <3> HIDE DEF file
      <3> QED BY <1>4, <3>1, RewrittenCases
    <2>4. it.token # NoValue => A!Owner(login)' = it.token.owner
      BY <1>1, <1>4, <2>3 DEF Fits, TokenFits, A!Owner
    <2>5. Fits(new)'
      BY <1>1, <1>2, <2>1, <2>4 DEF A!Call, Fits, NamesOwner, TokenFits, CopyFits
    <2> QED BY <1>4, <2>2, <2>5
  <1>5. CASE it.result = NoValue \/ it.op \notin {"launch", "mint"}
    BY <1>0, <1>3, <1>5, Zenon DEF A!Continues
  <1>6. CASE ~(it.result = NoValue \/ it.op \notin {"launch", "mint"})
    <2>1. A!Continues(c) = new  BY <1>0, <1>6, Zenon DEF A!Continues, f
    <2> QED BY <1>4, <1>6, <2>1
  <1> QED BY <1>5, <1>6

LEMMA OthersGoOn ==
  ASSUME AccountConstants, AccountInv, NEW c \in Launchers, A!Write(c), NEW d \in Launchers, d # c
  PROVE  call'[d] \in A!Call /\ Fits(call[d])'
  <1>0. PICK it \in A!Call : it = call[c]  BY CallParts
  <1>1. Fits(it) /\ it.at = "write"
    BY <1>0, CallParts DEF A!Write
  <1>2. PICK new : new = A!Rewritten(it) /\ login' = new.login
                     /\ mixed' = (it.stale \/ (mixed /\ new # A!NoFile))
    BY <1>0, Zenon DEF A!Write
  <1>3. new.login \in A!Login \cup {NoValue}  BY <1>1, <1>2, WriteTypes
  <1>4. PICK x \in A!Call : x = call[d]  BY CallParts
  <1>5. Fits(x)  BY <1>4, CallParts
  <1>6. PICK b \in BOOLEAN : b = (x.stale \/ (A!Owner(new.login) # A!Owner(login) /\ x.at # "idle"))
    BY CallFields
  <1>7. PICK y : y = [x EXCEPT !.stale = b]  OBVIOUS
  <1>8. call'[d] = y
    BY <1>0, <1>2, <1>4, <1>6, <1>7 DEF A!Write, A!Call
  <1>9. b = FALSE => x.stale = FALSE /\ (A!Owner(login)' = A!Owner(login) \/ x.at = "idle")
    BY <1>2, <1>6, CallFields DEF A!Owner
  <1>10. y \in A!Call /\ y.stale = b
    BY <1>7 DEF A!Call
  <1>11. y.at = x.at /\ y.token = x.token /\ y.given = x.given /\ y.result = x.result /\ y.copy = x.copy
    BY <1>7 DEF A!Call
  <1>12. NamesOwner(y.copy.login) /\ NamesOwner(y.result)  BY <1>5, <1>11 DEF Fits
  <1>13. TokenFits(y)'
    BY <1>5, <1>9, <1>10, <1>11 DEF Fits, TokenFits
  <1>14. mixed' = FALSE => mixed = FALSE \/ A!Owner(login)' = NoValue
    BY <1>2, <1>3, NoFileParts, OwnerOf DEF AccountInv, A!Owner
  <1>15. mixed' = TRUE \/ mixed' = FALSE
    BY <1>2 DEF AccountInv
  <1>16. A!Owner(y.copy.login)' = A!Owner(x.copy.login)
           /\ (A!Owner(x.copy.login) = NoValue => x.copy.login = NoValue)
    BY <1>11, CallFields, OwnerOf DEF A!Owner
  <1>17. CopyFits(y)'
    BY <1>5, <1>9, <1>10, <1>11, <1>14, <1>15, <1>16 DEF Fits, CopyFits
  <1> QED BY <1>8, <1>10, <1>12, <1>13, <1>17, Zenon DEF Fits, NamesOwner, TokenFits, CopyFits

LEMMA WriteInv ==
  ASSUME AccountConstants, AccountInv, NEW c \in Launchers, A!Write(c)
  PROVE  AccountInv'
  <1>0. PICK it \in A!Call : it = call[c]  BY CallParts
  <1>1. Fits(it) /\ it.at = "write"
    BY <1>0, CallParts DEF A!Write
  <1>2. PICK new : /\ new = A!Rewritten(it) /\ login' = new.login /\ stored' = new.stored
                   /\ mixed' = (it.stale \/ (mixed /\ new # A!NoFile))
    BY <1>0, Zenon DEF A!Write
  <1>3. PICK after \in A!Call : after = A!Continues(c) /\ Fits(after)'
    BY WriterGoesOn
  <1>4. call'[c] = after  BY <1>3 DEF A!Write
  <1>5. \A d \in Launchers : call'[d] \in A!Call /\ Fits(call[d])'
    <2>1. ASSUME NEW d \in Launchers, d = c PROVE call'[d] \in A!Call /\ Fits(call[d])'
      BY <1>3, <1>4, <2>1, Zenon DEF Fits, NamesOwner, TokenFits, CopyFits
    <2> QED BY <2>1, OthersGoOn
  <1>6. AccountTypes'
    <2>1. login' \in A!Login \cup {NoValue} /\ stored' \in A!Key \cup {NoValue}
      BY <1>1, <1>2, WriteTypes
    <2>2. call' = [d \in Launchers |-> call'[d]]
      BY DEF A!Write
    <2>3. UNCHANGED <<kind, begun>>  BY DEF A!Write
    <2> QED BY <1>5, <2>1, <2>2, <2>3 DEF AccountInv, AccountTypes
  <1>7. mixed' \in BOOLEAN  BY <1>2
  <1>8. NamesOwner(login)'
    BY <1>1, <1>2, WriteTypes DEF NamesOwner
  <1>9. KeyFits'
    <2> SUFFICES ASSUME mixed' = FALSE, stored' # NoValue, stored'.own = TRUE
                 PROVE  A!Owner(login)' = stored'.owner
      BY DEF KeyFits
    <2>1. it.stale = FALSE /\ (mixed = FALSE \/ new = A!NoFile)
      BY <1>2, CallFields DEF AccountInv
    <2>2. A!Owner(new.login) = new.stored.owner
      BY <1>1, <1>2, <2>1, WriteKey
    <2> QED BY <1>2, <2>2 DEF A!Owner
  <1> QED BY <1>5, <1>6, <1>7, <1>8, <1>9 DEF AccountInv

LEMMA AccountStutter == ASSUME AccountInv, UNCHANGED accountVars PROVE AccountInv'
  BY DEF accountVars, AccountInv, AccountTypes, KeyFits, NamesOwner, Fits, TokenFits, CopyFits, A!Owner

LEMMA AccountInit == ASSUME AccountConstants, A!Init PROVE AccountInv
  <1>1. AccountTypes
    BY IdleFits DEF A!Init, AccountTypes, AccountConstants
  <1>2. mixed \in BOOLEAN /\ NamesOwner(login) /\ KeyFits
    BY DEF A!Init, NamesOwner, KeyFits
  <1>3. \A c \in Launchers : Fits(call[c])  BY IdleFits DEF A!Init
  <1> QED BY <1>1, <1>2, <1>3 DEF AccountInv

LEMMA AccountStep == ASSUME AccountConstants, AccountInv, [HostNext]_allVars PROVE AccountInv'
  <1>1. CASE A!AccountNext
    BY <1>1, BesideInv, BeginsInv, TokenInv, SignInInv, ServiceInv, WriteInv
       DEF A!AccountNext, A!AccountStep
  <1>2. CASE UNCHANGED accountVars  BY <1>2, AccountStutter
  <1> QED BY <1>1, <1>2 DEF HostNext, allVars

LEMMA AccountInvariant == ASSUME AccountConstants PROVE HostSpec => []AccountInv
  <1>1. HostInit => AccountInv  BY AccountInit DEF HostInit
  <1>2. AccountInv /\ [HostNext]_allVars => AccountInv'  BY AccountStep
  <1> QED BY <1>1, <1>2, PTL DEF HostSpec

(* See KeyIsOfAccount: for any number of processes and accounts, as long   *)
(* as no command wrote back what it read before somebody else changed the  *)
(* account, the router key is that of the account that is signed in.       *)
THEOREM KeyStaysWithAccount == HostSpec => []KeyIsOfAccount
  <1>1. AccountInv => KeyIsOfAccount
    <2> SUFFICES ASSUME AccountInv, ~mixed, stored # NoValue, stored.own
                 PROVE  A!Owner(login) = stored.owner
      BY DEF KeyIsOfAccount, A!KeyIsOfAccount
    <2>1. stored.own \in BOOLEAN  BY DEF AccountInv, AccountTypes, A!Key, A!Token
    <2>2. mixed = FALSE /\ stored.own = TRUE  BY <2>1 DEF AccountInv
    <2> QED BY <2>2 DEF AccountInv, KeyFits
  <1> QED BY <1>1, AccountAssumptions, AccountInvariant, PTL

(***************************************************************************)
(* The router behind Desktop.  Who is alive is recorded, or launchd's, or  *)
(* was lost by a killed command; and what the instance file says of a      *)
(* recorded router is true unless a command broke off.                     *)
(***************************************************************************)
Living == {"shell", "starting", "serving", "stopping"}
RouterStates == Living \cup {"unborn", "dead"}
Gateways == [state : RouterStates, settings : G!AllSettings \cup {NoValue},
             of : {"nobody", "command", "launchd"}]

GatewayTypes ==
  /\ router \in [G!Routers -> Gateways]
  /\ recorded \in 0 .. G!Unrelated
  /\ instance \in G!AllSettings \cup {NoValue}
  /\ plist \in Arguments \cup {NoValue} /\ loaded \in Arguments \cup {NoValue}
  /\ agent \in {"off", "begin", "instance", "exec", "runs"}
  /\ key \in Keys /\ step \in G!Steps
  /\ ask \in [op : G!GatewayOps, settings : G!AllSettings \cup {NoValue}]
  /\ lost \subseteq G!Routers
  /\ step # "idle" => ask.settings \in G!AllSettings

GatewayFlags == current \in BOOLEAN /\ broken \in BOOLEAN

(* Routers are numbered in the order they start.                           *)
InOrder ==
  /\ \A i \in G!Routers : router[i].state = "unborn" => router[i] = G!Unborn
  /\ \A i, j \in G!Routers : i < j /\ router[j] # G!Unborn => router[i] # G!Unborn

(* What runs under launchd is there while the service is loaded.           *)
ServiceRuns ==
  /\ agent = "off" <=> loaded = NoValue
  /\ \A i \in G!Routers : router[i].state = "shell" => router[i].of = "launchd"
  /\ \A i \in G!Routers : G!Alive(i) => router[i].of \in {"command", "launchd"}
  /\ \A i \in G!Routers :
       router[i].of = "launchd" /\ router[i].state \in {"shell", "starting", "serving"}
         => loaded # NoValue

Detached(i) == router[i].of = "command" /\ G!Alive(i) /\ i \notin lost

(* A detached router is recorded, and the service is not loaded beside it. *)
DetachedRecorded ==
  /\ \A i \in G!Routers : Detached(i) =>
       /\ loaded = NoValue
       /\ recorded = i \/ (step = "record" /\ i = G!Spawned)
  /\ lost # {} => broken = TRUE

(* Where no detached router can be, and where the service is not loaded.   *)
NoneDetached ==
  \/ step \in {"ports", "rebootstrap", "bootstrap"}
  \/ step = "bootout" /\ ask.op = "install"
Unloaded ==
  \/ step \in {"detached", "ports", "record", "wait", "undo", "undoing", "instance", "clear",
               "rebootstrap", "bootstrap"}
  \/ step \in {"stop", "stopping"} /\ ask.op \in {"start", "uninstall"}
  \/ step = "unlink"

StepsFit ==
  /\ NoneDetached => \A i \in G!Routers : ~Detached(i)
  /\ Unloaded => loaded = NoValue
  /\ step \in {"service", "detached"} => ask.op = "start"
  /\ step \in {"stop", "stopping"} => ask.op # "uninstall service"
  /\ step \in {"stopping", "undoing", "wait", "instance", "undo"} => recorded \in G!Routers
  /\ step = "clear" => recorded = 0
  /\ step = "record" => G!Spawned \in G!Routers /\ \A i \in G!Routers : Detached(i) => i = G!Spawned

(* Whose settings are known.                                               *)
SettingsFit ==
  /\ step = "record" /\ G!Alive(G!Spawned) =>
       router[G!Spawned].settings = ask.settings /\ router[G!Spawned].of = "command"
  /\ step \in {"wait", "instance", "undo", "undoing"} /\ G!Alive(recorded) =>
       router[recorded].settings = ask.settings
  /\ (broken = FALSE /\ step \notin {"record", "wait", "instance", "undo", "undoing"}) =>
       \A i \in G!Routers : Detached(i) => instance = router[i].settings
  /\ (step \in {"service", "detached"} /\ current = TRUE /\ loaded = NoValue) =>
       instance = ask.settings

OneHolder == \A i, j \in G!Holders : i = j

GatewayInv ==
  /\ GatewayTypes /\ GatewayFlags /\ InOrder /\ ServiceRuns
  /\ DetachedRecorded /\ StepsFit /\ SettingsFit /\ OneHolder

GatewayConstants ==
  MaxRouters \in Nat /\ NoValue \notin Arguments /\ NoValue \notin G!AllSettings

LEMMA GatewayAssumptions == GatewayConstants
  BY HostAssumption DEF GatewayConstants

LEMMA RouterNumbers ==
  ASSUME GatewayConstants
  PROVE  /\ G!Unrelated \in Nat /\ G!Unrelated \notin G!Routers /\ 0 \notin G!Routers
         /\ G!Routers \subseteq 0 .. G!Unrelated /\ 0 \in 0 .. G!Unrelated
         /\ G!Unrelated \in 0 .. G!Unrelated /\ G!Routers \subseteq Nat
  BY DEF GatewayConstants, G!Unrelated, G!Routers

LEMMA DeadParts ==
  /\ G!Dead \in Gateways /\ G!Unborn \in Gateways /\ G!Dead # G!Unborn
  /\ G!Dead.state = "dead" /\ G!Unborn.state = "unborn"
  BY DEF G!Dead, G!Unborn, Gateways, RouterStates, Living

(* Steps after which no more runs than before: routers that end, or that   *)
(* were told to.                                                           *)
Same(i) == router'[i].of = router[i].of /\ router'[i].settings = router[i].settings
Calmer ==
  /\ router' \in [G!Routers -> Gateways]
  /\ \A i \in G!Routers :
       /\ router'[i] = G!Unborn <=> router[i] = G!Unborn
       /\ router'[i].state = "unborn" => router'[i] = G!Unborn
       /\ G!Alive(i)' => /\ G!Alive(i) /\ Same(i)
                         /\ \/ router'[i].state = router[i].state
                            \/ router[i].state = "serving" /\ router'[i].state = "stopping"

LEMMA SpawnedKept ==
  ASSUME \A i \in G!Routers : router'[i] = G!Unborn <=> router[i] = G!Unborn
  PROVE  G!Spawned' = G!Spawned
  BY DEF G!Spawned

LEMMA AliveStates ==
  ASSUME GatewayTypes, NEW i \in G!Routers
  PROVE  /\ G!Alive(i) <=> router[i].state \in Living
         /\ router[i] \in Gateways
  BY DEF GatewayTypes, G!Alive, Living

LEMMA CalmKeeps ==
  ASSUME GatewayInv, Calmer
  PROVE  /\ InOrder' /\ OneHolder' /\ G!Spawned' = G!Spawned
         /\ \A i \in G!Routers : G!Alive(i)' => G!Alive(i) /\ Same(i)
         /\ \A i \in G!Routers : router'[i].state = "shell" => router[i].state = "shell" /\ Same(i)
         /\ \A i \in G!Routers : router'[i].state \in {"shell", "starting", "serving"}
              => router[i].state \in {"shell", "starting", "serving"} /\ Same(i)
  <1>1. G!Spawned' = G!Spawned  BY SpawnedKept DEF Calmer
  <1>2. InOrder'  BY DEF GatewayInv, InOrder, Calmer
  <1>3. \A i \in G!Routers : G!Alive(i)' => G!Alive(i) /\ Same(i)  BY DEF Calmer
  <1>4. \A i \in G!Routers : router'[i].state \in {"shell", "starting", "serving", "stopping"} => G!Alive(i)'
    BY DEF G!Alive
  <1>5. \A i \in G!Routers : router'[i].state \in {"shell", "starting", "serving"}
              => router[i].state = router'[i].state /\ Same(i)
    BY <1>4 DEF Calmer
  <1>6. OneHolder'
    BY <1>4 DEF GatewayInv, OneHolder, G!Holders, Calmer
  <1> QED BY <1>1, <1>2, <1>3, <1>5, <1>6

LEMMA UnchangedCalm == ASSUME GatewayInv, router' = router PROVE Calmer
  BY DEF GatewayInv, GatewayTypes, InOrder, Calmer, Same, G!Alive

LEMMA TerminatedCalm ==
  ASSUME GatewayInv, router' = G!Terminated
  PROVE  /\ Calmer
         /\ \A i \in G!Routers : ~(router'[i].of = "launchd"
                                     /\ router'[i].state \in {"shell", "starting", "serving"})
  <1>1. ASSUME NEW i \in G!Routers
        PROVE  /\ router'[i] \in Gateways
               /\ router'[i] = G!Unborn <=> router[i] = G!Unborn
               /\ router'[i].state = "unborn" => router'[i] = G!Unborn
               /\ G!Alive(i)' => /\ G!Alive(i) /\ Same(i)
                                 /\ \/ router'[i].state = router[i].state
                                    \/ router[i].state = "serving" /\ router'[i].state = "stopping"
               /\ ~(router'[i].of = "launchd" /\ router'[i].state \in {"shell", "starting", "serving"})
    <2>1. PICK x \in Gateways : x = router[i]  BY AliveStates DEF GatewayInv
    <2>2. x.state = "unborn" => x = G!Unborn  BY <2>1 DEF GatewayInv, InOrder
    <2>3. router'[i] = IF x.of # "launchd" THEN x
                       ELSE CASE x.state \in {"shell", "starting"} -> G!Dead
                              [] x.state = "serving" -> [x EXCEPT !.state = "stopping"]
                              [] OTHER -> x
      BY <2>1, Zenon DEF G!Terminated
    <2>4. CASE x.of # "launchd"
      BY <2>1, <2>2, <2>3, <2>4 DEF G!Alive, Same
    <2>5. CASE x.of = "launchd" /\ x.state \in {"shell", "starting"}
      BY <2>1, <2>2, <2>3, <2>5, DeadParts DEF G!Alive, Same
    <2>6. CASE x.of = "launchd" /\ x.state = "serving"
      <3>1. PICK y : y = [x EXCEPT !.state = "stopping"]  OBVIOUS
      <3>2. y \in Gateways /\ y.state = "stopping" /\ y.of = x.of /\ y.settings = x.settings
        BY <3>1 DEF Gateways, RouterStates, Living
      <3>3. router'[i] = y  BY <2>3, <2>6, <3>1
      <3> QED BY <2>1, <2>6, <3>2, <3>3, DeadParts DEF G!Alive, Same
    <2>7. CASE x.of = "launchd" /\ x.state \notin {"shell", "starting", "serving"}
      BY <2>1, <2>2, <2>3, <2>7 DEF G!Alive, Same
    <2> QED BY <2>4, <2>5, <2>6, <2>7
  <1>2. router' = [i \in G!Routers |-> router'[i]]  BY DEF G!Terminated
  <1> QED BY <1>1, <1>2 DEF Calmer

LEMMA SetCalm ==
  ASSUME GatewayInv, NEW i \in G!Routers, G!Alive(i), NEW s \in {"dead", "stopping"},
         router[i].state \in {"serving", "stopping"} \/ s = "dead", G!SetState(i, s)
  PROVE  Calmer
  <1>1. PICK x \in Gateways : x = router[i]  BY AliveStates DEF GatewayInv
  <1>2. PICK y : y = IF s = "dead" THEN G!Dead ELSE [x EXCEPT !.state = s]  OBVIOUS
  <1>3. router' = [router EXCEPT ![i] = y]
    BY <1>1, <1>2, Zenon DEF G!SetState
  <1>4. /\ y \in Gateways /\ y.state = s
        /\ s = "stopping" => y.of = x.of /\ y.settings = x.settings
    BY <1>2, DeadParts DEF Gateways, RouterStates, Living
  <1>5. x.state \in Living /\ y # G!Unborn /\ x # G!Unborn
    BY <1>1, <1>4, AliveStates, DeadParts DEF GatewayInv, Living
  <1> QED BY <1>1, <1>3, <1>4, <1>5 DEF GatewayInv, GatewayTypes, InOrder, Calmer, Same, G!Alive

(* Steps of a command that reads, writes a file of the service, or moves   *)
(* on: nothing that runs or is recorded changes.                           *)
Quiet ==
  UNCHANGED <<router, recorded, instance, loaded, agent, broken, lost>> /\ step # "record" /\ step' # "record"

LEMMA QuietKeeps ==
  ASSUME GatewayInv, Quiet
  PROVE  /\ InOrder' /\ ServiceRuns' /\ DetachedRecorded' /\ OneHolder'
         /\ \A i \in G!Routers : Detached(i)' <=> Detached(i)
         /\ \A i : G!Alive(i)' <=> G!Alive(i)
         /\ G!Spawned' = G!Spawned
  <1>1. InOrder' /\ OneHolder' /\ ServiceRuns'
    BY DEF GatewayInv, Quiet, InOrder, OneHolder, ServiceRuns, G!Holders, G!Alive
  <1>2. \A i : G!Alive(i)' <=> G!Alive(i)  BY DEF Quiet, G!Alive
  <1>3. \A i \in G!Routers : Detached(i)' <=> Detached(i)  BY <1>2 DEF Quiet, Detached
  <1>4. DetachedRecorded'  BY <1>3 DEF GatewayInv, Quiet, DetachedRecorded
  <1>5. G!Spawned' = G!Spawned  BY DEF Quiet, G!Spawned
  <1> QED BY <1>1, <1>2, <1>3, <1>4, <1>5

LEMMA QuietSteps ==
  ASSUME GatewayConstants, GatewayInv, Quiet,
         \/ \E o \in G!GatewayOps, a \in Arguments : G!Begin(o, a)
         \/ G!KeepService \/ G!Bootstrap \/ G!WaitService \/ G!KeepPlist \/ G!Reuse \/ G!Replace
         \/ G!StopForeign \/ G!StopFails \/ G!PortsBusy \/ G!Wait \/ G!WaitFails \/ G!Unlink
         \/ G!NewKey
  PROVE  GatewayInv'
  <1>0. GatewayTypes /\ GatewayFlags /\ StepsFit /\ SettingsFit /\ DetachedRecorded
    BY DEF GatewayInv
  <1>1. GatewayTypes' /\ GatewayFlags'
    <2>1. ASSUME NEW o \in G!GatewayOps, NEW a \in Arguments, G!Begin(o, a)
          PROVE GatewayTypes' /\ GatewayFlags'
      <3>1. step' \in {"service", "stop", "bootout"} /\ current' \in BOOLEAN
        BY <2>1, Zenon DEF G!Begin
      <3>2. ask' \in [op : G!GatewayOps, settings : G!AllSettings \cup {NoValue}]
             /\ ask'.settings \in G!AllSettings
        BY <1>0, <2>1 DEF G!Begin, GatewayTypes, G!AllSettings
      <3>3. key' = key /\ plist' = plist  BY <2>1 DEF G!Begin, G!fileVars, G!serviceVars
      <3>4. GatewayFlags'  BY <1>0, <3>1, Zenon DEF GatewayFlags, Quiet
      <3> QED BY <1>0, <3>1, <3>2, <3>3, <3>4 DEF GatewayTypes, Quiet, G!Steps
    <2>2. CASE G!Bootstrap \/ G!KeepPlist \/ G!Unlink
      <3>1. GatewayTypes'
        <4>1. CASE G!Bootstrap  BY <1>0, <4>1 DEF GatewayTypes, Quiet, G!Bootstrap, G!Args, G!AllSettings, G!Goto, G!EndsHere, G!NoAsk, G!GatewayOps, G!Steps, G!serviceVars
        <4>2. CASE G!KeepPlist  BY <1>0, <4>2 DEF GatewayTypes, Quiet, G!KeepPlist, G!Args, G!AllSettings, G!Goto, G!EndsHere, G!NoAsk, G!GatewayOps, G!Steps, G!serviceVars
        <4>3. CASE G!Unlink
          <5>1. /\ plist' = NoValue /\ key' = key
                /\ \/ step' = "stop" /\ ask' = ask /\ step # "idle"
                   \/ step' = "idle" /\ ask' = G!NoAsk
            BY <4>3 DEF G!Unlink, G!Goto, G!EndsHere, G!serviceVars
          <5>2. G!NoAsk \in [op : G!GatewayOps, settings : G!AllSettings \cup {NoValue}]
            BY DEF G!NoAsk, G!GatewayOps
          <5>3. CASE step' = "stop" /\ ask' = ask /\ step # "idle"
            BY <1>0, <5>1, <5>3 DEF GatewayTypes, Quiet, G!Steps
          <5>4. CASE step' = "idle" /\ ask' = G!NoAsk
            BY <1>0, <5>1, <5>2, <5>4 DEF GatewayTypes, Quiet, G!Steps
          <5> QED BY <5>1, <5>3, <5>4
        <4> QED BY <2>2, <4>1, <4>2, <4>3
      <3>2. GatewayFlags'
        BY <1>0, <2>2, Zenon DEF GatewayFlags, Quiet, G!Bootstrap, G!KeepPlist, G!Unlink, G!Goto, G!EndsHere
      <3> QED BY <3>1, <3>2
    <2>3. CASE \/ G!KeepService \/ G!WaitService \/ G!Reuse \/ G!Replace
               \/ G!StopForeign \/ G!StopFails \/ G!PortsBusy \/ G!Wait \/ G!WaitFails \/ G!NewKey
      <3>1. GatewayTypes'
        <4>1. CASE G!KeepService  BY <1>0, <4>1 DEF GatewayTypes, Quiet, G!KeepService, G!Goto, G!EndsHere, G!NoAsk, G!GatewayOps, G!Steps, G!fileVars, G!serviceVars, G!commandVars
        <4>2. CASE G!WaitService  BY <1>0, <4>2 DEF GatewayTypes, Quiet, G!WaitService, G!Goto, G!EndsHere, G!NoAsk, G!GatewayOps, G!Steps, G!fileVars, G!serviceVars, G!commandVars
        <4>3. CASE G!Reuse  BY <1>0, <4>3 DEF GatewayTypes, Quiet, G!Reuse, G!Goto, G!EndsHere, G!NoAsk, G!GatewayOps, G!Steps, G!fileVars, G!serviceVars, G!commandVars
        <4>4. CASE G!Replace  BY <1>0, <4>4 DEF GatewayTypes, Quiet, G!Replace, G!Goto, G!EndsHere, G!NoAsk, G!GatewayOps, G!Steps, G!fileVars, G!serviceVars, G!commandVars
        <4>5. CASE G!StopForeign  BY <1>0, <4>5 DEF GatewayTypes, Quiet, G!StopForeign, G!Goto, G!EndsHere, G!NoAsk, G!GatewayOps, G!Steps, G!fileVars, G!serviceVars, G!commandVars
        <4>6. CASE G!StopFails  BY <1>0, <4>6 DEF GatewayTypes, Quiet, G!StopFails, G!Goto, G!EndsHere, G!NoAsk, G!GatewayOps, G!Steps, G!fileVars, G!serviceVars, G!commandVars
        <4>7. CASE G!PortsBusy  BY <1>0, <4>7 DEF GatewayTypes, Quiet, G!PortsBusy, G!Goto, G!EndsHere, G!NoAsk, G!GatewayOps, G!Steps, G!fileVars, G!serviceVars, G!commandVars
        <4>8. CASE G!Wait  BY <1>0, <4>8 DEF GatewayTypes, Quiet, G!Wait, G!Goto, G!EndsHere, G!NoAsk, G!GatewayOps, G!Steps, G!fileVars, G!serviceVars, G!commandVars
        <4>9. CASE G!WaitFails  BY <1>0, <4>9 DEF GatewayTypes, Quiet, G!WaitFails, G!Goto, G!EndsHere, G!NoAsk, G!GatewayOps, G!Steps, G!fileVars, G!serviceVars, G!commandVars
        <4>10. CASE G!NewKey  BY <1>0, <4>10 DEF GatewayTypes, Quiet, G!NewKey, G!Goto, G!EndsHere, G!NoAsk, G!GatewayOps, G!Steps, G!fileVars, G!serviceVars, G!commandVars
        <4> QED BY <2>3, <4>1, <4>2, <4>3, <4>4, <4>5, <4>6, <4>7, <4>8, <4>9, <4>10
      <3>2. GatewayFlags'
        BY <1>0, <2>3, Zenon DEF GatewayFlags, Quiet, G!KeepService, G!WaitService, G!Reuse, G!Replace,
               G!StopForeign, G!StopFails, G!PortsBusy, G!Wait, G!WaitFails, G!NewKey, G!Goto, G!EndsHere, G!commandVars
      <3> QED BY <3>1, <3>2
    <2> QED BY <2>1, <2>2, <2>3
  <1>2. /\ \A i \in G!Routers : Detached(i)' <=> Detached(i)
        /\ \A i : G!Alive(i)' <=> G!Alive(i)
        /\ G!Spawned' = G!Spawned
    BY QuietKeeps
  <1>3. StepsFit' /\ SettingsFit'
    <2>1. CASE \E o \in G!GatewayOps, a \in Arguments : G!Begin(o, a)
      <3>1. PICK o \in G!GatewayOps, a \in Arguments : G!Begin(o, a)  BY <2>1
      <3>2. /\ step = "idle" /\ ask'.op = o /\ ask'.settings = [args |-> a, key |-> key]
            /\ step' = IF o = "start" THEN "service" ELSE IF o = "install" THEN "stop" ELSE "bootout"
            /\ current' = TRUE => instance = [args |-> a, key |-> key]
        BY <3>1 DEF G!Begin
      <3>3. StepsFit'  BY <1>0, <1>2, <3>2 DEF StepsFit, NoneDetached, Unloaded, Quiet, G!GatewayOps
      <3>4. SettingsFit'  BY <1>0, <1>2, <3>2 DEF SettingsFit, Quiet
      <3> QED BY <3>3, <3>4
    <2>2. CASE G!Bootstrap \/ G!KeepPlist \/ G!Unlink
      BY <1>0, <1>2, <2>2 DEF StepsFit, SettingsFit, NoneDetached, Unloaded, Quiet, G!Bootstrap, G!KeepPlist, G!Unlink, G!Goto, G!EndsHere, G!NoAsk
    <2>3. CASE \/ G!KeepService \/ G!WaitService \/ G!Reuse
               \/ G!StopForeign \/ G!StopFails \/ G!PortsBusy \/ G!NewKey
      BY <1>0, <1>2, <2>3 DEF StepsFit, SettingsFit, NoneDetached, Unloaded, Quiet, G!KeepService, G!WaitService, G!Reuse, 
               G!StopForeign, G!StopFails, G!PortsBusy, G!NewKey, G!Goto, G!EndsHere, G!NoAsk, G!commandVars
    <2>4. CASE G!Wait \/ G!WaitFails
      BY <1>0, <1>2, <2>4 DEF StepsFit, SettingsFit, NoneDetached, Unloaded, Quiet, G!Wait, G!WaitFails, G!Goto
    <2>5. CASE G!Replace
      <3>1. /\ step = "detached" /\ ask' = ask
            /\ step' = "ports" \/ step' = "stop"
            /\ step' = "ports" => ~G!Ours
        BY <2>5, SMT DEF G!Replace, G!Goto
      <3>2. step' = "ports" => \A i \in G!Routers : ~Detached(i)
        BY <1>0, <3>1, AliveStates DEF GatewayInv, ServiceRuns, DetachedRecorded, Detached, G!Ours
      <3>3. current' = current  BY <2>5 DEF G!Replace, G!Goto
      <3>4. StepsFit'  BY <1>0, <1>2, <3>1, <3>2 DEF StepsFit, NoneDetached, Unloaded, Quiet
      <3>5. SettingsFit'  BY <1>0, <1>2, <3>1, <3>3 DEF SettingsFit, Quiet
      <3> QED BY <3>4, <3>5
    <2> QED BY <2>1, <2>2, <2>3, <2>4, <2>5
  <1> QED BY <1>1, <1>3, QuietKeeps DEF GatewayInv

(* The other steps after which no more runs.                               *)
LEMMA CalmDetached ==
  ASSUME GatewayInv, Calmer, lost \subseteq lost'
  PROVE  \A i \in G!Routers : Detached(i)' => Detached(i) /\ Same(i)
  BY CalmKeeps DEF Detached, Same

LEMMA CalmService ==
  ASSUME GatewayInv, Calmer, agent' = "off" <=> loaded' = NoValue,
         \/ loaded' = loaded
         \/ loaded' # NoValue
         \/ \A i \in G!Routers : ~(router'[i].of = "launchd"
                                     /\ router'[i].state \in {"shell", "starting", "serving"})
  PROVE  ServiceRuns'
  <1>1. \A i \in G!Routers : router'[i].state = "shell" => router'[i].of = "launchd"
    BY CalmKeeps DEF GatewayInv, ServiceRuns, Same
  <1>2. \A i \in G!Routers : G!Alive(i)' => router'[i].of \in {"command", "launchd"}
    BY CalmKeeps DEF GatewayInv, ServiceRuns, Same
  <1>3. \A i \in G!Routers :
          router'[i].of = "launchd" /\ router'[i].state \in {"shell", "starting", "serving"}
            => loaded' # NoValue
    BY CalmKeeps DEF GatewayInv, ServiceRuns, Same
  <1> QED BY <1>1, <1>2, <1>3 DEF ServiceRuns

LEMMA CalmRest ==
  ASSUME GatewayInv, Calmer, ServiceRuns', GatewayTypes', GatewayFlags', DetachedRecorded', StepsFit',
         SettingsFit'
  PROVE  GatewayInv'
  BY CalmKeeps DEF GatewayInv

(* launchd is told to end the agent, or to start it again.                 *)
LEMMA ServiceSteps ==
  ASSUME GatewayConstants, GatewayInv,
         G!Reload \/ G!Kickstart \/ G!GiveUp \/ G!Bootout
  PROVE  GatewayInv'
  <1>0. /\ GatewayTypes /\ GatewayFlags /\ ServiceRuns /\ DetachedRecorded /\ StepsFit /\ SettingsFit
    BY DEF GatewayInv
  <1>1. router' = G!Terminated
    BY DEF G!Reload, G!Kickstart, G!GiveUp, G!Bootout
  <1>2. /\ Calmer
        /\ \A i \in G!Routers : ~(router'[i].of = "launchd"
                                     /\ router'[i].state \in {"shell", "starting", "serving"})
    BY <1>1, TerminatedCalm
  <1>3. /\ recorded' = recorded /\ instance' = instance /\ plist' = plist /\ key' = key
        /\ lost' = lost /\ broken' = broken
        /\ \/ agent' = "off" /\ loaded' = NoValue
           \/ agent' = "begin" /\ loaded' = loaded /\ loaded # NoValue
        /\ \/ /\ step = "service" /\ loaded # NoValue
              /\ step' \in {"rebootstrap", "wait service"}
              /\ step' = "rebootstrap" => loaded' = NoValue
              /\ ask' = ask /\ current' = current
           \/ step = "wait service" /\ step' = "idle" /\ ask' = G!NoAsk /\ current' = FALSE
           \/ /\ step = "bootout" /\ loaded' = NoValue /\ ask' = ask /\ current' = current
              /\ \/ ask.op = "stop" /\ step' = "stop"
                 \/ ask.op = "install" /\ step' = "rebootstrap"
                 \/ step' = "unlink"
    <2>1. CASE G!Reload  BY <2>1 DEF G!Reload, G!Goto, G!fileVars, G!historyVars
    <2>2. CASE G!Kickstart
      <3>1. /\ recorded' = recorded /\ instance' = instance /\ plist' = plist /\ key' = key
            /\ lost' = lost /\ broken' = broken /\ ask' = ask /\ current' = current
        BY <2>2, Zenon DEF G!Kickstart, G!Goto, G!fileVars, G!historyVars
      <3>2. step = "service" /\ loaded # NoValue /\ step' = "wait service" /\ agent' = "begin" /\ loaded' = loaded
        BY <2>2, Zenon DEF G!Kickstart, G!Goto
      <3> QED BY <3>1, <3>2
    <2>3. CASE G!GiveUp  BY <2>3 DEF G!GiveUp, G!EndsHere, G!fileVars, G!historyVars
    <2>4. CASE G!Bootout
      <3>1. step' = IF ask.op = "stop" THEN "stop" ELSE IF ask.op = "install" THEN "rebootstrap" ELSE "unlink"
        BY <2>4, SMT DEF G!Bootout, G!Goto
      <3>2. /\ recorded' = recorded /\ instance' = instance /\ plist' = plist /\ key' = key
            /\ lost' = lost /\ broken' = broken /\ ask' = ask /\ current' = current
            /\ step = "bootout" /\ loaded' = NoValue /\ agent' = "off"
        BY <2>4, Zenon DEF G!Bootout, G!Goto, G!fileVars, G!historyVars
      <3> QED BY <3>1, <3>2
    <2> QED BY <2>1, <2>2, <2>3, <2>4
  <1>5. G!NoAsk \in [op : G!GatewayOps, settings : G!AllSettings \cup {NoValue}]
    BY DEF G!NoAsk, G!GatewayOps
  <1>4. (agent' = "off" <=> loaded' = NoValue) /\ lost \subseteq lost'  BY <1>3
  <1>6. ServiceRuns'  BY <1>2, <1>4, CalmService
  <1>7. \A i \in G!Routers : Detached(i)' => Detached(i) /\ Same(i)  BY <1>2, <1>4, CalmDetached
  <1>8. GatewayFlags'  BY <1>0, <1>3, Zenon DEF GatewayFlags
  <1>9. GatewayTypes'
    <2>1. router' \in [G!Routers -> Gateways]  BY <1>2 DEF Calmer
    <2>2. ask' \in [op : G!GatewayOps, settings : G!AllSettings \cup {NoValue}]
      BY <1>0, <1>3, <1>5 DEF GatewayTypes
    <2>3. step' \in G!Steps /\ (step' # "idle" => ask'.settings \in G!AllSettings)
      BY <1>0, <1>3 DEF GatewayTypes, G!Steps
    <2> QED BY <1>0, <1>3, <2>1, <2>2, <2>3 DEF GatewayTypes
  <1>10. DetachedRecorded'
    BY <1>0, <1>3, <1>7 DEF DetachedRecorded
  <1>11. StepsFit'
    BY <1>0, <1>3, <1>7 DEF StepsFit, NoneDetached, Unloaded, DetachedRecorded
  <1>12. SettingsFit'
    BY <1>0, <1>3, <1>7 DEF SettingsFit, Same, DetachedRecorded
  <1> QED BY <1>2, <1>6, <1>8, <1>9, <1>10, <1>11, <1>12, CalmRest

(* A command stops the recorded router.                                    *)
LEMMA StoppingSteps ==
  ASSUME GatewayConstants, GatewayInv, G!Terminate \/ (G!Undo /\ G!Ours)
  PROVE  GatewayInv'
  <1>0. /\ GatewayTypes /\ GatewayFlags /\ ServiceRuns /\ DetachedRecorded /\ StepsFit /\ SettingsFit
    BY DEF GatewayInv
  <1>1. /\ recorded \in G!Routers /\ G!Alive(recorded) /\ router[recorded].state # "shell"
        /\ G!SetState(recorded, IF router[recorded].state = "starting" THEN "dead" ELSE "stopping")
        /\ recorded' = recorded /\ instance' = instance /\ plist' = plist /\ key' = key
        /\ loaded' = loaded /\ agent' = agent /\ lost' = lost /\ broken' = broken
        /\ ask' = ask /\ current' = current
        /\ \/ step = "stop" /\ step' = "stopping"
           \/ step = "undo" /\ step' = "undoing"
    <2>1. CASE G!Terminate
      BY <2>1, Zenon DEF G!Terminate, G!Ours, G!Goto, G!fileVars, G!serviceVars, G!historyVars
    <2>2. CASE G!Undo /\ G!Ours
      BY <2>2, Zenon DEF G!Undo, G!Ours, G!Goto, G!serviceVars, G!historyVars
    <2> QED BY <2>1, <2>2
  <1>2. Calmer
    <2>1. router[recorded].state \in {"starting", "serving", "stopping"}  BY <1>1 DEF G!Alive
    <2> DEFINE s == IF router[recorded].state = "starting" THEN "dead" ELSE "stopping"
    <2>2. s \in {"dead", "stopping"} /\ (router[recorded].state \in {"serving", "stopping"} \/ s = "dead")
      BY <2>1
    <2>3. G!SetState(recorded, s)  BY <1>1
    <2> HIDE DEF s
    <2> QED BY <1>1, <2>2, <2>3, SetCalm
  <1>3. \A i \in G!Routers : Detached(i)' => Detached(i) /\ Same(i)  BY <1>1, <1>2, CalmDetached
  <1>4. \A i \in G!Routers : G!Alive(i)' => G!Alive(i) /\ Same(i)  BY <1>2, CalmKeeps
  <1>5. ServiceRuns'
    <2>1. agent' = "off" <=> loaded' = NoValue  BY <1>0, <1>1 DEF ServiceRuns
    <2> QED BY <1>1, <1>2, <2>1, CalmService
  <1>6. GatewayFlags'  BY <1>0, <1>1, Zenon DEF GatewayFlags
  <1>7. GatewayTypes'  BY <1>0, <1>1, <1>2 DEF GatewayTypes, Calmer, G!Steps
  <1>8. DetachedRecorded'  BY <1>0, <1>1, <1>3 DEF DetachedRecorded
  <1>9. StepsFit'  BY <1>0, <1>1, <1>3 DEF StepsFit, NoneDetached, Unloaded
  <1>10. SettingsFit'  BY <1>0, <1>1, <1>3, <1>4 DEF SettingsFit, Same, DetachedRecorded
  <1> QED BY <1>2, <1>5, <1>6, <1>7, <1>8, <1>9, <1>10, CalmRest

(* A command writes a record, loads the service or breaks off.             *)
LEMMA RecordSteps ==
  ASSUME GatewayConstants, GatewayInv,
         \/ G!Unrecord \/ (G!Undo /\ ~G!Ours) \/ G!UndoEnds \/ G!WriteInstance \/ G!Clear
         \/ G!Record \/ G!LoadService \/ G!Kill
  PROVE  GatewayInv'
  <1>0. /\ GatewayTypes /\ GatewayFlags /\ ServiceRuns /\ DetachedRecorded /\ StepsFit /\ SettingsFit
    BY DEF GatewayInv
  <1>1. router' = router
    BY Zenon DEF G!Unrecord, G!Undo, G!UndoEnds, G!WriteInstance, G!Clear, G!Record, G!LoadService, G!Kill
  <1>2. Calmer  BY <1>1, UnchangedCalm
  <1>3. /\ \A i : G!Alive(i)' <=> G!Alive(i)
        /\ G!Spawned' = G!Spawned
    BY <1>1 DEF G!Alive, G!Spawned
  <1>4. \A i \in G!Routers : Detached(i) /\ step # "record" =>
          /\ recorded = i /\ loaded = NoValue /\ G!Ours /\ G!Alive(i)
    BY <1>0, AliveStates DEF DetachedRecorded, ServiceRuns, Detached, G!Ours
  <1>5. G!NoAsk \in [op : G!GatewayOps, settings : G!AllSettings \cup {NoValue}]
    BY DEF G!NoAsk, G!GatewayOps
  <1>6. ASSUME plist' = plist, key' = key, GatewayFlags', lost \subseteq lost',
               lost' \subseteq G!Routers, recorded' \in 0 .. G!Unrelated,
               instance' \in G!AllSettings \cup {NoValue}, loaded' \in Arguments \cup {NoValue},
               agent' \in {"off", "begin", "instance", "exec", "runs"}, step' \in G!Steps,
               agent' = "off" <=> loaded' = NoValue, loaded' = loaded \/ loaded' # NoValue,
               (ask' = G!NoAsk /\ step' = "idle") \/ (ask' = ask /\ step # "idle"),
               DetachedRecorded', StepsFit', SettingsFit'
        PROVE  GatewayInv'
    <2>1. GatewayTypes'
      <3>1. ask' \in [op : G!GatewayOps, settings : G!AllSettings \cup {NoValue}]
        BY <1>0, <1>5, <1>6 DEF GatewayTypes
      <3>2. step' # "idle" => ask'.settings \in G!AllSettings
        BY <1>0, <1>6 DEF GatewayTypes
      <3> QED BY <1>0, <1>1, <1>6, <3>1, <3>2 DEF GatewayTypes
    <2>2. ServiceRuns'  BY <1>2, <1>6, CalmService
    <2> QED BY <1>2, <1>6, <2>1, <2>2, CalmRest
  <1>7. \A i \in G!Routers : lost \subseteq lost' /\ Detached(i)' => Detached(i) /\ Same(i)
    BY <1>1, <1>3 DEF Detached, Same
  <1>8. CASE G!Unrecord
    <2>1. /\ recorded' = 0 /\ lost' = lost /\ broken' = broken /\ instance' = instance
          /\ plist' = plist /\ key' = key /\ loaded' = loaded /\ agent' = agent
          /\ step \in {"stop", "stopping"}
          /\ ~G!Ours \/ (step = "stopping" /\ ~G!Alive(recorded))
      BY <1>8, Zenon DEF G!Unrecord, G!serviceVars, G!historyVars
    <2>2. \/ step' = "idle" /\ ask' = G!NoAsk /\ current' = FALSE
          \/ /\ ask' = ask /\ current' = current
             /\ \/ ask.op = "start" /\ step' = "ports"
                \/ ask.op = "install" /\ step' = "bootout"
                \/ ask.op \notin {"start", "install", "stop"} /\ step' = "clear"
      BY <1>8 DEF G!Unrecord, G!AfterStop, G!Goto, G!EndsHere
    <2>3. \A i \in G!Routers : ~Detached(i)
      BY <1>4, <2>1
    <2>4. \A i \in G!Routers : ~Detached(i)'  BY <1>3, <1>7, <2>1, <2>3
    <2>5. GatewayFlags'  BY <1>0, <2>1, <2>2, Zenon DEF GatewayFlags
    <2>6. DetachedRecorded'  BY <1>0, <2>1, <2>4 DEF DetachedRecorded
    <2>7. ask.op \notin {"start", "install", "stop"} => ask.op = "uninstall"
      BY <1>0, <2>1 DEF StepsFit, GatewayTypes, G!GatewayOps
    <2>8. StepsFit'
      BY <1>0, <2>1, <2>2, <2>4, <2>7 DEF StepsFit, NoneDetached, Unloaded
    <2>9. SettingsFit'  BY <1>0, <2>1, <2>2, <2>4 DEF SettingsFit
    <2>10. step' \in G!Steps /\ recorded' \in 0 .. G!Unrelated /\ (agent' = "off" <=> loaded' = NoValue)
      BY <1>0, <2>1, <2>2, RouterNumbers DEF G!Steps, ServiceRuns
    <2> QED BY <1>0, <1>6, <2>1, <2>2, <2>5, <2>6, <2>8, <2>9, <2>10 DEF GatewayTypes
  <1>9. CASE G!Undo /\ ~G!Ours
    <2>1. /\ recorded' = 0 /\ lost' = lost /\ broken' = broken /\ instance' = instance
          /\ plist' = plist /\ key' = key /\ loaded' = loaded /\ agent' = agent
          /\ step = "undo" /\ step' = "idle" /\ ask' = G!NoAsk /\ current' = FALSE
      BY <1>9, Zenon DEF G!Undo, G!EndsHere, G!serviceVars, G!historyVars
    <2>2. \A i \in G!Routers : ~Detached(i)'  BY <1>4, <1>7, <1>9, <2>1
    <2>3. GatewayFlags'  BY <1>0, <2>1, Zenon DEF GatewayFlags
    <2>4. DetachedRecorded'  BY <1>0, <2>1, <2>2 DEF DetachedRecorded
    <2>5. StepsFit' /\ SettingsFit'
      BY <1>0, <2>1, <2>2 DEF StepsFit, SettingsFit, NoneDetached, Unloaded
    <2>6. step' \in G!Steps /\ recorded' \in 0 .. G!Unrelated /\ (agent' = "off" <=> loaded' = NoValue)
      BY <1>0, <2>1, RouterNumbers DEF G!Steps, ServiceRuns
    <2> QED BY <1>0, <1>6, <2>1, <2>3, <2>4, <2>5, <2>6 DEF GatewayTypes
  <1>10. CASE G!UndoEnds
    <2>1. /\ lost' = lost /\ instance' = instance
          /\ plist' = plist /\ key' = key /\ loaded' = loaded /\ agent' = agent
          /\ step = "undoing" /\ step' = "idle" /\ ask' = G!NoAsk /\ current' = FALSE
          /\ \/ ~G!Alive(recorded) /\ recorded' = 0 /\ broken' = broken
             \/ G!Alive(recorded) /\ recorded' = recorded /\ broken' = TRUE
      BY <1>10, Zenon DEF G!UndoEnds, G!EndsHere, G!serviceVars
    <2>2. \A i \in G!Routers : Detached(i)' => recorded' = recorded /\ recorded' = i /\ loaded' = NoValue /\ broken' = TRUE
      BY <1>4, <1>7, <2>1
    <2>3. GatewayFlags'  BY <1>0, <2>1, Zenon DEF GatewayFlags
    <2>4. DetachedRecorded'  BY <1>0, <2>1, <2>2 DEF DetachedRecorded
    <2>5. StepsFit' /\ SettingsFit'
      BY <1>0, <2>1, <2>2 DEF StepsFit, SettingsFit, NoneDetached, Unloaded
    <2>6. step' \in G!Steps /\ recorded' \in 0 .. G!Unrelated /\ (agent' = "off" <=> loaded' = NoValue)
      BY <1>0, <2>1, RouterNumbers DEF G!Steps, ServiceRuns, GatewayTypes
    <2> QED BY <1>0, <1>6, <2>1, <2>3, <2>4, <2>5, <2>6 DEF GatewayTypes
  <1>11. CASE G!WriteInstance \/ G!Clear
    <2>1. /\ lost' = lost /\ broken' = broken /\ plist' = plist /\ key' = key
          /\ loaded' = loaded /\ agent' = agent
          /\ step' = "idle" /\ ask' = G!NoAsk /\ current' = FALSE
          /\ \/ step = "instance" /\ recorded' = recorded /\ instance' = ask.settings
             \/ step = "clear" /\ recorded' = 0 /\ instance' = NoValue
      BY <1>11, Zenon DEF G!WriteInstance, G!Clear, G!EndsHere, G!serviceVars, G!historyVars
    <2>2. \A i \in G!Routers : Detached(i)' =>
             /\ step = "instance" /\ recorded' = i /\ loaded' = NoValue
             /\ router'[i].settings = ask.settings
      <3>1. step = "clear" => recorded \notin G!Routers
        BY <1>0, RouterNumbers DEF StepsFit
      <3>2. \A i \in G!Routers : Detached(i)' => recorded = i /\ loaded = NoValue /\ G!Alive(i)
        BY <1>4, <1>7, <2>1
      <3> QED BY <1>0, <1>1, <2>1, <3>1, <3>2 DEF SettingsFit
    <2>3. GatewayFlags'  BY <1>0, <2>1, Zenon DEF GatewayFlags
    <2>4. DetachedRecorded'  BY <1>0, <2>1, <2>2 DEF DetachedRecorded
    <2>5. StepsFit' /\ SettingsFit'
      BY <1>0, <2>1, <2>2 DEF StepsFit, SettingsFit, NoneDetached, Unloaded
    <2>6. /\ step' \in G!Steps /\ recorded' \in 0 .. G!Unrelated /\ (agent' = "off" <=> loaded' = NoValue)
          /\ instance' \in G!AllSettings \cup {NoValue}
      BY <1>0, <2>1, RouterNumbers DEF G!Steps, ServiceRuns, GatewayTypes
    <2> QED BY <1>0, <1>6, <2>1, <2>3, <2>4, <2>5, <2>6 DEF GatewayTypes
  <1>12. CASE G!Record
    <2>1. /\ lost' = lost /\ broken' = broken /\ plist' = plist /\ key' = key /\ instance' = instance
          /\ loaded' = loaded /\ agent' = agent /\ recorded' = G!Spawned
          /\ step = "record" /\ step' = "wait" /\ ask' = ask /\ current' = current
      BY <1>12, Zenon DEF G!Record, G!Goto, G!serviceVars, G!historyVars
    <2>2. \A i \in G!Routers : Detached(i)' => i = G!Spawned /\ loaded = NoValue
      BY <1>0, <1>7, <2>1 DEF StepsFit, DetachedRecorded
    <2>3. GatewayFlags'  BY <1>0, <2>1, Zenon DEF GatewayFlags
    <2>4. DetachedRecorded'  BY <1>0, <2>1, <2>2 DEF DetachedRecorded
    <2>5. StepsFit'
      BY <1>0, <2>1, <2>2 DEF StepsFit, NoneDetached, Unloaded
    <2>6. SettingsFit'
      BY <1>0, <1>1, <1>3, <2>1 DEF SettingsFit
    <2>7. step' \in G!Steps /\ recorded' \in 0 .. G!Unrelated /\ (agent' = "off" <=> loaded' = NoValue)
      BY <1>0, <2>1, RouterNumbers DEF G!Steps, ServiceRuns, StepsFit
    <2> QED BY <1>0, <1>6, <2>1, <2>3, <2>4, <2>5, <2>6, <2>7 DEF GatewayTypes
  <1>13. CASE G!LoadService
    <2>1. /\ lost' = lost /\ broken' = broken /\ plist' = plist /\ key' = key /\ instance' = instance
          /\ loaded' = ask.settings.args /\ agent' = "begin" /\ recorded' = recorded
          /\ step = "bootstrap" /\ step' = "wait service" /\ ask' = ask /\ current' = current
      BY <1>13, Zenon DEF G!LoadService, G!Goto, G!Args, G!fileVars, G!historyVars
    <2>2. \A i \in G!Routers : ~Detached(i)'
      BY <1>0, <1>7, <2>1 DEF StepsFit, NoneDetached
    <2>3. loaded' \in Arguments /\ loaded' # NoValue
      BY <1>0, <2>1 DEF GatewayTypes, G!AllSettings, GatewayConstants
    <2>4. GatewayFlags'  BY <1>0, <2>1, Zenon DEF GatewayFlags
    <2>5. DetachedRecorded'  BY <1>0, <2>1, <2>2 DEF DetachedRecorded
    <2>6. StepsFit' /\ SettingsFit'
      BY <1>0, <2>1, <2>2 DEF StepsFit, SettingsFit, NoneDetached, Unloaded
    <2>7. step' \in G!Steps /\ (agent' = "off" <=> loaded' = NoValue)
      BY <2>1, <2>3 DEF G!Steps
    <2> QED BY <1>0, <1>6, <2>1, <2>3, <2>4, <2>5, <2>6, <2>7 DEF GatewayTypes
  <1>14. CASE G!Kill
    <2>1. /\ broken' = TRUE /\ plist' = plist /\ key' = key /\ instance' = instance
          /\ loaded' = loaded /\ agent' = agent /\ recorded' = recorded
          /\ step # "idle" /\ step' = "idle" /\ ask' = G!NoAsk /\ current' = FALSE
          /\ lost' = IF step = "record" THEN lost \cup {G!Spawned} ELSE lost
      BY <1>14, Zenon DEF G!Kill, G!EndsHere, G!fileVars, G!serviceVars
    <2>2. lost \subseteq lost' /\ lost' \subseteq G!Routers
      BY <1>0, <2>1 DEF GatewayTypes, StepsFit
    <2>3. \A i \in G!Routers : Detached(i)' => recorded' = i /\ loaded' = NoValue
      <3>1. \A i \in G!Routers : Detached(i)' => Detached(i) /\ i \notin lost'
        BY <1>7, <2>2 DEF Detached
      <3>2. CASE step = "record"  BY <1>0, <2>1, <3>1, <3>2 DEF StepsFit
      <3>3. CASE step # "record"  BY <1>4, <2>1, <3>1, <3>3
      <3> QED BY <3>2, <3>3
    <2>4. GatewayFlags'  BY <1>0, <2>1, Zenon DEF GatewayFlags
    <2>5. DetachedRecorded'  BY <2>1, <2>3 DEF DetachedRecorded
    <2>6. StepsFit' /\ SettingsFit'
      BY <2>1 DEF StepsFit, SettingsFit, NoneDetached, Unloaded
    <2>7. step' \in G!Steps /\ (agent' = "off" <=> loaded' = NoValue)
      BY <1>0, <2>1 DEF G!Steps, ServiceRuns
    <2> QED BY <1>0, <1>6, <2>1, <2>2, <2>4, <2>5, <2>6, <2>7 DEF GatewayTypes
  <1> QED BY <1>8, <1>9, <1>10, <1>11, <1>12, <1>13, <1>14

(* What launchd and the machine do beside a command.                       *)
LEMMA EndingSteps ==
  ASSUME GatewayConstants, GatewayInv,
         \/ \E i \in G!Routers : G!Die(i) \/ (G!Serve(i) /\ G!Holders # {})
         \/ G!AgentWrites \/ G!Restart \/ G!Reboot
  PROVE  GatewayInv'
  <1>0. /\ GatewayTypes /\ GatewayFlags /\ ServiceRuns /\ DetachedRecorded /\ StepsFit /\ SettingsFit
    BY DEF GatewayInv
  <1>1. /\ Calmer
        /\ key' = key /\ plist' = plist /\ broken' = broken /\ lost' = lost
        /\ step' = step /\ ask' = ask /\ current' = current
        /\ \/ recorded' = recorded /\ instance' = instance /\ agent' = agent /\ loaded' = loaded
           \/ /\ agent \in {"begin", "runs"} /\ recorded' = recorded
              /\ loaded' = loaded /\ agent' # "off"
              /\ instance' \in G!AllSettings \cup {NoValue}
              /\ agent' \in {"off", "begin", "instance", "exec", "runs"}
           \/ /\ step = "idle" /\ \A i \in G!Routers : ~G!Alive(i)'
              /\ recorded' \in 0 .. G!Unrelated /\ instance' = instance
              /\ loaded' = plist /\ agent' = IF plist = NoValue THEN "off" ELSE "begin"
    <2>1. ASSUME NEW i \in G!Routers, G!Die(i) \/ (G!Serve(i) /\ G!Holders # {})
          PROVE  /\ Calmer
                 /\ key' = key /\ plist' = plist /\ broken' = broken /\ lost' = lost
                 /\ step' = step /\ ask' = ask /\ current' = current
                 /\ recorded' = recorded /\ instance' = instance /\ agent' = agent /\ loaded' = loaded
      <3>1. /\ router[i].state \in {"starting", "serving", "stopping"} /\ G!SetState(i, "dead")
            /\ key' = key /\ plist' = plist /\ broken' = broken /\ lost' = lost
            /\ step' = step /\ ask' = ask /\ current' = current
            /\ recorded' = recorded /\ instance' = instance /\ agent' = agent /\ loaded' = loaded
        <4>1. CASE G!Die(i)
          BY <4>1, Zenon DEF G!Die, G!fileVars, G!serviceVars, G!commandVars, G!historyVars
        <4>2. CASE G!Serve(i) /\ G!Holders # {}
          BY <4>2 DEF G!Serve, G!fileVars, G!serviceVars, G!commandVars, G!historyVars
        <4> QED BY <2>1, <4>1, <4>2
      <3>2. Calmer
        <4>1. G!Alive(i)  BY <3>1 DEF G!Alive
        <4> QED BY <3>1, <4>1, SetCalm
      <3> QED BY <3>1, <3>2
    <2>2. CASE G!AgentWrites
      <3>1. /\ router' = router /\ agent = "begin" /\ agent' = "instance"
            /\ instance' = [args |-> loaded, key |-> key] /\ recorded' = recorded
            /\ key' = key /\ plist' = plist /\ broken' = broken /\ lost' = lost
            /\ step' = step /\ ask' = ask /\ current' = current /\ loaded' = loaded
        BY <2>2, Zenon DEF G!AgentWrites, G!commandVars, G!historyVars
      <3>2. instance' \in G!AllSettings
        BY <1>0, <3>1 DEF GatewayTypes, ServiceRuns, G!AllSettings
      <3> QED BY <3>1, <3>2, UnchangedCalm
    <2>3. CASE G!Restart
      <3>1. /\ router' = router /\ agent = "runs" /\ agent' = "begin" /\ instance' = instance
            /\ recorded' = recorded
            /\ key' = key /\ plist' = plist /\ broken' = broken /\ lost' = lost
            /\ step' = step /\ ask' = ask /\ current' = current /\ loaded' = loaded
        BY <2>3, Zenon DEF G!Restart, G!fileVars, G!commandVars, G!historyVars
      <3> QED BY <1>0, <3>1, UnchangedCalm DEF GatewayTypes
    <2>4. CASE G!Reboot
      <3>1. /\ router' = [i \in G!Routers |-> IF G!Alive(i) THEN G!Dead ELSE router[i]]
            /\ recorded' = recorded \/ recorded' = G!Unrelated
            /\ loaded' = plist /\ agent' = IF plist = NoValue THEN "off" ELSE "begin"
            /\ instance' = instance /\ step = "idle"
            /\ key' = key /\ plist' = plist /\ broken' = broken /\ lost' = lost
            /\ step' = step /\ ask' = ask /\ current' = current
        BY <2>4 DEF G!Reboot, G!commandVars, G!historyVars
      <3>2. \A i \in G!Routers : /\ router'[i] \in Gateways
                                 /\ router'[i] = G!Unborn <=> router[i] = G!Unborn
                                 /\ router'[i].state = "unborn" => router'[i] = G!Unborn
                                 /\ router'[i].state \notin Living
        BY <3>1, AliveStates, DeadParts DEF GatewayInv, InOrder, G!Alive, Living
      <3>3. \A i \in G!Routers : ~G!Alive(i)'  BY <3>2 DEF G!Alive, Living
      <3>4. Calmer
        <4>1. router' = [i \in G!Routers |-> router'[i]]  BY <3>1
        <4> QED BY <3>2, <3>3, <4>1 DEF Calmer
      <3>5. recorded' \in 0 .. G!Unrelated  BY <1>0, <3>1, RouterNumbers DEF GatewayTypes
      <3> QED BY <3>1, <3>3, <3>4, <3>5
    <2> QED BY <2>1, <2>2, <2>3, <2>4
  <1>2. \A i \in G!Routers : Detached(i)' => Detached(i) /\ Same(i)  BY <1>1, CalmDetached
  <1>3. \A i \in G!Routers : G!Alive(i)' => G!Alive(i) /\ Same(i)  BY <1>1, CalmKeeps
  <1>4. (agent' = "off" <=> loaded' = NoValue) /\ (agent \in {"begin", "runs"} => loaded # NoValue)
    BY <1>0, <1>1 DEF ServiceRuns
  <1>5. ServiceRuns'
    <2>1. \/ loaded' = loaded
          \/ \A i \in G!Routers : ~G!Alive(i)'  BY <1>1
    <2>2. \A i \in G!Routers : ~G!Alive(i)' => router'[i].state \notin {"shell", "starting", "serving"}
      BY DEF G!Alive
    <2> QED BY <1>1, <1>4, <2>1, <2>2, CalmService
  <1>6. GatewayFlags'  BY <1>0, <1>1, Zenon DEF GatewayFlags
  <1>7. GatewayTypes'  BY <1>0, <1>1 DEF GatewayTypes, Calmer
  <1>8. \A i \in G!Routers : Detached(i)' =>
           loaded = NoValue /\ agent = "off" /\ loaded' = loaded /\ recorded' = recorded /\ instance' = instance
    <2>1. \A i \in G!Routers : Detached(i)' => G!Alive(i)'  BY DEF Detached
    <2> QED BY <1>0, <1>1, <1>2, <1>4, <2>1 DEF DetachedRecorded, ServiceRuns
  <1>9. G!Spawned' = G!Spawned  BY <1>1, CalmKeeps
  <1>10. DetachedRecorded'  BY <1>0, <1>1, <1>2, <1>8, <1>9 DEF DetachedRecorded
  <1>11. StepsFit'
    <2>1. step \in {"stopping", "undoing", "wait", "instance", "undo", "clear"} => recorded' = recorded
      BY <1>1
    <2>2. step # "idle" => loaded' = loaded  BY <1>1
    <2> QED BY <1>0, <1>1, <1>2, <1>9, <2>1, <2>2 DEF StepsFit, NoneDetached, Unloaded
  <1>12. SettingsFit'
    <2>1. step \in {"wait", "instance", "undo", "undoing"} => recorded' = recorded  BY <1>1
    <2>2. step # "idle" /\ loaded = NoValue => instance' = instance  BY <1>1, <1>4
    <2>3. step # "idle" => loaded' = loaded  BY <1>1
    <2>4. step = "record" => G!Spawned \in G!Routers  BY <1>0 DEF StepsFit
    <2>5. step \in {"wait", "instance", "undo", "undoing"} => recorded \in G!Routers
      BY <1>0 DEF StepsFit
    <2>6. step = "record" /\ G!Alive(G!Spawned)' =>
             router'[G!Spawned].settings = ask.settings /\ router'[G!Spawned].of = "command"
      BY <1>0, <1>3, <1>9, <2>4 DEF SettingsFit, Same
    <2>7. step \in {"wait", "instance", "undo", "undoing"} /\ G!Alive(recorded)' =>
             router'[recorded].settings = ask.settings
      BY <1>0, <1>3, <2>5, <2>1 DEF SettingsFit, Same
    <2>8. (broken = FALSE /\ step \notin {"record", "wait", "instance", "undo", "undoing"}) =>
             \A i \in G!Routers : Detached(i)' => instance' = router'[i].settings
      BY <1>0, <1>2, <1>8 DEF SettingsFit, Same
    <2>9. (step \in {"service", "detached"} /\ current = TRUE /\ loaded' = NoValue) =>
             instance' = ask.settings
      BY <1>0, <2>2, <2>3 DEF SettingsFit
    <2> QED BY <1>1, <1>9, <2>1, <2>6, <2>7, <2>8, <2>9 DEF SettingsFit
  <1> QED BY <1>1, <1>5, <1>6, <1>7, <1>10, <1>11, <1>12, CalmRest

(* A router that runs takes its next step.                                 *)
LEMMA AdvanceKeeps ==
  ASSUME GatewayInv, NEW i \in G!Routers, G!Alive(i), NEW s \in {"starting", "serving"},
         G!SetState(i, s), lost' = lost
  PROVE  /\ router' \in [G!Routers -> Gateways] /\ InOrder' /\ G!Spawned' = G!Spawned
         /\ \A j \in G!Routers : /\ Same(j)
                                 /\ G!Alive(j)' <=> G!Alive(j)
                                 /\ Detached(j)' <=> Detached(j)
                                 /\ router'[j].state = IF j = i THEN s ELSE router[j].state
  <1>1. PICK x \in Gateways : x = router[i]  BY AliveStates DEF GatewayInv
  <1>2. PICK y : y = [x EXCEPT !.state = s]  OBVIOUS
  <1>3. router' = [router EXCEPT ![i] = y]
    <2>1. s # "dead"  OBVIOUS
    <2> QED BY <1>1, <1>2, <2>1, Zenon DEF G!SetState
  <1>4. y \in Gateways /\ y.state = s /\ y.of = x.of /\ y.settings = x.settings
    BY <1>2 DEF Gateways, RouterStates, Living
  <1>5. x.state \in Living /\ y # G!Unborn /\ x # G!Unborn
    BY <1>1, <1>4, AliveStates, DeadParts DEF GatewayInv, Living
  <1>6. router' \in [G!Routers -> Gateways] /\ router \in [G!Routers -> Gateways]
    BY <1>3, <1>4 DEF GatewayInv, GatewayTypes
  <1>7. \A j \in G!Routers : router'[j] = IF j = i THEN y ELSE router[j]
    BY <1>3, <1>6
  <1>8. \A j \in G!Routers : router'[j] = G!Unborn <=> router[j] = G!Unborn
    BY <1>1, <1>5, <1>7
  <1>9. InOrder'
    BY <1>1, <1>4, <1>5, <1>7, <1>8 DEF GatewayInv, InOrder
  <1>10. \A j \in G!Routers : Same(j) /\ (G!Alive(j)' <=> G!Alive(j))
    BY <1>1, <1>4, <1>7 DEF Same, G!Alive
  <1>11. \A j \in G!Routers : Detached(j)' <=> Detached(j)
    BY <1>10 DEF Detached, Same
  <1>12. \A j \in G!Routers : router'[j].state = IF j = i THEN s ELSE router[j].state
    BY <1>4, <1>7
  <1> QED BY <1>6, <1>8, <1>9, <1>10, <1>11, <1>12, SpawnedKept

LEMMA AdvanceSteps ==
  ASSUME GatewayConstants, GatewayInv,
         G!Exec \/ \E i \in G!Routers : G!Serve(i) /\ G!Holders = {}
  PROVE  GatewayInv'
  <1>0. /\ GatewayTypes /\ GatewayFlags /\ ServiceRuns /\ DetachedRecorded /\ StepsFit /\ SettingsFit
        /\ OneHolder
    BY DEF GatewayInv
  <1>1. PICK i \in G!Routers, s \in {"starting", "serving"} :
          /\ G!SetState(i, s) /\ G!Alive(i)
          /\ s = "serving" => G!Holders = {} /\ router[i].state = "starting"
          /\ s = "starting" => router[i].state = "shell"
    BY DEF G!Exec, G!Serve, G!Alive
  <1>2. /\ recorded' = recorded /\ instance' = instance /\ loaded' = loaded
        /\ key' = key /\ plist' = plist /\ broken' = broken /\ lost' = lost
        /\ step' = step /\ ask' = ask /\ current' = current
        /\ \/ agent' = agent
           \/ agent = "exec" /\ agent' = "runs"
    <2>1. CASE G!Exec
      BY <2>1, Zenon DEF G!Exec, G!fileVars, G!commandVars, G!historyVars
    <2>2. CASE \E j \in G!Routers : G!Serve(j)
      <3>1. PICK j \in G!Routers : G!Serve(j)  BY <2>2
      <3>2. UNCHANGED <<G!fileVars, G!serviceVars, G!commandVars, G!historyVars>>
        BY <3>1, Zenon DEF G!Serve
      <3> QED BY <3>2 DEF G!fileVars, G!serviceVars, G!commandVars, G!historyVars
    <2> QED BY <2>1, <2>2
  <1>3. /\ router' \in [G!Routers -> Gateways] /\ InOrder' /\ G!Spawned' = G!Spawned
        /\ \A j \in G!Routers : /\ Same(j)
                                /\ G!Alive(j)' <=> G!Alive(j)
                                /\ Detached(j)' <=> Detached(j)
                                /\ router'[j].state = IF j = i THEN s ELSE router[j].state
    BY <1>1, <1>2, AdvanceKeeps
  <1>4. GatewayFlags'  BY <1>0, <1>2, Zenon DEF GatewayFlags
  <1>5. GatewayTypes'  BY <1>0, <1>2, <1>3 DEF GatewayTypes
  <1>6. ServiceRuns'
    <2>1. agent' = "off" <=> loaded' = NoValue  BY <1>0, <1>2 DEF ServiceRuns
    <2>2. \A j \in G!Routers : router'[j].state = "shell" => router'[j].of = "launchd"
      BY <1>0, <1>1, <1>3 DEF ServiceRuns, Same
    <2>3. \A j \in G!Routers : G!Alive(j)' => router'[j].of \in {"command", "launchd"}
      BY <1>0, <1>3 DEF ServiceRuns, Same
    <2>4. \A j \in G!Routers : router'[j].of = "launchd"
             /\ router'[j].state \in {"shell", "starting", "serving"} => loaded' # NoValue
      BY <1>0, <1>1, <1>2, <1>3 DEF ServiceRuns, Same
    <2> QED BY <2>1, <2>2, <2>3, <2>4 DEF ServiceRuns
  <1>7. DetachedRecorded'
    BY <1>0, <1>2, <1>3 DEF DetachedRecorded
  <1>8. StepsFit'
    BY <1>0, <1>2, <1>3 DEF StepsFit, NoneDetached, Unloaded
  <1>9. SettingsFit'
    <2>1. step \in {"wait", "instance", "undo", "undoing"} => recorded \in G!Routers
      BY <1>0 DEF StepsFit
    <2>2. step = "record" => G!Spawned \in G!Routers  BY <1>0 DEF StepsFit
    <2>3. step = "record" /\ G!Alive(G!Spawned)' =>
             router'[G!Spawned].settings = ask.settings /\ router'[G!Spawned].of = "command"
      BY <1>0, <1>3, <2>2 DEF SettingsFit, Same
    <2>4. step \in {"wait", "instance", "undo", "undoing"} /\ G!Alive(recorded)' =>
             router'[recorded].settings = ask.settings
      BY <1>0, <1>2, <1>3, <2>1 DEF SettingsFit, Same
    <2>5. (broken = FALSE /\ step \notin {"record", "wait", "instance", "undo", "undoing"}) =>
             \A j \in G!Routers : Detached(j)' => instance = router'[j].settings
      BY <1>0, <1>3 DEF SettingsFit, Same
    <2> QED BY <1>0, <1>2, <1>3, <2>3, <2>4, <2>5 DEF SettingsFit
  <1>10. OneHolder'
    <2>1. \A j \in G!Routers : j \in G!Holders' => j \in G!Holders \/ (j = i /\ G!Holders = {})
      BY <1>1, <1>3 DEF G!Holders
    <2> QED BY <1>0, <2>1 DEF OneHolder, G!Holders
  <1> QED BY <1>3, <1>4, <1>5, <1>6, <1>7, <1>8, <1>9, <1>10 DEF GatewayInv

(* A new router has the lowest number that is free.                        *)
Lowest == CHOOSE i \in G!Free : \A j \in G!Free : i <= j

LEMMA NewRouter ==
  ASSUME GatewayConstants, GatewayInv, G!Free # {}, NEW y \in Gateways,
         y.state \in {"shell", "starting"}, router' = [router EXCEPT ![Lowest] = y]
  PROVE  /\ Lowest \in G!Routers /\ router[Lowest] = G!Unborn /\ G!Spawned' = Lowest
         /\ router' \in [G!Routers -> Gateways] /\ InOrder' /\ OneHolder'
         /\ \A j \in G!Routers : router'[j] = IF j = Lowest THEN y ELSE router[j]
  <1>1. Lowest \in G!Free /\ \A j \in G!Free : Lowest <= j
    <2>1. G!Free \subseteq Nat  BY RouterNumbers DEF G!Free
    <2>2. \E k \in G!Free : \A j \in G!Free : k <= j
      <3>1. PICK k \in G!Free : \A j \in G!Free : ~(<<j, k>> \in OpToRel(<, Nat))
        BY <2>1, NatLessThanWellFounded, WFMin
      <3>2. \A j \in G!Free : ~(j < k)  BY <2>1, <3>1 DEF OpToRel
      <3> QED BY <2>1, <3>2
    <2> QED BY <2>2 DEF Lowest
  <1>2. PICK i : i = Lowest  OBVIOUS
  <1>3. i \in G!Routers /\ router[i] = G!Unborn /\ router' = [router EXCEPT ![i] = y]
    BY <1>1, <1>2 DEF G!Free
  <1>4. router \in [G!Routers -> Gateways]  BY DEF GatewayInv, GatewayTypes
  <1>5. router' \in [G!Routers -> Gateways]
        /\ \A j \in G!Routers : router'[j] = IF j = i THEN y ELSE router[j]
    BY <1>3, <1>4
  <1>6. y # G!Unborn /\ y.state # "unborn"  BY DeadParts
  <1>7. \A j \in G!Routers : j < i => router[j] # G!Unborn
    BY <1>1, <1>2, <1>3, RouterNumbers DEF G!Free
  <1>8. \A j \in G!Routers : j > i => router[j] = G!Unborn
    BY <1>3, RouterNumbers DEF GatewayInv, InOrder
  <1>9. InOrder'
    BY <1>3, <1>5, <1>6, <1>7, <1>8, RouterNumbers DEF GatewayInv, InOrder
  <1>10. OneHolder'
    <2>1. G!Holders' \subseteq G!Holders  BY <1>5 DEF G!Holders
    <2> QED BY <2>1 DEF GatewayInv, OneHolder
  <1>11. G!Spawned' = i
    <2>1. \A k \in G!Routers :
            router'[k] # G!Unborn /\ (\A j \in G!Routers : j > k => router'[j] = G!Unborn) => k = i
      BY <1>3, <1>5, <1>6, <1>7, <1>8, RouterNumbers
    <2>2. router'[i] # G!Unborn /\ (\A j \in G!Routers : j > i => router'[j] = G!Unborn)
      BY <1>3, <1>5, <1>6, <1>8, RouterNumbers
    <2> QED BY <1>3, <2>1, <2>2 DEF G!Spawned
  <1> QED BY <1>2, <1>3, <1>5, <1>9, <1>10, <1>11

LEMMA StartSteps ==
  ASSUME GatewayConstants, GatewayInv, G!Spawn \/ G!AgentRecords
  PROVE  GatewayInv'
  <1>0. /\ GatewayTypes /\ GatewayFlags /\ ServiceRuns /\ DetachedRecorded /\ StepsFit /\ SettingsFit
    BY DEF GatewayInv
  <1>1. CASE G!Spawn
    <2> DEFINE y == [state |-> "starting", settings |-> ask.settings, of |-> "command"]
    <2>1. /\ recorded' = recorded /\ instance' = instance /\ loaded' = loaded /\ agent' = agent
          /\ key' = key /\ plist' = plist /\ broken' = broken /\ lost' = lost
          /\ step = "ports" /\ step' = "record" /\ ask' = ask /\ current' = current
          /\ G!Free # {}
          /\ router' = [router EXCEPT ![Lowest] = y]
      BY <1>1, Zenon DEF G!Spawn, Lowest, G!Goto, G!fileVars, G!serviceVars, G!historyVars
    <2>2. y \in Gateways /\ y.state = "starting" /\ y.settings = ask.settings /\ y.of = "command"
      BY <1>0, <2>1 DEF GatewayTypes, Gateways, RouterStates, Living
    <2> HIDE DEF y
    <2>3. PICK i \in G!Routers :
            /\ router[i] = G!Unborn /\ G!Spawned' = i
            /\ router' \in [G!Routers -> Gateways] /\ InOrder' /\ OneHolder'
            /\ \A j \in G!Routers : router'[j] = IF j = i THEN y ELSE router[j]
      BY <2>1, <2>2, NewRouter
    <2>4. \A j \in G!Routers : j # i => (Detached(j)' <=> Detached(j)) /\ (G!Alive(j)' <=> G!Alive(j))
      BY <2>1, <2>3 DEF Detached, G!Alive
    <2>5. \A j \in G!Routers : Detached(j)' => j = i
      BY <1>0, <2>1, <2>4 DEF StepsFit, NoneDetached
    <2>6. loaded = NoValue  BY <1>0, <2>1 DEF StepsFit, Unloaded
    <2>7. GatewayFlags'  BY <1>0, <2>1, Zenon DEF GatewayFlags
    <2>8. GatewayTypes'  BY <1>0, <2>1, <2>3 DEF GatewayTypes, G!Steps
    <2>9. ServiceRuns'
      BY <1>0, <2>1, <2>2, <2>3, <2>4 DEF ServiceRuns
    <2>10. DetachedRecorded'
      BY <1>0, <2>1, <2>3, <2>5, <2>6 DEF DetachedRecorded
    <2>11. StepsFit'
      BY <2>1, <2>3, <2>5, <2>6 DEF StepsFit, NoneDetached, Unloaded
    <2>12. SettingsFit'
      BY <2>1, <2>2, <2>3 DEF SettingsFit
    <2> QED BY <2>3, <2>7, <2>8, <2>9, <2>10, <2>11, <2>12 DEF GatewayInv
  <1>2. CASE G!AgentRecords
    <2> DEFINE y == [state |-> "shell", settings |-> instance, of |-> "launchd"]
    <2>1. /\ instance' = instance /\ loaded' = loaded /\ agent = "instance" /\ agent' = "exec"
          /\ key' = key /\ plist' = plist /\ broken' = broken /\ lost' = lost
          /\ step' = step /\ ask' = ask /\ current' = current
          /\ G!Free # {}
          /\ router' = [router EXCEPT ![Lowest] = y] /\ recorded' = Lowest
      BY <1>2, Zenon DEF G!AgentRecords, Lowest, G!commandVars, G!historyVars
    <2>2. y \in Gateways /\ y.state = "shell" /\ y.of = "launchd"
      BY <1>0 DEF GatewayTypes, Gateways, RouterStates, Living
    <2> HIDE DEF y
    <2>3. PICK i \in G!Routers :
            /\ router[i] = G!Unborn /\ recorded' = i
            /\ router' \in [G!Routers -> Gateways] /\ InOrder' /\ OneHolder'
            /\ \A j \in G!Routers : router'[j] = IF j = i THEN y ELSE router[j]
      BY <2>1, <2>2, NewRouter
    <2>4. \A j \in G!Routers : j # i => (Detached(j)' <=> Detached(j)) /\ (G!Alive(j)' <=> G!Alive(j))
      BY <2>1, <2>3 DEF Detached, G!Alive
    <2>5. loaded # NoValue  BY <1>0, <2>1 DEF ServiceRuns
    <2>6. \A j \in G!Routers : ~Detached(j)'
      BY <1>0, <2>2, <2>3, <2>4, <2>5 DEF Detached, DetachedRecorded
    <2>7. GatewayFlags'  BY <1>0, <2>1, Zenon DEF GatewayFlags
    <2>8. GatewayTypes'  BY <1>0, <2>1, <2>3, RouterNumbers DEF GatewayTypes
    <2>9. ServiceRuns'
      BY <1>0, <2>1, <2>2, <2>3, <2>4, <2>5 DEF ServiceRuns
    <2>10. DetachedRecorded'
      BY <1>0, <2>1, <2>6 DEF DetachedRecorded
    <2>11. StepsFit'
      BY <1>0, <2>1, <2>3, <2>5, <2>6 DEF StepsFit, NoneDetached, Unloaded
    <2>12. SettingsFit'
      BY <1>0, <2>1, <2>5, <2>6 DEF SettingsFit, StepsFit, Unloaded
    <2> QED BY <2>3, <2>7, <2>8, <2>9, <2>10, <2>11, <2>12 DEF GatewayInv
  <1> QED BY <1>1, <1>2

LEMMA GatewayInit ==
  ASSUME GatewayConstants, G!Init PROVE GatewayInv
  <1>1. /\ router = [i \in G!Routers |-> G!Unborn]
        /\ recorded \in {0, G!Unrelated} /\ instance = NoValue
        /\ plist = NoValue /\ loaded = NoValue /\ agent = "off"
        /\ key \in Keys
        /\ step = "idle" /\ ask = G!NoAsk /\ current = FALSE
        /\ broken = FALSE /\ lost = {}
    BY DEF G!Init
  <1>2. router \in [G!Routers -> Gateways] /\ \A i \in G!Routers : router[i] = G!Unborn
    BY <1>1, DeadParts
  <1>3. \A i \in G!Routers : ~G!Alive(i) /\ router[i].state = "unborn" /\ router[i].of = "nobody"
    BY <1>2 DEF G!Alive, G!Unborn
  <1>4. GatewayTypes
    <2>1. ask \in [op : G!GatewayOps, settings : G!AllSettings \cup {NoValue}]
      BY <1>1 DEF G!NoAsk, G!GatewayOps
    <2> QED BY <1>1, <1>2, <2>1, RouterNumbers DEF GatewayTypes, G!Steps
  <1>5. GatewayFlags  BY <1>1, Zenon DEF GatewayFlags
  <1>6. InOrder  BY <1>2 DEF InOrder
  <1>7. ServiceRuns  BY <1>1, <1>3 DEF ServiceRuns
  <1>8. DetachedRecorded /\ StepsFit
    BY <1>1, <1>3 DEF DetachedRecorded, StepsFit, Detached, NoneDetached, Unloaded
  <1>9. SettingsFit  BY <1>1, <1>3 DEF SettingsFit, Detached
  <1>10. OneHolder  BY <1>3 DEF OneHolder, G!Holders
  <1> QED BY <1>4, <1>5, <1>6, <1>7, <1>8, <1>9, <1>10 DEF GatewayInv

LEMMA GatewaySame ==
  ASSUME GatewayInv, UNCHANGED gatewayVars PROVE GatewayInv'
  <1>1. /\ router' = router /\ recorded' = recorded /\ instance' = instance /\ plist' = plist
        /\ loaded' = loaded /\ agent' = agent /\ key' = key /\ step' = step /\ ask' = ask
        /\ current' = current /\ broken' = broken /\ lost' = lost
    BY Zenon DEF gatewayVars
  <1>2. /\ GatewayTypes' /\ InOrder' /\ ServiceRuns' /\ OneHolder'
    BY <1>1 DEF GatewayInv, GatewayTypes, InOrder, ServiceRuns, OneHolder, G!Holders, G!Alive
  <1>3. GatewayFlags'  BY <1>1, Zenon DEF GatewayInv, GatewayFlags
  <1>4. /\ \A i \in G!Routers : Detached(i)' <=> Detached(i)
        /\ G!Spawned' = G!Spawned
        /\ \A i : G!Alive(i)' <=> G!Alive(i)
    BY <1>1 DEF Detached, G!Spawned, G!Alive
  <1>5. DetachedRecorded' /\ StepsFit'
    BY <1>1, <1>4 DEF GatewayInv, DetachedRecorded, StepsFit, NoneDetached, Unloaded
  <1>6. SettingsFit'
    BY <1>1, <1>4 DEF GatewayInv, SettingsFit
  <1> QED BY <1>2, <1>3, <1>5, <1>6 DEF GatewayInv

LEMMA GatewayStep ==
  ASSUME GatewayConstants, GatewayInv, G!Next PROVE GatewayInv'
  <1>1. CASE \/ \E o \in G!GatewayOps, a \in Arguments : G!Begin(o, a)
             \/ G!KeepService \/ G!Bootstrap \/ G!WaitService \/ G!KeepPlist \/ G!Reuse \/ G!Replace
             \/ G!StopForeign \/ G!StopFails \/ G!PortsBusy \/ G!Wait \/ G!WaitFails \/ G!Unlink
             \/ G!NewKey
    <2>1. Quiet
      <3>1. ASSUME NEW o \in G!GatewayOps, NEW a \in Arguments, G!Begin(o, a) PROVE Quiet
        BY <3>1 DEF Quiet, G!Begin, G!fileVars, G!serviceVars, G!historyVars
      <3>2. CASE G!KeepService \/ G!Bootstrap \/ G!WaitService \/ G!KeepPlist \/ G!Reuse
        BY <3>2 DEF Quiet, G!KeepService, G!Bootstrap, G!WaitService, G!KeepPlist, G!Reuse,
             G!Goto, G!EndsHere, G!fileVars, G!serviceVars, G!historyVars
      <3>3. CASE G!StopForeign \/ G!StopFails \/ G!PortsBusy \/ G!Wait \/ G!WaitFails \/ G!NewKey
        BY <3>3 DEF Quiet, G!StopForeign, G!StopFails, G!PortsBusy, G!Wait, G!WaitFails, G!NewKey,
             G!Goto, G!EndsHere, G!fileVars, G!serviceVars, G!commandVars, G!historyVars
      <3>4. CASE G!Replace \/ G!Unlink
        BY <3>4 DEF Quiet, G!Replace, G!Unlink, G!Goto, G!EndsHere, G!fileVars, G!serviceVars, G!historyVars
      <3> QED BY <1>1, <3>1, <3>2, <3>3, <3>4
    <2> QED BY <1>1, <2>1, QuietSteps
  <1>2. CASE G!Reload \/ G!Kickstart \/ G!GiveUp \/ G!Bootout
    BY <1>2, ServiceSteps
  <1>3. CASE G!Terminate \/ G!Unrecord \/ G!Undo \/ G!UndoEnds \/ G!WriteInstance \/ G!Clear
             \/ G!Record \/ G!LoadService \/ G!Kill
    BY <1>3, StoppingSteps, RecordSteps
  <1>4. CASE \/ \E i \in G!Routers : G!Serve(i) \/ G!Die(i)
             \/ G!AgentWrites \/ G!Restart \/ G!Reboot \/ G!Exec
    BY <1>4, EndingSteps, AdvanceSteps
  <1>5. CASE G!Spawn \/ G!AgentRecords
    BY <1>5, StartSteps
  <1> QED BY <1>1, <1>2, <1>3, <1>4, <1>5 DEF G!Next, G!Command, G!Environment

LEMMA GatewayInvariant == ASSUME GatewayConstants PROVE HostSpec => []GatewayInv
  <1>1. HostInit => GatewayInv  BY GatewayInit DEF HostInit
  <1>2. ASSUME GatewayInv, [HostNext]_allVars PROVE GatewayInv'
    <2>1. G!Next \/ UNCHANGED gatewayVars  BY <1>2, Zenon DEF HostNext, allVars
    <2> QED BY <1>2, <2>1, GatewayStep, GatewaySame
  <1> QED BY <1>1, <1>2, PTL DEF HostSpec

LEMMA GatewayHolds == ASSUME GatewayInv PROVE RoutersAreKnown /\ G!TypeOK
  <1>0. /\ GatewayTypes /\ GatewayFlags /\ ServiceRuns /\ DetachedRecorded /\ StepsFit /\ SettingsFit
    BY DEF GatewayInv
  <1>1. G!NoneForgotten
    <2> SUFFICES ASSUME NEW i \in G!Routers, G!Alive(i)
                 PROVE \/ recorded = i \/ i \in lost
                       \/ router[i].of = "launchd" /\ (loaded # NoValue \/ router[i].state = "stopping")
                       \/ step = "record" /\ i = G!Spawned
      BY DEF G!NoneForgotten
    <2>1. CASE router[i].of = "command"  BY <1>0, <2>1 DEF DetachedRecorded, Detached
    <2>2. CASE router[i].of = "launchd"
      BY <1>0, <2>2, AliveStates DEF ServiceRuns, Living
    <2> QED BY <1>0, <2>1, <2>2 DEF ServiceRuns
  <1>2. G!ReusedIsCurrent
    <2> SUFFICES ASSUME step = "detached", current = TRUE, broken = FALSE, NEW i \in G!Serving
                 PROVE  router[i].settings = ask.settings
      BY <1>0 DEF G!ReusedIsCurrent, GatewayFlags
    <2>1. loaded = NoValue /\ lost = {}  BY <1>0 DEF StepsFit, Unloaded, DetachedRecorded
    <2>2. i \in G!Routers /\ router[i].state = "serving" /\ G!Alive(i)  BY DEF G!Serving, G!Alive
    <2>3. Detached(i)  BY <1>0, <2>1, <2>2 DEF ServiceRuns, Detached
    <2> QED BY <1>0, <2>1, <2>2, <2>3 DEF SettingsFit
  <1>3. G!TypeOK
    BY <1>0 DEF G!TypeOK, GatewayTypes, Gateways, RouterStates, Living
  <1> QED BY <1>1, <1>2, <1>3 DEF RoutersAreKnown

(* See RoutersAreKnown: with any number of routers, every one that runs can*)
(* be found again to be stopped, unless a killed command lost it, and a    *)
(* router that is reused has the settings that were asked for.             *)
THEOREM RoutersKnown == HostSpec => []RoutersAreKnown
  BY GatewayAssumptions, GatewayInvariant, GatewayHolds, PTL

(***************************************************************************)
(* Claude Desktop's selection.  What each place of a command may rely on:  *)
(* Desktop is closed while it writes, so nothing but the command itself    *)
(* changes the files.                                                      *)
(***************************************************************************)
ProfileTypes ==
  /\ library \in {NoValue} \cup P!Libraries
  /\ mode \in P!Modes /\ profiles \subseteq Profiles
  /\ saved \in Settings \cup {NoValue}
  /\ journal \in {NoValue} \cup P!Journals
  /\ command \in P!Commands
  /\ desired \in Settings \cup {NoValue}
  /\ original \in P!Selections

Activating == {"activate", "default file", "default library", "prepare", "profile", "select"}
Restoring  == {"restore", "restore mode", "restore selection", "forget"}
Replaceable == P!IsOwnSelection \/ P!IsPreviousSelection

WritingFits ==
  /\ command \in Activating \cup {"quit"} => desired # NoValue
  /\ command \in {"default file", "default library"} => P!Previous = NoValue /\ library = NoValue
  /\ command = "default library" => Default \in profiles
  /\ command = "prepare" =>
       /\ library # NoValue
       /\ IF P!Previous = NoValue THEN P!HasFile(library.applied) ELSE P!IsOwnSelection
  /\ command \in {"profile", "select", "third party", "commit"} =>
       P!Previous # NoValue /\ journal.phase = "prepared" /\ library # NoValue
  /\ command \in {"profile", "select"} => Replaceable
  /\ command \in {"third party", "commit"} => P!IsOwnSelection
  /\ command = "commit" => mode = "3p"

RestoringFits ==
  /\ command \in Restoring =>
       P!Previous # NoValue /\ library # NoValue /\ P!Previous.applied \in library.entries
  /\ command \in {"restore", "restore mode", "restore selection"} => Replaceable
  /\ command \in {"restore", "restore mode"} => mode \in {"3p", P!Previous.mode}
  /\ command \in Restoring \ {"restore"} => journal.phase = "prepared"
  /\ command \in {"restore selection", "forget"} => mode = P!Previous.mode
  /\ command = "forget" => P!IsPreviousSelection

ProfileInv ==
  /\ ProfileTypes /\ touched \in BOOLEAN
  /\ library # NoValue => library.applied \in library.entries
  /\ P!OriginalKept /\ P!AlwaysRecoverable
  /\ WritingFits /\ RestoringFits

ProfileConstants ==
  /\ Default \in Profiles /\ Own \notin Profiles /\ NoValue \notin Settings
  /\ NoValue \notin P!Selections /\ NoValue \notin P!Libraries /\ NoValue \notin P!Journals

LEMMA ProfileAssumptions == ProfileConstants
  BY HostAssumption DEF ProfileConstants

LEMMA StartFits == ASSUME ProfileConstants, P!Init PROVE ProfileInv
  <1>1. P!Previous = NoValue  BY DEF P!Init, P!Previous
  <1>2. library \in {NoValue} \cup P!Libraries /\ (library # NoValue => library.applied \in library.entries)
    BY DEF P!Init, P!Libraries, P!Ids
  <1>3. original \in P!Selections
    BY <1>2 DEF P!Init, P!Selection, P!Selections, P!Ids, P!Libraries, ProfileConstants
  <1>4. ProfileTypes
    BY <1>2, <1>3 DEF P!Init, ProfileTypes, P!Commands
  <1>5. P!OriginalKept /\ P!AlwaysRecoverable /\ WritingFits /\ RestoringFits
    BY <1>1 DEF P!Init, P!OriginalKept, P!AlwaysRecoverable, WritingFits, RestoringFits, Activating, Restoring
  <1>6. touched \in BOOLEAN BY Zenon DEF P!Init
  <1> QED BY <1>2, <1>4, <1>5, <1>6 DEF ProfileInv

(* Steps that leave Desktop's files and the journal alone.                 *)
LEMMA SameFiles ==
  ASSUME library' = library, mode' = mode, profiles' = profiles, saved' = saved, journal' = journal
  PROVE  /\ P!Previous' = P!Previous /\ P!Selection' = P!Selection
         /\ \A id : P!HasFile(id)' <=> P!HasFile(id)
         /\ P!IsOwnSelection' <=> P!IsOwnSelection
         /\ P!IsPreviousSelection' <=> P!IsPreviousSelection
         /\ P!Recoverable' <=> P!Recoverable
         /\ P!Refuses' <=> P!Refuses
         /\ Replaceable' <=> Replaceable
  BY DEF P!Previous, P!Selection, P!HasFile, P!IsOwnSelection, P!IsPreviousSelection, P!Recoverable,
         P!Refuses, Replaceable

LEMMA ReadingSteps ==
  ASSUME ProfileConstants, ProfileInv,
         \/ \E d \in Settings : P!Launch(d)
         \/ P!Quit \/ P!Activate \/ P!WriteFails \/ P!Open \/ P!Off \/ P!QuitForOff \/ P!Recover
         \/ P!Interrupt
  PROVE  ProfileInv'
  <1>0. ProfileTypes /\ touched \in BOOLEAN /\ WritingFits /\ RestoringFits  BY DEF ProfileInv
  <1>1. /\ library' = library /\ mode' = mode /\ profiles' = profiles /\ saved' = saved
        /\ journal' = journal /\ touched' = touched /\ original' = original
        /\ desired' = desired \/ (command = "none" /\ desired' \in Settings)
    <2>1. ASSUME NEW d \in Settings, P!Launch(d)
          PROVE  /\ library' = library /\ mode' = mode /\ profiles' = profiles /\ saved' = saved
                 /\ journal' = journal /\ touched' = touched /\ original' = original
                 /\ command = "none" /\ desired' \in Settings
      BY <2>1 DEF P!Launch, P!desktopVars, P!historyVars
    <2>2. CASE P!Quit \/ P!Activate \/ P!WriteFails \/ P!Open \/ P!Off \/ P!QuitForOff \/ P!Recover \/ P!Interrupt
      BY <2>2, Zenon DEF P!Quit, P!Activate, P!WriteFails, P!Open, P!Off, P!QuitForOff, P!Recover, P!Interrupt,
          P!desktopVars, P!historyVars
    <2> QED BY <2>1, <2>2
  <1>2. \/ command' \in {"none", "open", "reopen", "quit for off", "recover"}
        \/ command' = "quit" /\ desired' \in Settings
        \/ command \in {"quit", "activate"} /\ command' = "activate"
        \/ command = "activate" /\ ~P!Refuses /\ library = NoValue /\ command' = "default file"
        \/ command = "activate" /\ ~P!Refuses /\ library # NoValue /\ command' = "prepare"
        \/ command' = "restore" /\ P!Previous # NoValue /\ P!Recoverable
    <2>1. ASSUME NEW d \in Settings, P!Launch(d)
          PROVE  command' \in {"reopen", "quit"} /\ desired' = d
      BY <2>1 DEF P!Launch
    <2>2. CASE P!Quit \/ P!WriteFails \/ P!Open \/ P!Off \/ P!QuitForOff \/ P!Interrupt
      BY <2>2 DEF P!Quit, P!WriteFails, P!Open, P!Off, P!QuitForOff, P!Interrupt
    <2>3. CASE P!Activate \/ P!Recover  BY <2>3 DEF P!Activate, P!Recover
    <2> QED BY <2>1, <2>2, <2>3
  <1>3. ProfileTypes'
    BY <1>0, <1>1, <1>2 DEF ProfileTypes, P!Commands, P!Writing
  <1>4. P!OriginalKept' /\ P!AlwaysRecoverable'
    BY <1>1, SameFiles DEF ProfileInv, P!OriginalKept, P!AlwaysRecoverable
  <1>5. WritingFits'
    <2>1. ~P!Refuses => (library = NoValue => P!Previous = NoValue)
                     /\ (library # NoValue => IF P!Previous = NoValue THEN P!HasFile(library.applied)
                                              ELSE P!IsOwnSelection)
      BY DEF P!Refuses, P!IsOwnSelection
    <2> QED BY <1>0, <1>1, <1>2, <2>1, SameFiles DEF WritingFits, Activating, ProfileConstants
  <1>6. RestoringFits'
    <2>1. P!Recoverable => /\ library # NoValue /\ P!Previous.applied \in library.entries
                           /\ Replaceable /\ mode \in {"3p", P!Previous.mode}
      BY DEF P!Recoverable, Replaceable, P!IsOwnSelection, P!IsPreviousSelection
    <2> QED BY <1>0, <1>1, <1>2, <2>1, SameFiles DEF RestoringFits, Restoring
  <1>7. touched' \in BOOLEAN  BY <1>0, <1>1, Zenon
  <1> QED BY <1>1, <1>3, <1>4, <1>5, <1>6, <1>7 DEF ProfileInv

(* A step from the parts of the invariant.                                 *)
LEMMA ProfileRest ==
  ASSUME ProfileInv, touched' = touched, ProfileTypes',
         library' # NoValue => library'.applied \in library'.entries,
         P!OriginalKept', P!AlwaysRecoverable', WritingFits', RestoringFits'
  PROVE  ProfileInv'
  <1>1. touched' \in BOOLEAN  BY Zenon DEF ProfileInv
  <1> QED BY <1>1 DEF ProfileInv

(* A record of a library or a selection is its fields.                     *)
LEMMA Fields ==
  /\ \A l \in P!Libraries : l.applied \in P!Ids /\ l.hybrid \in BOOLEAN /\ l.entries \subseteq P!Ids
  /\ \A j \in P!Journals : /\ j.phase \in {"prepared", "active", "idle"}
                           /\ j.previous \in P!Selections \cup {NoValue}
  /\ \A s \in P!Selections : /\ s.applied \in P!Ids /\ s.hybrid \in BOOLEAN /\ s.mode \in P!Modes
                             /\ s = [applied |-> s.applied, hybrid |-> s.hybrid, mode |-> s.mode]
  /\ \A j \in P!Journals : \A p \in {"prepared", "active", "idle"} :
       [j EXCEPT !.phase = p] \in P!Journals /\ [j EXCEPT !.phase = p].phase = p
       /\ [j EXCEPT !.phase = p].previous = j.previous
  BY DEF P!Libraries, P!Journals, P!Selections

LEMMA DefaultLibrary ==
  ASSUME ProfileConstants, ProfileInv, P!WriteDefaultLibrary PROVE ProfileInv' /\ P!ReplacesOwn
  <1>0. ProfileTypes /\ WritingFits /\ P!OriginalKept  BY DEF ProfileInv
  <1>1. /\ command = "default library" /\ command' = "prepare" /\ mode' = mode /\ profiles' = profiles
        /\ saved' = saved /\ journal' = journal /\ desired' = desired
        /\ touched' = touched /\ original' = original
        /\ library' = [applied |-> Default, hybrid |-> FALSE, entries |-> {Default}]
    BY Zenon DEF P!WriteDefaultLibrary, P!historyVars
  <1>2. library' \in P!Libraries /\ library' # NoValue /\ library'.applied = Default
        /\ library'.hybrid = FALSE /\ library'.entries = {Default}
    <2>1. PICK l : l = [applied |-> Default, hybrid |-> FALSE, entries |-> {Default}]  OBVIOUS
    <2>2. l \in P!Libraries  BY <2>1 DEF P!Libraries, P!Ids, ProfileConstants
    <2>3. l.applied = Default /\ l.hybrid = FALSE /\ l.entries = {Default}  BY <2>1
    <2>4. library' = l  BY <1>1, <2>1
    <2> QED BY <2>2, <2>3, <2>4 DEF ProfileConstants
  <1>3. P!Previous = NoValue /\ P!Previous' = NoValue /\ library = NoValue /\ Default \in profiles
    BY <1>0, <1>1 DEF WritingFits, P!Previous
  <1>4. P!Selection' = P!Selection
    BY <1>1, <1>2, <1>3 DEF P!Selection
  <1>5. ProfileTypes'  BY <1>0, <1>1, <1>2 DEF ProfileTypes, P!Commands, P!Writing
  <1>6. P!OriginalKept' /\ P!AlwaysRecoverable'
    BY <1>0, <1>1, <1>3, <1>4 DEF P!OriginalKept, P!AlwaysRecoverable
  <1>7. WritingFits' /\ RestoringFits'
    BY <1>0, <1>1, <1>2, <1>3 DEF WritingFits, RestoringFits, Activating, Restoring, P!HasFile
  <1>8. P!ReplacesOwn  BY <1>1, <1>4, Zenon DEF P!ReplacesOwn
  <1> QED BY <1>1, <1>2, <1>5, <1>6, <1>7, <1>8, ProfileRest

LEMMA PreparedStep ==
  ASSUME ProfileConstants, ProfileInv, P!Prepare PROVE ProfileInv' /\ P!ReplacesOwn
  <1>0. /\ ProfileTypes /\ WritingFits /\ P!OriginalKept /\ P!AlwaysRecoverable
        /\ library # NoValue => library.applied \in library.entries
    BY DEF ProfileInv
  <1> DEFINE kept == IF P!Previous = NoValue THEN P!Selection ELSE P!Previous
  <1>1. /\ command = "prepare" /\ command' = "profile" /\ library' = library
        /\ mode' = mode /\ profiles' = profiles
        /\ saved' = saved /\ desired' = desired
        /\ touched' = touched /\ original' = original
        /\ journal' = [phase |-> "prepared", previous |-> kept]
    BY Zenon DEF P!Prepare, P!historyVars, P!desktopVars
  <1>2. kept = original  BY <1>0 DEF P!OriginalKept
  <1>3. original \in P!Selections /\ original # NoValue  BY <1>0 DEF ProfileTypes, ProfileConstants
  <1> HIDE DEF kept
  <1>4. journal' \in P!Journals /\ journal' # NoValue /\ journal'.phase = "prepared"
        /\ journal'.previous = original
    BY <1>1, <1>2, <1>3 DEF P!Journals, ProfileConstants
  <1>5. P!Previous' = original  BY <1>4 DEF P!Previous
  <1>6. library # NoValue /\ library \in P!Libraries  BY <1>0, <1>1 DEF WritingFits, ProfileTypes
  <1>7. CASE P!Previous = NoValue
    <2>1. P!Selection = original /\ P!HasFile(library.applied)
      BY <1>0, <1>1, <1>7 DEF P!OriginalKept, WritingFits
    <2>2. original.applied = library.applied /\ original.hybrid = library.hybrid /\ original.mode = mode
      BY <2>1, <1>6 DEF P!Selection
    <2>3. P!IsPreviousSelection' /\ P!Recoverable'
      BY <1>0, <1>1, <1>4, <1>5, <1>6, <2>1, <2>2
         DEF P!IsPreviousSelection, P!Recoverable, P!HasFile
    <2>4. P!OriginalKept' /\ P!AlwaysRecoverable'
      BY <1>1, <1>3, <1>5, <2>3 DEF P!OriginalKept, P!AlwaysRecoverable
    <2>5. WritingFits' /\ RestoringFits'
      BY <1>0, <1>1, <1>3, <1>4, <1>5, <1>6, <2>3 DEF WritingFits, RestoringFits, Replaceable, Activating, Restoring
    <2>6. ProfileTypes'  BY <1>0, <1>1, <1>4 DEF ProfileTypes, P!Commands, P!Writing
    <2>7. P!Selection' = P!Selection  BY <1>1 DEF P!Selection
    <2>8. P!ReplacesOwn  BY <1>1, <2>7, Zenon DEF P!ReplacesOwn
    <2> QED BY <1>0, <1>1, <2>4, <2>5, <2>6, <2>8, ProfileRest
  <1>8. CASE P!Previous # NoValue
    <2>1. P!Previous = original /\ P!IsOwnSelection
      BY <1>0, <1>1, <1>8 DEF P!OriginalKept, WritingFits
    <2>2. P!IsOwnSelection'  BY <1>1, <2>1 DEF P!IsOwnSelection
    <2>3. P!Recoverable => P!Recoverable'
      BY <1>1, <1>4, <1>5, <2>1, <2>2 DEF P!IsPreviousSelection, P!Recoverable, P!HasFile
    <2>4. P!OriginalKept' /\ P!AlwaysRecoverable'
      BY <1>0, <1>1, <1>3, <1>5, <1>8, <2>3 DEF P!OriginalKept, P!AlwaysRecoverable
    <2>5. WritingFits' /\ RestoringFits'
      BY <1>0, <1>1, <1>3, <1>4, <1>5, <1>6, <2>2 DEF WritingFits, RestoringFits, Replaceable, Activating, Restoring
    <2>6. ProfileTypes'  BY <1>0, <1>1, <1>4 DEF ProfileTypes, P!Commands, P!Writing
    <2>7. P!Selection' = P!Selection  BY <1>1 DEF P!Selection
    <2>8. P!ReplacesOwn  BY <1>1, <2>7, Zenon DEF P!ReplacesOwn
    <2> QED BY <1>0, <1>1, <2>4, <2>5, <2>6, <2>8, ProfileRest
  <1> QED BY <1>7, <1>8

LEMMA ProfileWritten ==
  ASSUME ProfileConstants, ProfileInv, P!WriteProfile \/ P!SetThirdParty \/ P!Commit
  PROVE  ProfileInv' /\ P!ReplacesOwn
  <1>0. /\ ProfileTypes /\ WritingFits /\ P!OriginalKept /\ P!AlwaysRecoverable
        /\ library # NoValue => library.applied \in library.entries
    BY DEF ProfileInv
  <1>1. /\ library' = library /\ profiles' = profiles /\ desired' = desired
        /\ touched' = touched /\ original' = original
        /\ \/ /\ command = "profile" /\ command' = "select" /\ saved' = desired /\ mode' = mode /\ journal' = journal
           \/ /\ command = "third party" /\ command' = "commit" /\ saved' = saved /\ mode' = "3p"
              /\ journal' = journal
           \/ /\ command = "commit" /\ command' = "open" /\ saved' = saved /\ mode' = mode
              /\ journal' = [journal EXCEPT !.phase = "active"]
    BY Zenon DEF P!WriteProfile, P!SetThirdParty, P!Commit, P!historyVars, P!desktopVars
  <1>2. /\ journal \in P!Journals /\ journal # NoValue /\ P!Previous # NoValue
        /\ library # NoValue /\ journal.phase = "prepared"
    BY <1>0, <1>1 DEF WritingFits, ProfileTypes, P!Previous
  <1>3. /\ journal' \in P!Journals /\ journal' # NoValue /\ journal'.previous = journal.previous
        /\ journal' = journal \/ (command = "commit" /\ journal'.phase = "active")
    <2>1. PICK j \in P!Journals : j = [journal EXCEPT !.phase = "active"] /\ j.phase = "active"
                                  /\ j.previous = journal.previous
      BY <1>2, Fields
    <2> QED BY <1>1, <1>2, <2>1 DEF ProfileConstants
  <1>4. P!Previous' = P!Previous  BY <1>2, <1>3 DEF P!Previous
  <1>5. desired # NoValue \/ saved' = saved  BY <1>0, <1>1 DEF WritingFits, Activating
  <1>6. \A id : P!HasFile(id) => P!HasFile(id)'
    BY <1>1, <1>5 DEF P!HasFile
  <1>7. (P!IsOwnSelection' <=> P!IsOwnSelection) /\ (P!IsPreviousSelection' <=> P!IsPreviousSelection)
    BY <1>1, <1>4 DEF P!IsOwnSelection, P!IsPreviousSelection
  <1>8. P!Recoverable => P!Recoverable'
    <2>1. P!Previous'.applied = P!Previous.applied  BY <1>4
    <2>2. command = "commit" => P!IsOwnSelection /\ mode = "3p"  BY <1>0 DEF WritingFits
    <2>3. P!HasFile(P!Previous.applied) => P!HasFile(P!Previous.applied)'
      BY <1>4, <1>6
    <2> QED BY <1>1, <1>3, <1>4, <1>7, <2>2, <2>3 DEF P!Recoverable
  <1>9. P!OriginalKept' /\ P!AlwaysRecoverable'
    BY <1>0, <1>1, <1>2, <1>4, <1>8 DEF P!OriginalKept, P!AlwaysRecoverable
  <1>10. WritingFits' /\ RestoringFits'
    BY <1>0, <1>1, <1>2, <1>3, <1>4, <1>7 DEF WritingFits, RestoringFits, Replaceable, Activating, Restoring
  <1>11. ProfileTypes'  BY <1>0, <1>1, <1>3 DEF ProfileTypes, P!Commands, P!Writing, P!Modes
  <1>12. P!ReplacesOwn
    <2>1. P!Selection'.applied = P!Selection.applied /\ P!Selection'.hybrid = P!Selection.hybrid
      BY <1>1, <1>2 DEF P!Selection
    <2>2. P!Applied(P!Selection)' = P!Applied(P!Selection)  BY <2>1 DEF P!Applied
    <2> QED BY <1>1, <2>2 DEF P!ReplacesOwn
  <1> QED BY <1>0, <1>1, <1>9, <1>10, <1>11, <1>12, ProfileRest

LEMMA OwnSelected ==
  ASSUME ProfileConstants, ProfileInv, P!SelectOwn PROVE ProfileInv' /\ P!ReplacesOwn
  <1>0. /\ ProfileTypes /\ WritingFits /\ P!OriginalKept /\ P!AlwaysRecoverable
    BY DEF ProfileInv
  <1>1. /\ command = "select" /\ command' = "third party" /\ mode' = mode /\ profiles' = profiles
        /\ saved' = saved /\ journal' = journal /\ desired' = desired
        /\ touched' = touched /\ original' = original
        /\ library' = [applied |-> Own, hybrid |-> FALSE, entries |-> library.entries \cup {Own}]
    BY Zenon DEF P!SelectOwn, P!historyVars
  <1>2. /\ P!Previous # NoValue /\ library # NoValue /\ library \in P!Libraries
        /\ journal.phase = "prepared" /\ Replaceable
    BY <1>0, <1>1 DEF WritingFits, ProfileTypes
  <1>3. /\ library' \in P!Libraries /\ library' # NoValue /\ library'.applied = Own
        /\ library'.hybrid = FALSE /\ library'.entries = library.entries \cup {Own}
    <2>1. PICK l : l = [applied |-> Own, hybrid |-> FALSE, entries |-> library.entries \cup {Own}]  OBVIOUS
    <2>2. l \in P!Libraries  BY <1>2, <2>1, Fields DEF P!Libraries, P!Ids
    <2>3. l.applied = Own /\ l.hybrid = FALSE /\ l.entries = library.entries \cup {Own}  BY <2>1
    <2>4. library' = l  BY <1>1, <2>1
    <2> QED BY <2>2, <2>3, <2>4 DEF ProfileConstants
  <1>4. P!Previous' = P!Previous /\ \A id : P!HasFile(id)' <=> P!HasFile(id)
    BY <1>1 DEF P!Previous, P!HasFile
  <1>5. P!IsOwnSelection'  BY <1>3 DEF P!IsOwnSelection
  <1>6. P!Recoverable => P!Recoverable'
    BY <1>1, <1>3, <1>4, <1>5 DEF P!Recoverable
  <1>7. P!OriginalKept' /\ P!AlwaysRecoverable'
    BY <1>0, <1>1, <1>2, <1>4, <1>6 DEF P!OriginalKept, P!AlwaysRecoverable
  <1>8. WritingFits' /\ RestoringFits'
    BY <1>0, <1>1, <1>2, <1>3, <1>4, <1>5 DEF WritingFits, RestoringFits, Activating, Restoring
  <1>9. ProfileTypes'  BY <1>0, <1>1, <1>3 DEF ProfileTypes, P!Commands, P!Writing
  <1>10. P!ReplacesOwn
    <2>1. P!Previous = original  BY <1>0, <1>2 DEF P!OriginalKept
    <2>2. P!Selection.applied = library.applied /\ P!Selection.hybrid = library.hybrid
      BY <1>2 DEF P!Selection
    <2>3. P!Applied(P!Selection) \in {[applied |-> Own, hybrid |-> FALSE], P!Applied(original)}
      BY <1>2, <2>1, <2>2, Fields DEF Replaceable, P!IsOwnSelection, P!IsPreviousSelection, P!Applied
    <2> QED BY <1>1, <2>3, Zenon DEF P!ReplacesOwn
  <1> QED BY <1>1, <1>3, <1>7, <1>8, <1>9, <1>10, ProfileRest

LEMMA Restores ==
  ASSUME ProfileConstants, ProfileInv, P!Reopen \/ P!RestoreMode
  PROVE  ProfileInv' /\ P!ReplacesOwn
  <1>0. /\ ProfileTypes /\ RestoringFits /\ P!OriginalKept /\ P!AlwaysRecoverable
        /\ library # NoValue => library.applied \in library.entries
    BY DEF ProfileInv
  <1>1. /\ library' = library /\ profiles' = profiles /\ desired' = desired /\ saved' = saved
        /\ touched' = touched /\ original' = original
        /\ \/ /\ command = "restore" /\ command' = "restore mode" /\ mode' = mode
              /\ journal' = [journal EXCEPT !.phase = "prepared"]
           \/ /\ command = "restore mode" /\ command' = "restore selection" /\ mode' = P!Previous.mode
              /\ journal' = journal
    BY Zenon DEF P!Reopen, P!RestoreMode, P!historyVars, P!desktopVars
  <1>2. /\ journal \in P!Journals /\ journal # NoValue /\ P!Previous # NoValue
        /\ library # NoValue /\ P!Previous = original /\ P!Previous = journal.previous
    BY <1>0, <1>1 DEF RestoringFits, Restoring, ProfileTypes, P!Previous, P!OriginalKept
  <1>3. /\ journal' \in P!Journals /\ journal' # NoValue /\ journal'.previous = journal.previous
        /\ journal'.phase = "prepared"
    <2>1. PICK j \in P!Journals : j = [journal EXCEPT !.phase = "prepared"] /\ j.phase = "prepared"
                                  /\ j.previous = journal.previous
      BY <1>2, Fields
    <2> QED BY <1>0, <1>1, <1>2, <2>1 DEF ProfileConstants, RestoringFits, Restoring
  <1>4. P!Previous' = P!Previous  BY <1>2, <1>3 DEF P!Previous
  <1>5. \A id : P!HasFile(id)' <=> P!HasFile(id)
    BY <1>1 DEF P!HasFile
  <1>6. (P!IsOwnSelection' <=> P!IsOwnSelection) /\ (P!IsPreviousSelection' <=> P!IsPreviousSelection)
    BY <1>1, <1>4 DEF P!IsOwnSelection, P!IsPreviousSelection
  <1>7. P!Recoverable => P!Recoverable'
    BY <1>1, <1>2, <1>3, <1>4, <1>5, <1>6 DEF P!Recoverable
  <1>8. P!OriginalKept' /\ P!AlwaysRecoverable'
    BY <1>0, <1>1, <1>2, <1>4, <1>7 DEF P!OriginalKept, P!AlwaysRecoverable
  <1>9. WritingFits' /\ RestoringFits'
    BY <1>0, <1>1, <1>2, <1>3, <1>4, <1>6 DEF WritingFits, RestoringFits, Replaceable, Activating, Restoring
  <1>10. ProfileTypes'
    <2>1. original.mode \in P!Modes  BY <1>0, Fields DEF ProfileTypes
    <2>2. mode' \in P!Modes  BY <1>0, <1>1, <1>2, <2>1 DEF ProfileTypes
    <2> QED BY <1>0, <1>1, <1>3, <2>2 DEF ProfileTypes, P!Commands, P!Writing
  <1>11. P!ReplacesOwn
    <2>1. P!Selection'.applied = P!Selection.applied /\ P!Selection'.hybrid = P!Selection.hybrid
      BY <1>1, <1>2 DEF P!Selection
    <2>2. P!Applied(P!Selection)' = P!Applied(P!Selection)  BY <2>1 DEF P!Applied
    <2>3. mode \in {"3p", original.mode}  BY <1>0, <1>1, <1>2 DEF RestoringFits
    <2> QED BY <2>2, <2>3 DEF P!ReplacesOwn
  <1> QED BY <1>0, <1>1, <1>8, <1>9, <1>10, <1>11, ProfileRest

LEMMA SelectionRestored ==
  ASSUME ProfileConstants, ProfileInv, P!RestoreSelection PROVE ProfileInv' /\ P!ReplacesOwn
  <1>0. ProfileTypes /\ RestoringFits /\ P!OriginalKept /\ P!AlwaysRecoverable  BY DEF ProfileInv
  <1>1. /\ command = "restore selection" /\ command' = "forget" /\ mode' = mode /\ profiles' = profiles
        /\ saved' = saved /\ journal' = journal /\ desired' = desired
        /\ touched' = touched /\ original' = original
        /\ library' = [library EXCEPT !.applied = P!Previous.applied, !.hybrid = P!Previous.hybrid]
    BY Zenon DEF P!RestoreSelection, P!historyVars
  <1>2. /\ P!Previous # NoValue /\ library # NoValue /\ library \in P!Libraries
        /\ P!Previous.applied \in library.entries /\ P!Previous = original /\ P!Previous \in P!Selections
        /\ journal.phase = "prepared" /\ Replaceable /\ mode = P!Previous.mode
    BY <1>0, <1>1 DEF RestoringFits, Restoring, ProfileTypes, P!OriginalKept
  <1>3. /\ library' \in P!Libraries /\ library' # NoValue /\ library'.applied = P!Previous.applied
        /\ library'.hybrid = P!Previous.hybrid /\ library'.entries = library.entries
    <2>1. PICK s \in P!Selections : s = P!Previous  BY <1>2
    <2>2. PICK l : l = [library EXCEPT !.applied = s.applied, !.hybrid = s.hybrid]  OBVIOUS
    <2>3. library' = l  BY <1>1, <2>1, <2>2
    <2>4. l.applied = s.applied /\ l.hybrid = s.hybrid /\ l.entries = library.entries
      BY <1>2, <2>2 DEF P!Libraries
    <2>5. l \in P!Libraries  BY <1>2, <2>1, <2>2, Fields DEF P!Libraries
    <2> QED BY <2>1, <2>3, <2>4, <2>5 DEF ProfileConstants
  <1>4. P!Previous' = P!Previous /\ \A id : P!HasFile(id)' <=> P!HasFile(id)
    BY <1>1 DEF P!Previous, P!HasFile
  <1>5. P!IsPreviousSelection'  BY <1>2, <1>3, <1>4 DEF P!IsPreviousSelection
  <1>6. P!Recoverable => P!Recoverable'
    BY <1>1, <1>2, <1>3, <1>4, <1>5 DEF P!Recoverable
  <1>7. P!OriginalKept' /\ P!AlwaysRecoverable'
    BY <1>0, <1>1, <1>2, <1>4, <1>6 DEF P!OriginalKept, P!AlwaysRecoverable
  <1>8. WritingFits' /\ RestoringFits'
    BY <1>0, <1>1, <1>2, <1>3, <1>4, <1>5 DEF WritingFits, RestoringFits, Activating, Restoring
  <1>9. ProfileTypes'  BY <1>0, <1>1, <1>3 DEF ProfileTypes, P!Commands, P!Writing
  <1>10. P!ReplacesOwn
    <2>1. P!Selection.applied = library.applied /\ P!Selection.hybrid = library.hybrid
      BY <1>2 DEF P!Selection
    <2>2. P!Applied(P!Selection) \in {[applied |-> Own, hybrid |-> FALSE], P!Applied(original)}
      BY <1>2, <2>1, Fields DEF Replaceable, P!IsOwnSelection, P!IsPreviousSelection, P!Applied
    <2> QED BY <1>1, <2>2, Zenon DEF P!ReplacesOwn
  <1>11. library'.applied \in library'.entries  BY <1>2, <1>3
  <1> QED BY <1>1, <1>3, <1>7, <1>8, <1>9, <1>10, <1>11, ProfileRest

LEMMA Forgotten ==
  ASSUME ProfileConstants, ProfileInv, P!Forget PROVE ProfileInv' /\ P!ReplacesOwn
  <1>0. /\ ProfileTypes /\ RestoringFits /\ P!OriginalKept
        /\ library # NoValue => library.applied \in library.entries
    BY DEF ProfileInv
  <1>1. /\ command = "forget" /\ command' = "none" /\ mode' = mode /\ profiles' = profiles
        /\ saved' = saved /\ desired' = desired /\ library' = library
        /\ touched' = FALSE /\ original' = original
        /\ journal' = [phase |-> "idle", previous |-> NoValue]
    BY Zenon DEF P!Forget, P!desktopVars
  <1>2. /\ P!Previous = original /\ library # NoValue /\ library \in P!Libraries
        /\ original \in P!Selections /\ mode = original.mode /\ P!IsPreviousSelection
    BY <1>0, <1>1 DEF RestoringFits, Restoring, ProfileTypes, P!OriginalKept
  <1>3. journal' \in P!Journals /\ journal' # NoValue /\ journal'.previous = NoValue
    BY <1>1 DEF P!Journals, ProfileConstants
  <1>4. P!Previous' = NoValue  BY <1>3 DEF P!Previous
  <1>5. P!Selection = original
    <2>1. P!Selection = [applied |-> original.applied, hybrid |-> original.hybrid, mode |-> original.mode]
      BY <1>2 DEF P!Selection, P!IsPreviousSelection
    <2> QED BY <1>2, <2>1, Fields
  <1>6. P!Selection' = P!Selection  BY <1>1 DEF P!Selection
  <1>7. P!OriginalKept' /\ P!AlwaysRecoverable'
    BY <1>1, <1>4, <1>5, <1>6 DEF P!OriginalKept, P!AlwaysRecoverable
  <1>8. WritingFits' /\ RestoringFits'
    BY <1>1 DEF WritingFits, RestoringFits, Activating, Restoring
  <1>9. ProfileTypes'  BY <1>0, <1>1, <1>3 DEF ProfileTypes, P!Commands
  <1>10. touched' \in BOOLEAN  BY <1>1, Zenon
  <1>11. P!ReplacesOwn  BY <1>1, <1>6, Zenon DEF P!ReplacesOwn
  <1> QED BY <1>0, <1>1, <1>7, <1>8, <1>9, <1>10, <1>11 DEF ProfileInv

(* What the user does while no command writes.                             *)
LEMMA UserSteps == ASSUME ProfileConstants, ProfileInv, P!User PROVE ProfileInv'
  <1>0. /\ ProfileTypes /\ WritingFits /\ RestoringFits /\ P!OriginalKept
        /\ library # NoValue => library.applied \in library.entries
    BY DEF ProfileInv
  <1>1. /\ command \notin P!Writing /\ saved' = saved /\ journal' = journal
        /\ command' = command /\ desired' = desired
        /\ \/ P!Previous = NoValue /\ original' = P!Selection' /\ touched' = FALSE
           \/ P!Previous # NoValue /\ original' = original /\ touched' = TRUE
    BY Zenon DEF P!User, P!UserSelects, P!UserSetsMode, P!UserAdds, P!UserDeletes, P!UserActs
  <1>2. /\ library' \in {NoValue} \cup P!Libraries
        /\ library' # NoValue => library'.applied \in library'.entries
        /\ profiles' \subseteq Profiles /\ mode' \in P!Modes
    <2>1. CASE P!UserSelects
      <3>1. PICK id \in P!Ids, hybrid \in BOOLEAN :
               /\ library # NoValue /\ id \in library.entries
               /\ library' = [library EXCEPT !.applied = id, !.hybrid = hybrid]
               /\ mode' = mode /\ profiles' = profiles
        BY <2>1, Zenon DEF P!UserSelects
      <3>2. library \in P!Libraries  BY <1>0, <3>1 DEF ProfileTypes
      <3>3. PICK l : l = [library EXCEPT !.applied = id, !.hybrid = hybrid]  OBVIOUS
      <3>4. l.applied = id /\ l.entries = library.entries  BY <3>2, <3>3 DEF P!Libraries
      <3>5. l \in P!Libraries  BY <3>2, <3>3 DEF P!Libraries
      <3> QED BY <1>0, <3>1, <3>3, <3>4, <3>5 DEF ProfileTypes
    <2>2. CASE P!UserSetsMode
      BY <1>0, <2>2 DEF ProfileTypes, P!UserSetsMode, P!Modes
    <2>3. CASE P!UserAdds
      <3>1. PICK id \in Profiles :
               /\ library # NoValue
               /\ library' = [library EXCEPT !.entries = @ \cup {id}]
               /\ profiles' = profiles \cup {id} /\ mode' = mode
        BY <2>3, Zenon DEF P!UserAdds
      <3>2. library \in P!Libraries  BY <1>0, <3>1 DEF ProfileTypes
      <3>3. library' \in P!Libraries /\ library'.applied = library.applied
            /\ library'.entries = library.entries \cup {id}
        BY <3>1, <3>2 DEF P!Libraries, P!Ids
      <3> QED BY <1>0, <3>1, <3>3 DEF ProfileTypes
    <2>4. CASE P!UserDeletes
      <3>1. PICK id \in Profiles :
               /\ library # NoValue /\ id # library.applied
               /\ library' = [library EXCEPT !.entries = @ \ {id}]
               /\ profiles' = profiles \ {id} /\ mode' = mode
        BY <2>4, Zenon DEF P!UserDeletes
      <3>2. library \in P!Libraries  BY <1>0, <3>1 DEF ProfileTypes
      <3>3. library' \in P!Libraries /\ library'.applied = library.applied
            /\ library'.entries = library.entries \ {id}
        BY <3>1, <3>2 DEF P!Libraries, P!Ids
      <3> QED BY <1>0, <3>1, <3>3 DEF ProfileTypes
    <2> QED BY <2>1, <2>2, <2>3, <2>4 DEF P!User
  <1>3. P!Selection' \in P!Selections
    <2>1. CASE library' = NoValue
      BY <1>2, <2>1 DEF P!Selection, P!Selections, P!Ids, ProfileConstants
    <2>2. CASE library' # NoValue
      BY <1>2, <2>2, Fields DEF P!Selection, P!Selections
    <2> QED BY <2>1, <2>2
  <1>4. P!Previous' = P!Previous  BY <1>1 DEF P!Previous
  <1>5. ProfileTypes'  BY <1>0, <1>1, <1>2, <1>3 DEF ProfileTypes
  <1>6. P!OriginalKept' /\ P!AlwaysRecoverable'
    BY <1>0, <1>1, <1>4 DEF P!OriginalKept, P!AlwaysRecoverable
  <1>7. WritingFits' /\ RestoringFits'
    BY <1>0, <1>1 DEF WritingFits, RestoringFits, Activating, Restoring, P!Writing
  <1>8. touched' \in BOOLEAN  BY <1>1, Zenon
  <1> QED BY <1>2, <1>5, <1>6, <1>7, <1>8 DEF ProfileInv

LEMMA ReadingReplaces ==
  ASSUME library' = library, mode' = mode PROVE P!ReplacesOwn
  <1>1. P!Selection' = P!Selection  BY DEF P!Selection
  <1> QED BY <1>1, Zenon DEF P!ReplacesOwn

LEMMA ProfileStep ==
  ASSUME ProfileConstants, ProfileInv
  PROVE  /\ P!Command => ProfileInv' /\ P!ReplacesOwn
         /\ P!User => ProfileInv'
         /\ UNCHANGED profileVars => ProfileInv'
  <1>1. ASSUME P!Command PROVE ProfileInv' /\ P!ReplacesOwn
    <2>1. CASE \/ \E d \in Settings : P!Launch(d)
               \/ P!Quit \/ P!Activate \/ P!WriteFails \/ P!Open \/ P!Off \/ P!QuitForOff \/ P!Recover
               \/ P!Interrupt
      <3>1. library' = library /\ mode' = mode
        BY <2>1 DEF P!Launch, P!Quit, P!Activate, P!WriteFails, P!Open, P!Off, P!QuitForOff, P!Recover, P!Interrupt,
          P!desktopVars
      <3> QED BY <2>1, <3>1, ReadingSteps, ReadingReplaces
    <2>2. CASE P!WriteDefaultFile
      <3>1. ProfileInv'
        BY <2>2 DEF P!WriteDefaultFile, ProfileInv, ProfileTypes, P!Commands, P!Writing,
           P!OriginalKept, P!AlwaysRecoverable, WritingFits, RestoringFits, P!historyVars, P!Previous,
           P!Selection, Activating, Restoring, ProfileConstants
      <3>2. library' = library /\ mode' = mode  BY <2>2 DEF P!WriteDefaultFile
      <3> QED BY <3>1, <3>2, ReadingReplaces
    <2> QED BY <1>1, <2>1, <2>2, DefaultLibrary, PreparedStep, ProfileWritten, OwnSelected, Restores,
               SelectionRestored, Forgotten DEF P!Command
  <1>2. ASSUME UNCHANGED profileVars PROVE ProfileInv'
    <2>1. /\ library' = library /\ mode' = mode /\ profiles' = profiles /\ saved' = saved
          /\ journal' = journal /\ command' = command /\ desired' = desired
          /\ touched' = touched /\ original' = original
      BY <1>2, Zenon DEF profileVars
    <2>2. ProfileTypes' /\ (library' # NoValue => library'.applied \in library'.entries)
      BY <2>1 DEF ProfileInv, ProfileTypes
    <2>3. WritingFits'  BY <2>1, SameFiles DEF ProfileInv, WritingFits
    <2>4. RestoringFits'  BY <2>1, SameFiles DEF ProfileInv, RestoringFits
    <2>5. P!OriginalKept' /\ P!AlwaysRecoverable'
      BY <2>1, SameFiles DEF ProfileInv, P!OriginalKept, P!AlwaysRecoverable
    <2> QED BY <2>1, <2>2, <2>3, <2>4, <2>5, ProfileRest
  <1> QED BY <1>1, <1>2, UserSteps

LEMMA ProfileInvariant == ASSUME ProfileConstants PROVE HostSpec => []ProfileInv
  <1>1. HostInit => ProfileInv  BY StartFits DEF HostInit
  <1>2. ASSUME ProfileInv, [HostNext]_allVars PROVE ProfileInv'
    <2>1. P!Next \/ UNCHANGED profileVars  BY <1>2, Zenon DEF HostNext, allVars
    <2> QED BY <1>2, <2>1, ProfileStep DEF P!Next
  <1> QED BY <1>1, <1>2, PTL DEF HostSpec

(* See OriginalKept: wherever a command is cut off, what the user had      *)
(* selected is in Desktop or in the journal, and only Rayline's own        *)
(* selection or the one it displaced is replaced (claude_desktop.rs).      *)
THEOREM SelectionSurvives == HostSpec => OriginalKept
  <1>1. ProfileInv => P!OriginalKept /\ P!AlwaysRecoverable  BY DEF ProfileInv
  <1>2. ASSUME ProfileInv, [HostNext]_allVars PROVE [P!Command => P!ReplacesOwn]_allVars
    BY ProfileAssumptions, ProfileStep, <1>2
  <1> QED BY <1>1, <1>2, ProfileAssumptions, ProfileInvariant, PTL DEF OriginalKept, HostSpec

(***************************************************************************)
(* The installed files: only releases are written, and what a run replaces *)
(* them by is the release that was asked for.                              *)
(***************************************************************************)
Runs == [at : {"idle", "decide", "migrate", "fetch"} \cup U!Installing,
         current : Releases \cup {0}, ask : U!Requests \cup {U!Nothing}, sound : BOOLEAN]

Named(r) == r.at \in U!Installing \cup {"fetch"} => r.ask \in U!Requests

UpdateInv ==
  /\ U!UpdateTypeOK
  /\ update \in [Launchers -> Runs]
  /\ \A u \in Launchers : Named(update[u])

LEMMA RunChanges ==
  ASSUME NEW r \in Runs
  PROVE  /\ U!Idle \in Runs /\ Named(U!Idle)
         /\ \A a \in {"idle", "decide", "migrate", "fetch"} \cup U!Installing :
              /\ [r EXCEPT !.at = a] \in Runs
              /\ r.ask \in U!Requests => Named([r EXCEPT !.at = a])
              /\ \A c \in Releases \cup {0} :
                   /\ [r EXCEPT !.at = "decide", !.current = c] \in Runs
                   /\ Named([r EXCEPT !.at = "decide", !.current = c])
                   /\ [U!Idle EXCEPT !.at = a, !.current = c] \in Runs
                   /\ a \in {"decide", "migrate"} => Named([U!Idle EXCEPT !.at = a, !.current = c])
              /\ \A q \in U!Requests :
                   /\ [r EXCEPT !.at = a, !.ask = q] \in Runs
                   /\ Named([r EXCEPT !.at = a, !.ask = q])
  <1>1. U!Idle \in Runs
    BY DEF U!Idle, Runs
  <1>2. Named(U!Idle)  BY DEF U!Idle, Named, U!Installing
  <1>3. ASSUME NEW a \in {"idle", "decide", "migrate", "fetch"} \cup U!Installing
        PROVE  /\ [r EXCEPT !.at = a] \in Runs
               /\ r.ask \in U!Requests => Named([r EXCEPT !.at = a])
    BY DEF Runs, Named
  <1>4. ASSUME NEW a \in {"idle", "decide", "migrate", "fetch"} \cup U!Installing, NEW q \in U!Requests
        PROVE  /\ [r EXCEPT !.at = a, !.ask = q] \in Runs
               /\ Named([r EXCEPT !.at = a, !.ask = q])
    BY DEF Runs, Named
  <1>5. ASSUME NEW a \in {"idle", "decide", "migrate", "fetch"} \cup U!Installing, NEW c \in Releases \cup {0}
        PROVE  /\ [r EXCEPT !.at = "decide", !.current = c] \in Runs
               /\ Named([r EXCEPT !.at = "decide", !.current = c])
    BY DEF Runs, Named, U!Installing
  <1>6. ASSUME NEW a \in {"idle", "decide", "migrate", "fetch"} \cup U!Installing, NEW c \in Releases \cup {0}
        PROVE  /\ [U!Idle EXCEPT !.at = a, !.current = c] \in Runs
               /\ a \in {"decide", "migrate"} => Named([U!Idle EXCEPT !.at = a, !.current = c])
    <2>1. PICK i \in Runs : i = U!Idle  BY <1>1
    <2>2. [i EXCEPT !.at = a, !.current = c] \in Runs
      BY DEF Runs
    <2>3. a \in {"decide", "migrate"} => Named([i EXCEPT !.at = a, !.current = c])
      BY DEF Runs, Named, U!Installing
    <2> QED BY <2>1, <2>2, <2>3
  <1> QED BY <1>1, <1>2, <1>3, <1>4, <1>5, <1>6

LEMMA RunsKept ==
  ASSUME UpdateInv, NEW u \in Launchers, NEW x \in Runs, Named(x),
         update' = [update EXCEPT ![u] = x]
  PROVE  update' \in [Launchers -> Runs] /\ \A v \in Launchers : Named(update'[v])
  BY DEF UpdateInv

LEMMA GoKeeps ==
  ASSUME UpdateInv, NEW u \in Launchers, NEW s \in U!Installing, update[u].ask \in U!Requests, U!Go(u, s)
  PROVE  update' \in [Launchers -> Runs] /\ \A v \in Launchers : Named(update'[v])
  <1>1. PICK r \in Runs : r = update[u]  BY DEF UpdateInv
  <1>2. update' = [update EXCEPT ![u] = [r EXCEPT !.at = s]]
    BY <1>1, Zenon DEF U!Go
  <1>3. PICK x \in Runs : Named(x) /\ x = [r EXCEPT !.at = s]  BY <1>1, RunChanges
  <1> QED BY <1>2, <1>3, RunsKept

LEMMA EndKeeps ==
  ASSUME UpdateInv, NEW u \in Launchers, U!End(u)
  PROVE  update' \in [Launchers -> Runs] /\ \A v \in Launchers : Named(update'[v])
  <1>1. PICK r \in Runs : r = update[u]  BY DEF UpdateInv
  <1>2. PICK x \in Runs : Named(x) /\ x = U!Idle  BY <1>1, RunChanges
  <1>3. update' = [update EXCEPT ![u] = x]  BY <1>2, Zenon DEF U!End
  <1> QED BY <1>2, <1>3, RunsKept

LEMMA EnterKeeps ==
  ASSUME UpdateInv, NEW u \in Launchers, NEW s \in U!Installing, NEW q \in U!Requests, U!Enter(u, s, q)
  PROVE  /\ update' \in [Launchers -> Runs] /\ \A v \in Launchers : Named(update'[v])
         /\ left' \subseteq U!Requests
  <1>1. /\ update' = [v \in Launchers |->
              IF v = u THEN [update[u] EXCEPT !.at = s, !.ask = q, !.sound = ~U!Overlaps(u)]
              ELSE IF update[v].at \in U!Installing THEN [update[v] EXCEPT !.sound = FALSE]
              ELSE update[v]]
        /\ left' = IF U!Overlaps(u) THEN U!Requests ELSE left
    BY Zenon DEF U!Enter
  <1>2. ASSUME NEW r \in Runs, NEW b \in BOOLEAN
        PROVE  /\ [r EXCEPT !.at = s, !.ask = q, !.sound = b] \in Runs
               /\ Named([r EXCEPT !.at = s, !.ask = q, !.sound = b])
               /\ [r EXCEPT !.sound = b] \in Runs
               /\ Named(r) => Named([r EXCEPT !.sound = b])
    BY DEF Runs, Named
  <1>3. ASSUME NEW v \in Launchers PROVE update'[v] \in Runs /\ Named(update'[v])
    <2>1. PICK r \in Runs : r = update[v] /\ Named(r)  BY DEF UpdateInv
    <2>2. update'[v] = IF v = u THEN [r EXCEPT !.at = s, !.ask = q, !.sound = ~U!Overlaps(u)]
                       ELSE IF r.at \in U!Installing THEN [r EXCEPT !.sound = FALSE] ELSE r
      BY <1>1, <2>1, Zenon
    <2>3. PICK b \in BOOLEAN : b = ~U!Overlaps(u)  OBVIOUS
    <2>4. PICK x, y : /\ x = [r EXCEPT !.at = s, !.ask = q, !.sound = b]
                      /\ y = [r EXCEPT !.sound = FALSE]
      OBVIOUS
    <2>5. x \in Runs /\ Named(x) /\ y \in Runs /\ Named(y)
      BY <1>2, <2>1, <2>4
    <2>6. update'[v] = IF v = u THEN x ELSE IF r.at \in U!Installing THEN y ELSE r
      BY <2>2, <2>3, <2>4, Zenon
    <2> QED BY <2>1, <2>5, <2>6
  <1>4. update' = [v \in Launchers |-> update'[v]]  BY <1>1
  <1> QED BY <1>1, <1>3, <1>4 DEF UpdateInv, U!UpdateTypeOK

LEMMA AdvanceFiles ==
  ASSUME UpdateInv, NEW u \in Launchers,
         NEW s \in {"license", "core", "launcher", "daemon", "link", "stale core", "stale license"},
         U!At(u, s), U!Advance(u, s)
  PROVE  /\ update' \in [Launchers -> Runs] /\ \A v \in Launchers : Named(update'[v])
         /\ left' \subseteq U!Requests
  <1>1. update[u].at = s /\ update[u].ask \in U!Requests
    BY DEF U!At, UpdateInv, Named, U!Installing
  <1> DEFINE n == U!Following(s, U!Target(u))
  <1>2. n = "done" \/ n \in U!Installing
    BY DEF U!Following, U!Installing
  <1>3. IF n = "done" THEN U!End(u) /\ left' = IF update[u].sound THEN {} ELSE left
        ELSE U!Go(u, n) /\ left' = left
    BY Zenon DEF U!Advance
  <1> HIDE DEF n
  <1>4. left' \subseteq U!Requests
    <2>1. left' = {} \/ left' = left  BY <1>3
    <2> QED BY <2>1 DEF UpdateInv, U!UpdateTypeOK
  <1> QED BY <1>1, <1>2, <1>3, <1>4, GoKeeps, EndKeeps

LEMMA UpdateInit == ASSUME U!Init PROVE UpdateInv
  <1>1. \A r \in Releases : /\ U!Whole(r) \in [U!Names -> Releases \cup {0}]
                            /\ [U!Whole(r) EXCEPT !["launcher"] = 0] \in [U!Names -> Releases \cup {0}]
    <2> TAKE r \in Releases
    <2>1. PICK f \in [U!Names -> Releases \cup {0}] : f = U!Whole(r)  BY DEF U!Whole
    <2>2. [f EXCEPT !["launcher"] = 0] \in [U!Names -> Releases \cup {0}]  BY DEF U!Names
    <2> QED BY <2>1, <2>2
  <1>2. files \in [U!Names -> Releases \cup {0}] /\ alias \in Releases \cup {0}
    BY <1>1 DEF U!Init
  <1>3. U!Idle \in Runs /\ Named(U!Idle)
    BY DEF U!Idle, Runs, Named, U!Installing
  <1>4. update = [u \in Launchers |-> U!Idle] /\ left = {}  BY DEF U!Init
  <1> QED BY <1>2, <1>3, <1>4 DEF UpdateInv, U!UpdateTypeOK

LEMMA UpdateStep == ASSUME UpdateInv, U!UpdateNext PROVE UpdateInv'
  <1>0. /\ files \in [U!Names -> Releases \cup {0}] /\ alias \in Releases \cup {0}
        /\ left \subseteq U!Requests
    BY DEF UpdateInv, U!UpdateTypeOK
  <1>1. CASE U!OldUpdate
    <2>1. PICK r \in Releases :
            /\ alias' \in {alias, r} /\ update' = update /\ left' = left
            /\ \/ files' = [files EXCEPT !["daemon"] = r]
               \/ files' = [files EXCEPT !["daemon"] = r, !["launcher"] = r]
      BY <1>1 DEF U!OldUpdate
    <2>2. files' \in [U!Names -> Releases \cup {0}]
      BY <1>0, <2>1 DEF U!Names
    <2> QED BY <1>0, <2>1, <2>2 DEF UpdateInv, U!UpdateTypeOK
  <1>2. ASSUME NEW u \in Launchers,
               \/ U!Start(u) \/ U!StartLegacy(u) \/ U!AlreadyMigrated(u) \/ U!MigrateAlias(u)
        PROVE  UpdateInv'
    <2>1. PICK r \in Runs : r = update[u]  BY DEF UpdateInv
    <2>2. files["launcher"] \in Releases \cup {0}  BY <1>0 DEF U!Names
    <2>3. /\ files' = files /\ left' = left /\ alias' \in {alias, 0}
          /\ \/ update' = [update EXCEPT ![u] = [U!Idle EXCEPT !.at = "decide", !.current = files["launcher"]]]
             \/ update' = [update EXCEPT ![u] = [U!Idle EXCEPT !.at = "migrate", !.current = alias]]
             \/ U!Forward(u)
      <3>1. CASE U!Start(u)  BY <3>1, Zenon DEF U!Start
      <3>2. CASE U!StartLegacy(u)  BY <3>2, Zenon DEF U!StartLegacy
      <3>3. CASE U!AlreadyMigrated(u)  BY <3>3, Zenon DEF U!AlreadyMigrated
      <3>4. CASE U!MigrateAlias(u)  BY <3>4, Zenon DEF U!MigrateAlias
      <3> QED BY <1>2, <3>1, <3>2, <3>3, <3>4
    <2>9. \/ update' = [update EXCEPT ![u] = [U!Idle EXCEPT !.at = "decide", !.current = files["launcher"]]]
          \/ update' = [update EXCEPT ![u] = [U!Idle EXCEPT !.at = "migrate", !.current = alias]]
          \/ U!End(u)
          \/ update' = [update EXCEPT ![u] = [r EXCEPT !.at = "decide", !.current = files["launcher"]]]
      BY <2>1, <2>3, Zenon DEF U!Forward
    <2>4. PICK x \in Runs : x = [U!Idle EXCEPT !.at = "decide", !.current = files["launcher"]] /\ Named(x)
      BY <2>2, RunChanges
    <2>5. PICK y \in Runs : y = [U!Idle EXCEPT !.at = "migrate", !.current = alias] /\ Named(y)
      BY <1>0, RunChanges
    <2>6. PICK z \in Runs : z = [r EXCEPT !.at = "decide", !.current = files["launcher"]] /\ Named(z)
      BY <2>2, RunChanges
    <2>7. \/ update' = [update EXCEPT ![u] = x] \/ update' = [update EXCEPT ![u] = y]
          \/ update' = [update EXCEPT ![u] = z] \/ U!End(u)
      BY <2>4, <2>5, <2>6, <2>9, Zenon
    <2>8. update' \in [Launchers -> Runs] /\ \A v \in Launchers : Named(update'[v])
      BY <2>4, <2>5, <2>6, <2>7, RunsKept, EndKeeps
    <2> QED BY <1>0, <2>3, <2>8 DEF UpdateInv, U!UpdateTypeOK
  <1>3. ASSUME NEW u \in Launchers, U!Migrate(u) \/ U!Verified(u) PROVE UpdateInv'
    <2>1. files' = files /\ alias' = alias  BY <1>3 DEF U!Migrate, U!Verified
    <2>2. PICK s \in U!Installing, q \in U!Requests : U!Enter(u, s, q)
      <3>1. CASE U!Migrate(u)
        <4>1. PICK q : q = [U!Nothing EXCEPT !.target = alias]  OBVIOUS
        <4>2. alias \in Releases  BY <1>0, <3>1 DEF U!Migrate
        <4>3. q \in U!Requests  BY <4>1, <4>2 DEF U!Nothing, U!Requests
        <4>4. U!Enter(u, "copy", q)  BY <3>1, <4>1, Zenon DEF U!Migrate
        <4>5. "copy" \in U!Installing  BY DEF U!Installing
        <4> QED BY <4>3, <4>4, <4>5
      <3>2. CASE U!Verified(u)
        <4>1. U!Enter(u, U!FirstStep(U!Target(u)), update[u].ask)  BY <3>2, Zenon DEF U!Verified
        <4>2. U!FirstStep(U!Target(u)) \in U!Installing  BY DEF U!FirstStep, U!Installing
        <4>3. update[u].ask \in U!Requests  BY <3>2 DEF U!Verified, U!At, UpdateInv, Named
        <4> QED BY <4>1, <4>2, <4>3
      <3> QED BY <1>3, <3>1, <3>2
    <2>3. /\ update' \in [Launchers -> Runs] /\ \A v \in Launchers : Named(update'[v])
          /\ left' \subseteq U!Requests
      BY <2>2, EnterKeeps
    <2> QED BY <1>0, <2>1, <2>3 DEF UpdateInv, U!UpdateTypeOK
  <1>4. ASSUME NEW u \in Launchers, U!MigrateLauncher(u) PROVE UpdateInv'
    <2>1. /\ files' = [files EXCEPT !["launcher"] = U!Target(u)] /\ alias' = alias /\ left' = left
          /\ U!Go(u, "relink") /\ update[u].at = "copy"
      BY <1>4 DEF U!MigrateLauncher, U!At
    <2>2. update[u].ask \in U!Requests  BY <2>1 DEF UpdateInv, Named, U!Installing
    <2>3. U!Target(u) \in Releases  BY <2>2 DEF U!Target, U!Requests
    <2>4. "relink" \in U!Installing  BY DEF U!Installing
    <2>5. update' \in [Launchers -> Runs] /\ \A v \in Launchers : Named(update'[v])
      BY <2>1, <2>2, <2>4, GoKeeps
    <2>6. files' \in [U!Names -> Releases \cup {0}]  BY <1>0, <2>1, <2>3 DEF U!Names
    <2> QED BY <1>0, <2>1, <2>5, <2>6 DEF UpdateInv, U!UpdateTypeOK
  <1>5. ASSUME NEW u \in Launchers, U!Answered(u) \/ U!NotInstalled(u) PROVE UpdateInv'
    <2>1. U!End(u) /\ files' = files /\ alias' = alias /\ left' = left
      BY <1>5 DEF U!Answered, U!NotInstalled
    <2> QED BY <1>0, <2>1, EndKeeps DEF UpdateInv, U!UpdateTypeOK
  <1>6. ASSUME NEW u \in Launchers, NEW q \in U!Requests, U!Accepted(u, q) PROVE UpdateInv'
    <2>1. PICK r \in Runs : r = update[u]  BY DEF UpdateInv
    <2>2. /\ files' = files /\ alias' = alias /\ left' = left
          /\ update' = [update EXCEPT ![u] = [r EXCEPT !.at = "fetch", !.ask = q]]
      BY <1>6, <2>1, Zenon DEF U!Accepted
    <2>3. PICK x \in Runs : Named(x) /\ x = [r EXCEPT !.at = "fetch", !.ask = q]
      BY RunChanges
    <2>4. update' = [update EXCEPT ![u] = x]  BY <2>2, <2>3, Zenon
    <2> QED BY <1>0, <2>2, <2>3, <2>4, RunsKept DEF UpdateInv, U!UpdateTypeOK
  <1>7. ASSUME NEW u \in Launchers,
               (\E n \in U!Names : U!Replace(u, n)) \/ U!InstallAlias(u) \/ U!RemoveStale(u)
        PROVE  UpdateInv'
    <2>1. PICK s \in {"license", "core", "launcher", "daemon", "link", "stale core", "stale license"} :
            /\ U!At(u, s) /\ U!Advance(u, s) /\ alias' \in {alias, 0}
            /\ \/ files' = files
               \/ \E n \in U!Names : files' = [files EXCEPT ![n] = U!Target(u)]
               \/ \E n \in U!Names : files' = [files EXCEPT ![n] = 0]
      <3>1. CASE \E n \in U!Names : U!Replace(u, n)
        BY <3>1 DEF U!Replace, U!Names
      <3>2. CASE U!InstallAlias(u)  BY <3>2 DEF U!InstallAlias
      <3>3. CASE U!RemoveStale(u)  BY <3>3 DEF U!RemoveStale, U!Names
      <3> QED BY <1>7, <3>1, <3>2, <3>3
    <2>2. U!Target(u) \in Releases
      BY <2>1 DEF U!At, UpdateInv, Named, U!Installing, U!Target, U!Requests
    <2>3. files' \in [U!Names -> Releases \cup {0}]  BY <1>0, <2>1, <2>2
    <2>4. /\ update' \in [Launchers -> Runs] /\ \A v \in Launchers : Named(update'[v])
          /\ left' \subseteq U!Requests
      BY <2>1, AdvanceFiles
    <2> QED BY <1>0, <2>1, <2>3, <2>4 DEF UpdateInv, U!UpdateTypeOK
  <1>8. ASSUME NEW u \in Launchers, U!RemoveFails(u) PROVE UpdateInv'
    <2>1. PICK r \in Runs : r = update[u]  BY DEF UpdateInv
    <2>2. /\ files' = files /\ alias' = alias /\ left' = U!Requests
          /\ \/ update' = [update EXCEPT ![u] = [r EXCEPT !.at = "stale license", !.sound = FALSE]]
             \/ U!End(u)
          /\ r.at \in {"stale core", "stale license"}
      BY <1>8, <2>1, Zenon DEF U!RemoveFails
    <2>3. r.ask \in U!Requests  BY <2>1, <2>2 DEF UpdateInv, Named, U!Installing
    <2>4. PICK x : x = [r EXCEPT !.at = "stale license", !.sound = FALSE]  OBVIOUS
    <2>5. x \in Runs /\ Named(x)  BY <2>3, <2>4 DEF Runs, Named, U!Installing
    <2>6. update' = [update EXCEPT ![u] = x] \/ U!End(u)  BY <2>2, <2>4, Zenon
    <2>7. update' \in [Launchers -> Runs] /\ \A v \in Launchers : Named(update'[v])
      BY <2>5, <2>6, RunsKept, EndKeeps
    <2> QED BY <1>0, <2>2, <2>7 DEF UpdateInv, U!UpdateTypeOK
  <1>9. ASSUME NEW u \in Launchers, U!CutOff(u) PROVE UpdateInv'
    <2>1. /\ files' = files /\ alias' = alias /\ U!End(u)
          /\ update[u].at \in U!Installing
          /\ left' \in {left \cup {update[u].ask}, left, U!Requests}
      BY <1>9 DEF U!CutOff
    <2>2. update[u].ask \in U!Requests  BY <2>1 DEF UpdateInv, Named
    <2>3. update' \in [Launchers -> Runs] /\ \A v \in Launchers : Named(update'[v])
      BY <2>1, EndKeeps
    <2> QED BY <1>0, <2>1, <2>2, <2>3 DEF UpdateInv, U!UpdateTypeOK
  <1> QED BY <1>1, <1>2, <1>3, <1>4, <1>5, <1>6, <1>7, <1>8, <1>9 DEF U!UpdateNext

LEMMA UpdateInvariant == HostSpec => []UpdateInv
  <1>1. HostInit => UpdateInv  BY UpdateInit DEF HostInit
  <1>2. ASSUME UpdateInv, [HostNext]_allVars PROVE UpdateInv'
    <2>1. CASE U!UpdateNext  BY <2>1, <1>2, UpdateStep
    <2>2. CASE UNCHANGED installVars
      BY <1>2, <2>2 DEF UpdateInv, U!UpdateTypeOK, installVars
    <2> QED BY <1>2, <2>1, <2>2 DEF HostNext, allVars
  <1> QED BY <1>1, <1>2, PTL DEF HostSpec

(***************************************************************************)
(* What a run has written so far, and what one that was cut off leaves:    *)
(* while nothing is excepted (left # Requests), the launcher and the       *)
(* daemon are of one release, and a core or a license of another is the    *)
(* one that a pending request asks for.                                    *)
(***************************************************************************)
Before == {"license", "core", "launcher"}
Behind == {"daemon", "link", "stale core", "stale license"}
Moving == {"copy", "relink"}
Old(r) == U!PredatesCore(r)

Wanted(running, q) == U!Available(running, q) \/ q.target = running

(* Only one run replaces files, or what follows is excepted.               *)
Excepted == \A u \in Launchers : update[u].at \in U!Installing /\ update[u].sound = FALSE => left = U!Requests
Alone ==
  \A u, v \in Launchers :
    update[u].at \in U!Installing /\ update[u].sound = TRUE /\ update[v].at \in U!Installing => v = u

(* What a run that nobody disturbed has replaced at each place.            *)
WrittenBy(r) ==
  /\ r.at \in {"license", "core"} => ~Old(r.ask.target)
  /\ r.at \in {"stale core", "stale license"} => Old(r.ask.target)
  /\ r.at \in Before => files["launcher"] = r.current
  /\ r.at \in {"core", "launcher", "daemon", "link"} /\ ~Old(r.ask.target) => files["license"] = r.ask.target
  /\ r.at \in {"launcher", "daemon", "link"} /\ ~Old(r.ask.target) => files["core"] = r.ask.target
  /\ r.at \in Behind => files["launcher"] = r.ask.target
  /\ r.at \in Behind \ {"daemon"} => files["daemon"] = r.ask.target
  /\ r.at \in {"stale core", "stale license"} => alias = 0
  /\ r.at = "stale license" => files["core"] = 0
  /\ r.at \in Moving => alias = r.ask.target
  /\ r.at = "relink" => files["launcher"] = r.ask.target

Written == \A u \in Launchers : update[u].at \in U!Installing /\ update[u].sound = TRUE => WrittenBy(update[u])

(* What a run has decided upon.                                            *)
Decided(r) ==
  /\ r.at \in {"decide", "fetch"} \cup Before => r.current \in Releases /\ ~Old(r.current)
  /\ r.at \in {"fetch"} \cup Before => Wanted(r.current, r.ask)

Entitled ==
  \A u \in Launchers :
    /\ Decided(update[u])
    /\ update[u].at \notin {"idle", "migrate", "copy"} => files["launcher"] # 0
    /\ update[u].at \in {"migrate"} \cup Moving => alias = 0 \/ ~Old(alias)

(* The requests that may have replaced the license or the core.            *)
Pending(q) == q \in left \/ \E u \in Launchers : update[u].at \in Before /\ update[u].ask = q

Settled ==
  /\ files["launcher"] = 0 =>
       /\ files["core"] = 0 /\ files["license"] = 0 /\ files["daemon"] = alias
       /\ \A q \in U!Requests : ~Pending(q)
  /\ files["launcher"] # 0 =>
       /\ files["daemon"] = files["launcher"]
       /\ alias = 0 \/ (alias = files["launcher"] /\ ~Old(alias))
       /\ \A n \in {"core", "license"} :
            \/ files[n] = 0
            \/ files[n] = files["launcher"] /\ ~Old(files["launcher"])
            \/ \E q \in U!Requests : Pending(q) /\ files[n] = q.target
       /\ files["core"] # 0 => files["license"] # 0
       /\ \A q \in U!Requests : Pending(q) => Wanted(files["launcher"], q) /\ ~Old(files["launcher"])

FilesFit == (left # U!Requests /\ \A u \in Launchers : update[u].at \notin Behind) => Settled

LauncherStays == alias = 0 => files["launcher"] # 0

InstallInv == UpdateInv /\ Excepted /\ Alone /\ Written /\ Entitled /\ FilesFit /\ LauncherStays

(* The other runs are where they were.                                     *)
OthersStay(u) == \A v \in Launchers : v # u => update'[v] = update[v]

LEMMA RunSet ==
  ASSUME UpdateInv, NEW u \in Launchers, NEW x, update' = [update EXCEPT ![u] = x]
  PROVE  update'[u] = x /\ OthersStay(u)
  BY DEF UpdateInv, OthersStay

LEMMA GoFields ==
  ASSUME UpdateInv, NEW u \in Launchers, NEW s, U!Go(u, s)
  PROVE  /\ update'[u].at = s /\ update'[u].current = update[u].current
         /\ update'[u].ask = update[u].ask /\ update'[u].sound = update[u].sound
         /\ OthersStay(u)
  <1>1. PICK r \in Runs : r = update[u]  BY DEF UpdateInv
  <1>2. PICK x : x = [r EXCEPT !.at = s]  OBVIOUS
  <1>3. update' = [update EXCEPT ![u] = x]  BY <1>1, <1>2, Zenon DEF U!Go
  <1>4. x.at = s /\ x.current = r.current /\ x.ask = r.ask /\ x.sound = r.sound
    BY <1>2 DEF Runs
  <1> QED BY <1>1, <1>3, <1>4, RunSet

LEMMA EndFields ==
  ASSUME UpdateInv, NEW u \in Launchers, U!End(u)
  PROVE  update'[u] = U!Idle /\ OthersStay(u)
  BY RunSet, Zenon DEF U!End

LEMMA IdleFields == U!Idle.at = "idle" /\ U!Idle.current = 0 /\ U!Idle.ask = U!Nothing
  BY DEF U!Idle

LEMMA EnterFields ==
  ASSUME UpdateInv, NEW u \in Launchers, NEW s, NEW q, U!Enter(u, s, q)
  PROVE  /\ update'[u].at = s /\ update'[u].current = update[u].current /\ update'[u].ask = q
         /\ update'[u].sound = TRUE <=> ~U!Overlaps(u)
         /\ \A v \in Launchers : v # u =>
              /\ update'[v].at = update[v].at /\ update'[v].current = update[v].current
              /\ update'[v].ask = update[v].ask
              /\ update[v].at \in U!Installing => update'[v].sound = FALSE
         /\ left' = IF U!Overlaps(u) THEN U!Requests ELSE left
  <1>1. /\ update' = [v \in Launchers |->
              IF v = u THEN [update[u] EXCEPT !.at = s, !.ask = q, !.sound = ~U!Overlaps(u)]
              ELSE IF update[v].at \in U!Installing THEN [update[v] EXCEPT !.sound = FALSE]
              ELSE update[v]]
        /\ left' = IF U!Overlaps(u) THEN U!Requests ELSE left
    BY Zenon DEF U!Enter
  <1>2. /\ update'[u].at = s /\ update'[u].current = update[u].current /\ update'[u].ask = q
        /\ update'[u].sound = TRUE <=> ~U!Overlaps(u)
    <2>1. PICK r \in Runs : r = update[u]  BY DEF UpdateInv
    <2>2. PICK b \in BOOLEAN : b = ~U!Overlaps(u)  OBVIOUS
    <2>3. PICK x : x = [r EXCEPT !.at = s, !.ask = q, !.sound = b]  OBVIOUS
    <2>4. update'[u] = x  BY <1>1, <2>1, <2>2, <2>3, Zenon
    <2>5. x.at = s /\ x.current = r.current /\ x.ask = q /\ x.sound = b
      BY <2>3 DEF Runs
    <2> QED BY <2>1, <2>2, <2>4, <2>5
  <1>3. ASSUME NEW v \in Launchers, v # u
        PROVE  /\ update'[v].at = update[v].at /\ update'[v].current = update[v].current
               /\ update'[v].ask = update[v].ask
               /\ update[v].at \in U!Installing => update'[v].sound = FALSE
    <2>1. PICK r \in Runs : r = update[v]  BY DEF UpdateInv
    <2>2. PICK x : x = [r EXCEPT !.sound = FALSE]  OBVIOUS
    <2>3. update'[v] = IF r.at \in U!Installing THEN x ELSE r  BY <1>1, <1>3, <2>1, <2>2, Zenon
    <2>4. x.at = r.at /\ x.current = r.current /\ x.ask = r.ask /\ x.sound = FALSE
      BY <2>2 DEF Runs
    <2> QED BY <2>1, <2>3, <2>4
  <1> QED BY <1>1, <1>2, <1>3

(* A run that replaces nothing yet: it ends, decides, or is accepted.      *)
DecidingStep(u) ==
  /\ files' = files /\ alias' = alias /\ left' = left
  /\ OthersStay(u) /\ update[u].at \notin U!Installing
  /\ \/ update'[u].at = "idle"
     \/ /\ update'[u].at = "decide" /\ update'[u].current = files["launcher"]
        /\ files["launcher"] # 0 /\ ~Old(files["launcher"])
     \/ update'[u].at = "migrate" /\ alias # 0 /\ ~Old(alias)
     \/ /\ update'[u].at = "fetch" /\ update[u].at = "decide"
        /\ update'[u].current = update[u].current /\ Wanted(update'[u].current, update'[u].ask)

LEMMA DecideFields ==
  ASSUME UpdateInv, NEW u \in Launchers, NEW c,
         \/ update' = [update EXCEPT ![u] = [U!Idle EXCEPT !.at = "decide", !.current = c]]
         \/ update' = [update EXCEPT ![u].at = "decide", ![u].current = c]
  PROVE  update'[u].at = "decide" /\ update'[u].current = c /\ OthersStay(u)
  <1>1. PICK r \in Runs : r = update[u]  BY DEF UpdateInv
  <1>2. PICK i \in Runs : i = U!Idle  BY <1>1, RunChanges
  <1>3. PICK x : x = [i EXCEPT !.at = "decide", !.current = c]  OBVIOUS
  <1>4. PICK y : y = [r EXCEPT !.at = "decide", !.current = c]  OBVIOUS
  <1>5. update' = [update EXCEPT ![u] = x] \/ update' = [update EXCEPT ![u] = y]
    BY <1>1, <1>2, <1>3, <1>4, Zenon
  <1>6. x.at = "decide" /\ x.current = c /\ y.at = "decide" /\ y.current = c
    BY <1>3, <1>4 DEF Runs
  <1> QED BY <1>5, <1>6, RunSet

LEMMA ForwardFields ==
  ASSUME UpdateInv, NEW u \in Launchers, U!Forward(u)
  PROVE  /\ OthersStay(u)
         /\ \/ update'[u].at = "idle"
            \/ /\ update'[u].at = "decide" /\ update'[u].current = files["launcher"]
               /\ ~Old(files["launcher"])
  <1>1. CASE U!PredatesCore(files["launcher"])
    BY <1>1, EndFields, IdleFields DEF U!Forward
  <1>2. CASE ~U!PredatesCore(files["launcher"])
    <2>1. update' = [update EXCEPT ![u].at = "decide", ![u].current = files["launcher"]]
      BY <1>2, Zenon DEF U!Forward
    <2> QED BY <1>2, <2>1, DecideFields DEF Old
  <1> QED BY <1>1, <1>2

LEMMA DecidingSteps ==
  ASSUME UpdateInv, LauncherStays, NEW u \in Launchers,
         \/ U!Start(u) \/ U!StartLegacy(u) \/ U!AlreadyMigrated(u) \/ U!Answered(u) \/ U!NotInstalled(u)
         \/ \E q \in U!Requests : U!Accepted(u, q)
  PROVE  DecidingStep(u)
  <1>1. CASE U!Start(u)
    <2>1. /\ update[u].at = "idle" /\ files["launcher"] # 0 /\ ~Old(files["launcher"])
          /\ files' = files /\ alias' = alias /\ left' = left
          /\ update' = [update EXCEPT ![u] = [U!Idle EXCEPT !.at = "decide", !.current = files["launcher"]]]
      BY <1>1, Zenon DEF U!Start, U!At, Old
    <2>2. update'[u].at = "decide" /\ update'[u].current = files["launcher"] /\ OthersStay(u)
      BY <2>1, DecideFields, Zenon
    <2> QED BY <2>1, <2>2 DEF DecidingStep, U!Installing
  <1>2. CASE U!StartLegacy(u)
    <2>1. /\ update[u].at = "idle" /\ alias # 0 /\ ~Old(alias)
          /\ files' = files /\ alias' = alias /\ left' = left
          /\ update' = [update EXCEPT ![u] = [U!Idle EXCEPT !.at = "migrate", !.current = alias]]
      BY <1>2, Zenon DEF U!StartLegacy, U!At, Old
    <2>2. PICK i \in Runs : i = U!Idle  BY DEF U!Idle, Runs
    <2>3. PICK x : x = [i EXCEPT !.at = "migrate", !.current = alias]  OBVIOUS
    <2>4. update' = [update EXCEPT ![u] = x]  BY <2>1, <2>2, <2>3, Zenon
    <2>5. x.at = "migrate"  BY <2>3 DEF Runs
    <2>6. update'[u].at = "migrate" /\ OthersStay(u)  BY <2>4, <2>5, RunSet
    <2> QED BY <2>1, <2>6 DEF DecidingStep, U!Installing
  <1>3. CASE U!AlreadyMigrated(u)
    <2>1. /\ update[u].at = "migrate" /\ alias = 0 /\ U!Forward(u)
          /\ files' = files /\ alias' = alias /\ left' = left
      BY <1>3, Zenon DEF U!AlreadyMigrated, U!At
    <2> QED BY <2>1, ForwardFields DEF DecidingStep, U!Installing, LauncherStays
  <1>4. CASE U!Answered(u) \/ U!NotInstalled(u)
    <2>1. /\ update[u].at \in {"decide", "fetch"} /\ U!End(u)
          /\ files' = files /\ alias' = alias /\ left' = left
      BY <1>4 DEF U!Answered, U!NotInstalled, U!At
    <2> QED BY <2>1, EndFields, IdleFields DEF DecidingStep, U!Installing
  <1>5. ASSUME NEW q \in U!Requests, U!Accepted(u, q) PROVE DecidingStep(u)
    <2>1. PICK r \in Runs : r = update[u]  BY DEF UpdateInv
    <2>2. PICK x : x = [r EXCEPT !.at = "fetch", !.ask = q]  OBVIOUS
    <2>3. /\ r.at = "decide" /\ U!Decision(r.current, q) = "update"
          /\ files' = files /\ alias' = alias /\ left' = left
          /\ update' = [update EXCEPT ![u] = x]
      BY <1>5, <2>1, <2>2, Zenon DEF U!Accepted, U!At
    <2>4. x.at = "fetch" /\ x.ask = q /\ x.current = r.current  BY <2>2 DEF Runs
    <2>5. Wanted(r.current, q)  BY <2>3 DEF U!Decision, Wanted
    <2>6. update'[u] = x /\ OthersStay(u)  BY <2>3, RunSet
    <2> QED BY <2>1, <2>3, <2>4, <2>5, <2>6 DEF DecidingStep, U!Installing
  <1> QED BY <1>1, <1>2, <1>3, <1>4, <1>5

LEMMA DecidingKeeps ==
  ASSUME InstallInv, UpdateInv', NEW u \in Launchers, DecidingStep(u) PROVE InstallInv'
  <1>0. /\ files' = files /\ alias' = alias /\ left' = left
        /\ \A v \in Launchers : v # u => update'[v] = update[v]
        /\ update[u].at \notin U!Installing
        /\ \/ update'[u].at = "idle"
           \/ /\ update'[u].at = "decide" /\ update'[u].current = files["launcher"]
              /\ files["launcher"] # 0 /\ ~Old(files["launcher"])
           \/ update'[u].at = "migrate" /\ alias # 0 /\ ~Old(alias)
           \/ /\ update'[u].at = "fetch" /\ update[u].at = "decide"
              /\ update'[u].current = update[u].current /\ Wanted(update'[u].current, update'[u].ask)
    BY DEF DecidingStep, OthersStay
  <1>1. update'[u].at \notin U!Installing  BY <1>0 DEF U!Installing
  <1>2. Excepted' BY <1>0, <1>1 DEF InstallInv, Excepted
  <1>3. Alone'  BY <1>0, <1>1 DEF InstallInv, Alone
  <1>4. Written'
    <2> SUFFICES ASSUME NEW v \in Launchers, update'[v].at \in U!Installing, update'[v].sound = TRUE
                 PROVE  WrittenBy(update[v])'
      BY DEF Written
    <2>1. v # u /\ update'[v] = update[v]  BY <1>0, <1>1
    <2>2. WrittenBy(update[v])  BY <2>1 DEF InstallInv, Written
    <2> QED BY <1>0, <2>1, <2>2 DEF WrittenBy
  <1>5. Entitled'
    <2> SUFFICES ASSUME NEW v \in Launchers
                 PROVE  /\ Decided(update'[v])
                        /\ update'[v].at \notin {"idle", "migrate", "copy"} => files'["launcher"] # 0
                        /\ update'[v].at \in {"migrate"} \cup Moving => alias' = 0 \/ ~Old(alias')
      BY DEF Entitled
    <2>1. /\ Decided(update[v])
          /\ update[v].at \notin {"idle", "migrate", "copy"} => files["launcher"] # 0
          /\ update[v].at \in {"migrate"} \cup Moving => alias = 0 \/ ~Old(alias)
      BY DEF InstallInv, Entitled
    <2>2. files["launcher"] \in Releases \cup {0}  BY DEF InstallInv, UpdateInv, U!UpdateTypeOK, U!Names
    <2>3. CASE v # u  BY <1>0, <2>1, <2>3
    <2>4. CASE v = u  BY <1>0, <2>1, <2>2, <2>4 DEF Decided, Before, Moving
    <2> QED BY <2>3, <2>4
  <1>6. FilesFit'
    <2>1. \A v \in Launchers : update'[v].at \notin Behind <=> update[v].at \notin Behind
      BY <1>0, <1>1 DEF Behind, U!Installing
    <2>2. \A q : Pending(q)' <=> Pending(q)
      BY <1>0, <1>1 DEF Pending, Before, U!Installing
    <2>3. Settled => Settled'
      BY <1>0, <2>2 DEF Settled
    <2> QED BY <1>0, <2>1, <2>3 DEF InstallInv, FilesFit
  <1>7. LauncherStays'  BY <1>0 DEF InstallInv, LauncherStays
  <1> QED BY <1>2, <1>3, <1>4, <1>5, <1>6, <1>7 DEF InstallInv

(* A run begins to replace files: Migrate and Verified.                    *)
EnterStep(u, s) ==
  /\ files' = files /\ alias' = alias
  /\ update[u].at \notin U!Installing
  /\ update'[u].at = s /\ update'[u].current = update[u].current
  /\ update'[u].sound = TRUE <=> ~U!Overlaps(u)
  /\ \A v \in Launchers : v # u =>
       /\ update'[v].at = update[v].at /\ update'[v].current = update[v].current
       /\ update'[v].ask = update[v].ask
       /\ update[v].at \in U!Installing => update'[v].sound = FALSE
  /\ left' = IF U!Overlaps(u) THEN U!Requests ELSE left
  /\ \/ /\ s = "copy" /\ update[u].at = "migrate" /\ alias # 0 /\ update'[u].ask.target = alias
     \/ /\ update[u].at = "fetch" /\ update'[u].ask = update[u].ask
        /\ \/ s = "license" /\ ~Old(update'[u].ask.target)
           \/ s = "launcher" /\ Old(update'[u].ask.target)

LEMMA EnterSteps ==
  ASSUME UpdateInv, NEW u \in Launchers, U!Migrate(u) \/ U!Verified(u)
  PROVE  \E s \in U!Installing : EnterStep(u, s)
  <1>1. CASE U!Migrate(u)
    <2>1. PICK q : q = [U!Nothing EXCEPT !.target = alias]  OBVIOUS
    <2>2. q.target = alias  BY <2>1 DEF U!Nothing
    <2>3. /\ update[u].at = "migrate" /\ alias # 0 /\ U!Enter(u, "copy", q)
          /\ files' = files /\ alias' = alias
      BY <1>1, <2>1, Zenon DEF U!Migrate, U!At
    <2>4. /\ update'[u].at = "copy" /\ update'[u].current = update[u].current /\ update'[u].ask = q
          /\ update'[u].sound = TRUE <=> ~U!Overlaps(u)
          /\ \A v \in Launchers : v # u =>
               /\ update'[v].at = update[v].at /\ update'[v].current = update[v].current
               /\ update'[v].ask = update[v].ask
               /\ update[v].at \in U!Installing => update'[v].sound = FALSE
          /\ left' = IF U!Overlaps(u) THEN U!Requests ELSE left
      BY <2>3, EnterFields
    <2>5. EnterStep(u, "copy")
      BY <2>2, <2>3, <2>4 DEF EnterStep, U!Installing
    <2> QED BY <2>5 DEF U!Installing
  <1>2. CASE U!Verified(u)
    <2>1. PICK s : s = U!FirstStep(U!Target(u))  OBVIOUS
    <2>2. /\ update[u].at = "fetch" /\ U!Enter(u, s, update[u].ask)
          /\ files' = files /\ alias' = alias
      BY <1>2, <2>1, Zenon DEF U!Verified, U!At
    <2>3. \/ s = "license" /\ ~Old(update[u].ask.target)
          \/ s = "launcher" /\ Old(update[u].ask.target)
      BY <2>1 DEF U!FirstStep, Old, U!Target
    <2>4. /\ update'[u].at = s /\ update'[u].current = update[u].current /\ update'[u].ask = update[u].ask
          /\ update'[u].sound = TRUE <=> ~U!Overlaps(u)
          /\ \A v \in Launchers : v # u =>
               /\ update'[v].at = update[v].at /\ update'[v].current = update[v].current
               /\ update'[v].ask = update[v].ask
               /\ update[v].at \in U!Installing => update'[v].sound = FALSE
          /\ left' = IF U!Overlaps(u) THEN U!Requests ELSE left
      BY <2>2, EnterFields
    <2>5. EnterStep(u, s)
      BY <2>2, <2>3, <2>4 DEF EnterStep, U!Installing
    <2> QED BY <2>3, <2>5 DEF U!Installing
  <1> QED BY <1>1, <1>2

LEMMA EnterKeepsAll ==
  ASSUME InstallInv, UpdateInv', NEW u \in Launchers, NEW s \in U!Installing, EnterStep(u, s) PROVE InstallInv'
  <1>0. /\ files' = files /\ alias' = alias
        /\ update[u].at \notin U!Installing
        /\ update'[u].at = s /\ update'[u].current = update[u].current
        /\ update'[u].sound = TRUE <=> ~U!Overlaps(u)
        /\ \A v \in Launchers : v # u =>
             /\ update'[v].at = update[v].at /\ update'[v].current = update[v].current
             /\ update'[v].ask = update[v].ask
             /\ update[v].at \in U!Installing => update'[v].sound = FALSE
        /\ left' = IF U!Overlaps(u) THEN U!Requests ELSE left
        /\ \/ /\ s = "copy" /\ update[u].at = "migrate" /\ alias # 0 /\ update'[u].ask.target = alias
           \/ /\ update[u].at = "fetch" /\ update'[u].ask = update[u].ask
              /\ \/ s = "license" /\ ~Old(update'[u].ask.target)
                 \/ s = "launcher" /\ Old(update'[u].ask.target)
    BY DEF EnterStep
  <1>1. U!Overlaps(u) <=> \/ \E v \in Launchers : v # u /\ update[v].at \in U!Installing
                          \/ update[u].at = "fetch" /\ update[u].current # files["launcher"]
    BY DEF U!Overlaps, U!OthersInstalling
  <1>2. Excepted'
    <2> SUFFICES ASSUME NEW v \in Launchers, update'[v].at \in U!Installing, update'[v].sound = FALSE
                 PROVE  left' = U!Requests
      BY DEF Excepted
    <2>1. CASE v = u  BY <1>0, <2>1
    <2>2. CASE v # u  BY <1>0, <1>1, <2>2
    <2> QED BY <2>1, <2>2
  <1>3. Alone'
    BY <1>0, <1>1 DEF Alone
  <1>4. Written'
    <2> SUFFICES ASSUME NEW v \in Launchers, update'[v].at \in U!Installing, update'[v].sound = TRUE
                 PROVE  WrittenBy(update[v])'
      BY DEF Written
    <2>1. v = u /\ ~U!Overlaps(u)  BY <1>0
    <2>2. update[u].at = "fetch" => update[u].current = files["launcher"]  BY <1>1, <2>1
    <2> QED BY <1>0, <2>1, <2>2 DEF WrittenBy, Before, Behind, Moving
  <1>5. Entitled'
    <2> SUFFICES ASSUME NEW v \in Launchers
                 PROVE  /\ Decided(update'[v])
                        /\ update'[v].at \notin {"idle", "migrate", "copy"} => files'["launcher"] # 0
                        /\ update'[v].at \in {"migrate"} \cup Moving => alias' = 0 \/ ~Old(alias')
      BY DEF Entitled
    <2>1. /\ Decided(update[v])
          /\ update[v].at \notin {"idle", "migrate", "copy"} => files["launcher"] # 0
          /\ update[v].at \in {"migrate"} \cup Moving => alias = 0 \/ ~Old(alias)
      BY DEF InstallInv, Entitled
    <2>3. CASE v # u  BY <1>0, <2>1, <2>3 DEF Decided
    <2>4. CASE v = u  BY <1>0, <2>1, <2>4 DEF Decided, Before, Moving
    <2> QED BY <2>3, <2>4
  <1>6. FilesFit'
    <2> SUFFICES ASSUME left' # U!Requests, \A v \in Launchers : update'[v].at \notin Behind
                 PROVE  Settled'
      BY DEF FilesFit
    <2>1. left' = left /\ ~U!Overlaps(u)  BY <1>0
    <2>2. \A v \in Launchers : update[v].at \notin Behind
      BY <1>0 DEF Behind, U!Installing
    <2>3. Settled  BY <2>1, <2>2 DEF InstallInv, FilesFit
    <2>4. \A q : Pending(q) => Pending(q)'
      BY <1>0, <2>1 DEF Pending, Before, U!Installing
    <2>5. \A q : Pending(q)' => Pending(q) \/ (update[u].at = "fetch" /\ q = update[u].ask)
      BY <1>0, <2>1 DEF Pending, Before
    <2>6. update[u].at = "fetch" =>
             /\ Wanted(files["launcher"], update[u].ask) /\ ~Old(files["launcher"])
             /\ files["launcher"] # 0
      BY <1>1, <2>1 DEF InstallInv, Entitled, Decided
    <2> QED BY <1>0, <2>3, <2>4, <2>5, <2>6 DEF Settled
  <1>7. LauncherStays'  BY <1>0 DEF InstallInv, LauncherStays
  <1> QED BY <1>2, <1>3, <1>4, <1>5, <1>6, <1>7 DEF InstallInv

(* A run replaces a file or the link, or stops in between.                 *)
WriteStep(u) ==
  /\ OthersStay(u) /\ update[u].at \in U!Installing
  /\ update'[u].at \in U!Installing =>
       /\ update'[u].current = update[u].current /\ update'[u].ask = update[u].ask
       /\ update'[u].sound = update[u].sound \/ (update'[u].sound = FALSE /\ left' = U!Requests)
  /\ update'[u].at \in Before => update[u].at \in Before
  /\ update'[u].at \in Moving => update[u].at \in Moving
  /\ \/ update'[u].at \in {"idle"} \cup U!Installing
     \/ /\ update'[u].at = "decide" /\ update'[u].current = files'["launcher"]
        /\ ~Old(files'["launcher"]) /\ update[u].at = "relink"
  /\ left = U!Requests => left' = U!Requests \/ update[u].sound = TRUE
  /\ files'["launcher"] = files["launcher"] \/ files'["launcher"] \in Releases
  /\ update[u].at = "copy" => update'[u].at = "idle" \/ files'["launcher"] \in Releases
  /\ alias' = alias \/ (alias' = 0 /\ update[u].at \in {"link", "relink"})

LEMMA WriteTarget ==
  ASSUME UpdateInv, NEW u \in Launchers, update[u].at \in U!Installing
  PROVE  /\ update[u].ask \in U!Requests /\ update[u].ask.target \in Releases
         /\ files["launcher"] \in Releases \cup {0} /\ alias \in Releases \cup {0}
         /\ files["daemon"] \in Releases \cup {0} /\ files["core"] \in Releases \cup {0}
         /\ files["license"] \in Releases \cup {0} /\ left \subseteq U!Requests
  <1>1. update[u].ask \in U!Requests  BY DEF UpdateInv, Named
  <1>2. update[u].ask.target \in Releases  BY <1>1 DEF U!Requests
  <1> QED BY <1>1, <1>2 DEF UpdateInv, U!UpdateTypeOK, U!Names

(* A run that is not disturbed is the only one that replaces files.        *)
LEMMA SoleFacts ==
  ASSUME InstallInv, NEW u \in Launchers, WriteStep(u), update[u].sound = TRUE
  PROVE  /\ WrittenBy(update[u])
         /\ \A v \in Launchers : v # u => update[v].at \notin U!Installing /\ update'[v] = update[v]
         /\ left # U!Requests /\ update[u].at \notin Behind => Settled
         /\ \A q : Pending(q) <=> q \in left \/ (update[u].at \in Before /\ update[u].ask = q)
         /\ \A q : Pending(q)' <=> q \in left' \/ (update'[u].at \in Before /\ update'[u].ask = q)
         /\ (\A v \in Launchers : update'[v].at \notin Behind) <=> update'[u].at \notin Behind
  <1>1. update[u].at \in U!Installing /\ \A v \in Launchers : v # u => update'[v] = update[v]
    BY DEF WriteStep, OthersStay
  <1>2. WrittenBy(update[u])  BY <1>1 DEF InstallInv, Written
  <1>3. \A v \in Launchers : v # u => update[v].at \notin U!Installing
    BY <1>1 DEF InstallInv, Alone
  <1>4. \A v \in Launchers : v # u => update[v].at \notin Before /\ update[v].at \notin Behind
    BY <1>3 DEF Before, Behind, U!Installing
  <1>5. left # U!Requests /\ update[u].at \notin Behind => Settled
    BY <1>4 DEF InstallInv, FilesFit
  <1>6. \A q : Pending(q) <=> q \in left \/ (update[u].at \in Before /\ update[u].ask = q)
    BY <1>4 DEF Pending
  <1>7. \A q : Pending(q)' <=> q \in left' \/ (update'[u].at \in Before /\ update'[u].ask = q)
    BY <1>1, <1>4 DEF Pending
  <1>8. (\A v \in Launchers : update'[v].at \notin Behind) <=> update'[u].at \notin Behind
    BY <1>1, <1>4
  <1> QED BY <1>1, <1>2, <1>3, <1>5, <1>6, <1>7, <1>8

LEMMA WriteKeeps ==
  ASSUME InstallInv, UpdateInv', NEW u \in Launchers, WriteStep(u), 0 \notin Releases,
         update[u].sound = TRUE =>
           /\ update'[u].at \in U!Installing /\ update'[u].sound = TRUE => WrittenBy(update[u])'
           /\ left' # U!Requests /\ update'[u].at \notin Behind => Settled'
  PROVE  InstallInv'
  <1>0. /\ update[u].at \in U!Installing
        /\ \A v \in Launchers : v # u => update'[v] = update[v]
        /\ update'[u].at \in U!Installing =>
             /\ update'[u].current = update[u].current /\ update'[u].ask = update[u].ask
             /\ update'[u].sound = update[u].sound \/ (update'[u].sound = FALSE /\ left' = U!Requests)
        /\ update'[u].at \in Before => update[u].at \in Before
        /\ update'[u].at \in Moving => update[u].at \in Moving
        /\ \/ update'[u].at \in {"idle"} \cup U!Installing
           \/ /\ update'[u].at = "decide" /\ update'[u].current = files'["launcher"]
              /\ ~Old(files'["launcher"]) /\ update[u].at = "relink"
        /\ left = U!Requests => left' = U!Requests \/ update[u].sound = TRUE
        /\ files'["launcher"] = files["launcher"] \/ files'["launcher"] \in Releases
        /\ update[u].at = "copy" => update'[u].at = "idle" \/ files'["launcher"] \in Releases
        /\ alias' = alias \/ (alias' = 0 /\ update[u].at \in {"link", "relink"})
    BY DEF WriteStep, OthersStay
  <1>a. update[u].sound = TRUE \/ update[u].sound = FALSE
    BY DEF InstallInv, UpdateInv, Runs
  <1>b. files["launcher"] # 0 => files'["launcher"] # 0  BY <1>0
  <1>c. \A v \in Launchers : update[v].at \in U!Installing /\ v # u =>
          update[v].sound = FALSE /\ update[u].sound = FALSE /\ left = U!Requests
    <2> TAKE v \in Launchers
    <2> HAVE update[v].at \in U!Installing /\ v # u
    <2>1. update[v].sound = TRUE \/ update[v].sound = FALSE  BY DEF InstallInv, UpdateInv, Runs
    <2> QED BY <1>0, <1>a, <2>1 DEF InstallInv, Alone, Excepted
  <1>2. Excepted'
    <2> SUFFICES ASSUME NEW v \in Launchers, update'[v].at \in U!Installing, update'[v].sound = FALSE
                 PROVE  left' = U!Requests
      BY DEF Excepted
    <2>1. CASE v = u
      <3>1. update[u].sound = FALSE => left = U!Requests  BY <1>0 DEF InstallInv, Excepted
      <3> QED BY <1>0, <1>a, <2>1, <3>1
    <2>2. CASE v # u  BY <1>0, <1>c, <2>2
    <2> QED BY <2>1, <2>2
  <1>3. Alone'
    <2> SUFFICES ASSUME NEW v \in Launchers, NEW w \in Launchers, update'[v].at \in U!Installing,
                        update'[v].sound = TRUE, update'[w].at \in U!Installing
                 PROVE  w = v
      BY DEF Alone
    <2> QED BY <1>0, <1>c
  <1>4. Written'
    <2> SUFFICES ASSUME NEW v \in Launchers, update'[v].at \in U!Installing, update'[v].sound = TRUE
                 PROVE  WrittenBy(update[v])'
      BY DEF Written
    <2>1. v = u  BY <1>0, <1>c
    <2>2. update[u].sound = TRUE  BY <1>0, <2>1
    <2> QED BY <2>1, <2>2
  <1>5. Entitled'
    <2> SUFFICES ASSUME NEW v \in Launchers
                 PROVE  /\ Decided(update'[v])
                        /\ update'[v].at \notin {"idle", "migrate", "copy"} => files'["launcher"] # 0
                        /\ update'[v].at \in {"migrate"} \cup Moving => alias' = 0 \/ ~Old(alias')
      BY DEF Entitled
    <2>1. /\ Decided(update[v])
          /\ update[v].at \notin {"idle", "migrate", "copy"} => files["launcher"] # 0
          /\ update[v].at \in {"migrate"} \cup Moving => alias = 0 \/ ~Old(alias)
      BY DEF InstallInv, Entitled
    <2>2. files'["launcher"] \in Releases \cup {0}  BY DEF UpdateInv, U!UpdateTypeOK, U!Names
    <2>3. CASE v # u  BY <1>0, <1>b, <2>1, <2>3
    <2>4. CASE v = u
      <3>1. Decided(update'[u])
        BY <1>0, <1>b, <2>1, <2>2, <2>4 DEF Decided, Before, U!Installing
      <3>2. update'[u].at \notin {"idle", "migrate", "copy"} => files'["launcher"] # 0
        BY <1>0, <1>b, <2>1, <2>2, <2>4 DEF Before, Moving, U!Installing
      <3>3. update'[u].at \in {"migrate"} \cup Moving => alias' = 0 \/ ~Old(alias')
        BY <1>0, <2>1, <2>4 DEF Moving, U!Installing
      <3> QED BY <2>4, <3>1, <3>2, <3>3
    <2> QED BY <2>3, <2>4
  <1>6. FilesFit'
    <2> SUFFICES ASSUME left' # U!Requests, \A v \in Launchers : update'[v].at \notin Behind
                 PROVE  Settled'
      BY DEF FilesFit
    <2>1. update[u].sound = FALSE => left = U!Requests  BY <1>0 DEF InstallInv, Excepted
    <2>2. update[u].sound = TRUE  BY <1>0, <1>a, <2>1
    <2> QED BY <2>2
  <1>7. LauncherStays'
    <2>1. update[u].at \in {"link", "relink"} => files["launcher"] # 0
      BY DEF InstallInv, Entitled
    <2> QED BY <1>0, <1>b, <2>1 DEF InstallInv, LauncherStays
  <1> QED BY <1>2, <1>3, <1>4, <1>5, <1>6, <1>7 DEF InstallInv

LEMMA MigrateLauncherKeeps ==
  ASSUME InstallInv, UpdateInv', 0 \notin Releases, NEW u \in Launchers, U!MigrateLauncher(u) PROVE InstallInv'
  <1>1. PICK t \in Releases : t = update[u].ask.target
    BY WriteTarget DEF U!MigrateLauncher, U!At, U!Installing, InstallInv
  <1>2. /\ files' = [files EXCEPT !["launcher"] = t] /\ alias' = alias /\ left' = left
        /\ U!Go(u, "relink") /\ update[u].at = "copy"
    BY <1>1 DEF U!MigrateLauncher, U!At, U!Target
  <1>3. /\ update'[u].at = "relink" /\ update'[u].current = update[u].current
        /\ update'[u].ask = update[u].ask /\ update'[u].sound = update[u].sound
        /\ OthersStay(u)
    BY <1>2, GoFields DEF InstallInv
  <1>4. /\ files'["launcher"] = t /\ files'["daemon"] = files["daemon"]
        /\ files'["core"] = files["core"] /\ files'["license"] = files["license"]
    BY <1>2 DEF InstallInv, UpdateInv, U!UpdateTypeOK, U!Names
  <1>5. WriteStep(u)
    BY <1>2, <1>3, <1>4 DEF WriteStep, U!Installing, Before, Moving
  <1>6. ASSUME update[u].sound = TRUE
        PROVE  /\ WrittenBy(update[u])'
               /\ left' # U!Requests => Settled'
    <2>1. WrittenBy(update[u]) /\ (left # U!Requests => Settled)
      BY <1>2, <1>5, <1>6, SoleFacts DEF Behind
    <2>2. \A q : Pending(q)' <=> Pending(q)
      BY <1>2, <1>3, <1>5, <1>6, SoleFacts DEF Before
    <2>3. alias = t  BY <1>1, <1>2, <2>1 DEF WrittenBy, Moving
    <2>4. ~Old(t)  BY <1>2, <2>3 DEF InstallInv, Entitled, Moving
    <2>5. WrittenBy(update[u])'
      BY <1>1, <1>2, <1>3, <1>4, <2>3 DEF WrittenBy, Before, Behind, Moving
    <2>6. left' # U!Requests => Settled'
      BY <1>2, <1>4, <2>1, <2>2, <2>3, <2>4 DEF Settled
    <2> QED BY <2>5, <2>6
  <1> QED BY <1>5, <1>6, WriteKeeps

LEMMA MigrateAliasKeeps ==
  ASSUME InstallInv, UpdateInv', 0 \notin Releases, NEW u \in Launchers, U!MigrateAlias(u) PROVE InstallInv'
  <1>1. files' = files /\ alias' = 0 /\ left' = left /\ U!Forward(u) /\ update[u].at = "relink"
    BY DEF U!MigrateAlias, U!At
  <1>2. /\ OthersStay(u)
        /\ \/ update'[u].at = "idle"
           \/ /\ update'[u].at = "decide" /\ update'[u].current = files["launcher"]
              /\ ~Old(files["launcher"])
    BY <1>1, ForwardFields DEF InstallInv
  <1>3. WriteStep(u)
    BY <1>1, <1>2 DEF WriteStep, U!Installing, Before, Moving
  <1>4. files["launcher"] # 0  BY <1>1 DEF InstallInv, Entitled
  <1>5. ASSUME update[u].sound = TRUE PROVE left' # U!Requests => Settled'
    <2>1. left # U!Requests => Settled
      BY <1>1, <1>3, <1>5, SoleFacts DEF Behind
    <2>2. \A q : Pending(q)' <=> Pending(q)
      BY <1>1, <1>2, <1>3, <1>5, SoleFacts DEF Before
    <2> QED BY <1>1, <1>4, <2>1, <2>2 DEF Settled
  <1>6. update'[u].at \notin U!Installing  BY <1>2 DEF U!Installing
  <1> QED BY <1>3, <1>5, <1>6, WriteKeeps

(* The replacements follow one another; only the last ends the run.        *)
LEMMA AdvanceFields ==
  ASSUME UpdateInv, NEW u \in Launchers, NEW s, update[u].at = s,
         s \in Before \cup Behind, U!Advance(u, s)
  PROVE  /\ OthersStay(u)
         /\ s = "license" => update'[u].at = "core"
         /\ s = "core" => update'[u].at = "launcher"
         /\ s = "launcher" => update'[u].at = "daemon"
         /\ s = "daemon" => update'[u].at = "link"
         /\ s = "link" => update'[u].at = IF Old(update[u].ask.target) THEN "stale core" ELSE "idle"
         /\ s = "stale core" => update'[u].at = "stale license"
         /\ s = "stale license" => update'[u].at = "idle"
         /\ update'[u].at # "idle" =>
              /\ update'[u].current = update[u].current /\ update'[u].ask = update[u].ask
              /\ update'[u].sound = update[u].sound
              /\ left' = left
         /\ update'[u].at = "idle" => left' = IF update[u].sound THEN {} ELSE left
  <1>1. PICK n : n = U!Following(s, U!Target(u))  OBVIOUS
  <1>2. IF n = "done" THEN U!End(u) /\ left' = IF update[u].sound THEN {} ELSE left
        ELSE U!Go(u, n) /\ left' = left
    BY <1>1, Zenon DEF U!Advance
  <1>3. /\ s = "license" => n = "core"
        /\ s = "core" => n = "launcher"
        /\ s = "launcher" => n = "daemon"
        /\ s = "daemon" => n = "link"
        /\ s = "link" => n = IF Old(update[u].ask.target) THEN "stale core" ELSE "done"
        /\ s = "stale core" => n = "stale license"
        /\ s = "stale license" => n = "done"
    BY <1>1 DEF U!Following, U!Target, Old
  <1>4. CASE n = "done"
    <2>1. update'[u] = U!Idle /\ OthersStay(u) /\ left' = IF update[u].sound THEN {} ELSE left
      BY <1>2, <1>4, EndFields
    <2> QED BY <1>3, <1>4, <2>1, IdleFields
  <1>5. CASE n # "done"
    <2>1. /\ update'[u].at = n /\ update'[u].current = update[u].current
          /\ update'[u].ask = update[u].ask /\ update'[u].sound = update[u].sound
          /\ OthersStay(u) /\ left' = left
      BY <1>2, <1>5, GoFields
    <2>2. n # "idle"  BY <1>3, <1>5 DEF Before, Behind
    <2> QED BY <1>3, <1>5, <2>1, <2>2
  <1> QED BY <1>4, <1>5

LEMMA ReplaceKeeps ==
  ASSUME InstallInv, UpdateInv', 0 \notin Releases, NEW u \in Launchers, NEW n \in U!Names, U!Replace(u, n)
  PROVE  InstallInv'
  <1>0. update[u].at = n /\ U!Advance(u, n)  BY DEF U!Replace, U!At
  <1>1. PICK t \in Releases : t = update[u].ask.target
    BY <1>0, WriteTarget DEF U!Names, U!Installing, InstallInv
  <1>2. files' = [files EXCEPT ![n] = t] /\ alias' = alias
    BY <1>1 DEF U!Replace, U!Target
  <1>3. n \in Before \cup Behind  BY DEF U!Names, Before, Behind
  <1>4. /\ OthersStay(u) /\ left' = left
        /\ n = "license" => update'[u].at = "core"
        /\ n = "core" => update'[u].at = "launcher"
        /\ n = "launcher" => update'[u].at = "daemon"
        /\ n = "daemon" => update'[u].at = "link"
        /\ update'[u].current = update[u].current /\ update'[u].ask = update[u].ask
        /\ update'[u].sound = update[u].sound
    BY <1>0, <1>3, AdvanceFields DEF InstallInv, U!Names
  <1>5. \A m \in U!Names : files'[m] = IF m = n THEN t ELSE files[m]
    BY <1>2 DEF InstallInv, UpdateInv, U!UpdateTypeOK
  <1>6. WriteStep(u)
    BY <1>0, <1>1, <1>2, <1>4, <1>5 DEF WriteStep, U!Installing, Before, Moving, U!Names
  <1>7. ASSUME update[u].sound = TRUE
        PROVE  /\ WrittenBy(update[u])'
               /\ left' # U!Requests /\ update'[u].at \notin Behind => Settled'
    <2>1. WrittenBy(update[u]) /\ (left # U!Requests /\ update[u].at \notin Behind => Settled)
      BY <1>6, <1>7, SoleFacts
    <2>2. WrittenBy(update[u])'
      BY <1>0, <1>1, <1>2, <1>4, <1>5, <2>1 DEF WrittenBy, Before, Behind, Moving, U!Names
    <2>3. ASSUME left' # U!Requests, update'[u].at \notin Behind PROVE Settled'
      <3>1. n \in {"license", "core"}  BY <1>4, <2>3 DEF U!Names, Behind
      <3>2. Settled  BY <1>0, <1>4, <2>1, <2>3, <3>1 DEF Behind
      <3>3. \A q : Pending(q)' <=> Pending(q)
        BY <1>0, <1>4, <1>6, <1>7, <3>1, SoleFacts DEF Before
      <3>4. update[u].ask \in U!Requests /\ Pending(update[u].ask)
        BY <1>0, <3>1, WriteTarget DEF Pending, Before, U!Installing, InstallInv
      <3>5. files["launcher"] # 0  BY <1>0, <3>1 DEF InstallInv, Entitled
      <3>6. n = "core" => files["license"] = t
        BY <1>0, <1>1, <2>1 DEF WrittenBy
      <3> QED BY <1>1, <1>2, <1>5, <3>1, <3>2, <3>3, <3>4, <3>5, <3>6 DEF Settled, U!Names
    <2> QED BY <2>2, <2>3
  <1> QED BY <1>6, <1>7, WriteKeeps

LEMMA InstallAliasKeeps ==
  ASSUME InstallInv, UpdateInv', 0 \notin Releases, NEW u \in Launchers, U!InstallAlias(u) PROVE InstallInv'
  <1>1. /\ update[u].at = "link" /\ U!Advance(u, "link") /\ alias' = 0 /\ files' = files
    BY DEF U!InstallAlias, U!At
  <1>2. /\ OthersStay(u)
        /\ update'[u].at = IF Old(update[u].ask.target) THEN "stale core" ELSE "idle"
        /\ update'[u].at # "idle" =>
             /\ update'[u].current = update[u].current /\ update'[u].ask = update[u].ask
             /\ update'[u].sound = update[u].sound
             /\ left' = left
        /\ update'[u].at = "idle" => left' = IF update[u].sound THEN {} ELSE left
    BY <1>1, AdvanceFields DEF InstallInv, Behind
  <1>3. left = U!Requests => left' = U!Requests \/ update[u].sound = TRUE
    <2>1. update[u].sound = TRUE \/ update[u].sound = FALSE  BY DEF InstallInv, UpdateInv, Runs
    <2> QED BY <1>2, <2>1
  <1>4. WriteStep(u)
    BY <1>1, <1>2, <1>3 DEF WriteStep, U!Installing, Before, Moving
  <1>5. ASSUME update[u].sound = TRUE
        PROVE  /\ update'[u].at \in U!Installing => WrittenBy(update[u])'
               /\ update'[u].at \notin Behind => Settled'
    <2>1. PICK t \in Releases : t = update[u].ask.target
      BY <1>1, WriteTarget DEF U!Installing, InstallInv
    <2>2. /\ ~Old(t) => files["license"] = t /\ files["core"] = t
          /\ files["launcher"] = t /\ files["daemon"] = t
      BY <1>1, <1>4, <1>5, <2>1, SoleFacts DEF WrittenBy, Behind
    <2>3. update'[u].at \in U!Installing => WrittenBy(update[u])'
      BY <1>1, <1>2, <2>1, <2>2 DEF WrittenBy, Before, Behind, Moving, U!Installing
    <2>4. ASSUME update'[u].at \notin Behind PROVE Settled'
      <3>1. update'[u].at = "idle" /\ ~Old(t) /\ left' = {}
        BY <1>2, <1>5, <2>1, <2>4 DEF Behind
      <3>2. \A q : ~Pending(q)'
        BY <1>4, <1>5, <3>1, SoleFacts DEF Before
      <3> QED BY <1>1, <2>1, <2>2, <3>1, <3>2 DEF Settled
    <2> QED BY <2>3, <2>4
  <1> QED BY <1>4, <1>5, WriteKeeps

LEMMA RemoveStaleKeeps ==
  ASSUME InstallInv, UpdateInv', 0 \notin Releases, NEW u \in Launchers, U!RemoveStale(u) PROVE InstallInv'
  <1>1. CASE update[u].at = "stale core"
    <2>1. files' = [files EXCEPT !["core"] = 0] /\ U!Advance(u, "stale core") /\ alias' = alias
      BY <1>1 DEF U!RemoveStale, U!At
    <2>2. /\ OthersStay(u) /\ update'[u].at = "stale license"
          /\ update'[u].current = update[u].current /\ update'[u].ask = update[u].ask
          /\ update'[u].sound = update[u].sound /\ left' = left
      BY <1>1, <2>1, AdvanceFields DEF InstallInv, Behind
    <2>3. /\ files'["core"] = 0 /\ files'["launcher"] = files["launcher"]
          /\ files'["daemon"] = files["daemon"] /\ files'["license"] = files["license"]
      BY <2>1 DEF InstallInv, UpdateInv, U!UpdateTypeOK, U!Names
    <2>4. WriteStep(u)
      BY <1>1, <2>1, <2>2, <2>3 DEF WriteStep, U!Installing, Before, Moving
    <2>5. update[u].sound = TRUE => WrittenBy(update[u])'
      <3>1. HAVE update[u].sound = TRUE
      <3>2. WrittenBy(update[u])  BY <2>4, <3>1, SoleFacts
      <3> QED BY <1>1, <2>1, <2>2, <2>3, <3>2 DEF WrittenBy, Before, Behind, Moving
    <2>6. update'[u].at \in Behind  BY <2>2 DEF Behind
    <2> QED BY <2>4, <2>5, <2>6, WriteKeeps
  <1>2. CASE update[u].at # "stale core"
    <2>1. /\ files' = [files EXCEPT !["license"] = 0] /\ U!Advance(u, "stale license") /\ alias' = alias
          /\ update[u].at = "stale license"
      BY <1>2 DEF U!RemoveStale, U!At
    <2>2. /\ OthersStay(u) /\ update'[u].at = "idle"
          /\ left' = IF update[u].sound THEN {} ELSE left
      BY <2>1, AdvanceFields DEF InstallInv, Behind
    <2>3. /\ files'["core"] = files["core"] /\ files'["launcher"] = files["launcher"]
          /\ files'["daemon"] = files["daemon"] /\ files'["license"] = 0
      BY <2>1 DEF InstallInv, UpdateInv, U!UpdateTypeOK, U!Names
    <2>4. left = U!Requests => left' = U!Requests \/ update[u].sound = TRUE
      <3>1. update[u].sound = TRUE \/ update[u].sound = FALSE  BY DEF InstallInv, UpdateInv, Runs
      <3> QED BY <2>2, <3>1
    <2>5. WriteStep(u)
      BY <2>1, <2>2, <2>3, <2>4 DEF WriteStep, U!Installing, Before, Moving
    <2>6. update[u].sound = TRUE => Settled'
      <3>1. HAVE update[u].sound = TRUE
      <3>2. PICK t \in Releases : t = update[u].ask.target
        BY <2>1, WriteTarget DEF U!Installing, InstallInv
      <3>3. /\ files["launcher"] = t /\ files["daemon"] = t /\ files["core"] = 0 /\ alias = 0
        BY <2>1, <2>5, <3>1, <3>2, SoleFacts DEF WrittenBy, Behind
      <3>4. \A q : ~Pending(q)'
        BY <2>2, <2>5, <3>1, SoleFacts DEF Before
      <3> QED BY <2>1, <2>3, <3>2, <3>3, <3>4 DEF Settled
    <2>7. update'[u].at \notin U!Installing  BY <2>2 DEF U!Installing
    <2> QED BY <2>5, <2>6, <2>7, WriteKeeps
  <1> QED BY <1>1, <1>2

LEMMA RemoveFailsKeeps ==
  ASSUME InstallInv, UpdateInv', 0 \notin Releases, NEW u \in Launchers, U!RemoveFails(u) PROVE InstallInv'
  <1>1. PICK r \in Runs : r = update[u]  BY DEF InstallInv, UpdateInv
  <1>2. PICK x : x = [r EXCEPT !.at = "stale license", !.sound = FALSE]  OBVIOUS
  <1>3. /\ files' = files /\ alias' = alias /\ left' = U!Requests
        /\ r.at \in {"stale core", "stale license"}
        /\ update' = [update EXCEPT ![u] = x] \/ U!End(u)
    BY <1>1, <1>2, Zenon DEF U!RemoveFails
  <1>4. x.at = "stale license" /\ x.sound = FALSE /\ x.current = r.current /\ x.ask = r.ask
    BY <1>2 DEF Runs
  <1>5. OthersStay(u) /\ (update'[u] = x \/ update'[u].at = "idle")
    BY <1>3, RunSet, EndFields, IdleFields DEF InstallInv
  <1>6. WriteStep(u)
    BY <1>1, <1>3, <1>4, <1>5 DEF WriteStep, U!Installing, Before, Moving
  <1>7. update'[u].at \in U!Installing => update'[u].sound = FALSE
    BY <1>4, <1>5 DEF U!Installing
  <1> QED BY <1>3, <1>6, <1>7, WriteKeeps

LEMMA CutOffKeeps ==
  ASSUME InstallInv, UpdateInv', 0 \notin Releases, NEW u \in Launchers, U!CutOff(u) PROVE InstallInv'
  <1>1. /\ files' = files /\ alias' = alias /\ U!End(u) /\ update[u].at \in U!Installing
        /\ update[u].at \in Before => left' = left \cup {update[u].ask}
        /\ update[u].at \in Moving => left' = left
        /\ update[u].at \in Behind => left' = U!Requests
    BY DEF U!CutOff, Before, Moving, Behind
  <1>2. OthersStay(u) /\ update'[u].at = "idle"  BY <1>1, EndFields, IdleFields DEF InstallInv
  <1>3. update[u].ask \in U!Requests  BY <1>1, WriteTarget DEF InstallInv
  <1>4. update[u].at \in Before \cup Moving \cup Behind
    BY <1>1 DEF Before, Moving, Behind, U!Installing
  <1>5. WriteStep(u)
    BY <1>1, <1>2, <1>3, <1>4 DEF WriteStep, U!Installing, Before, Moving
  <1>6. ASSUME update[u].sound = TRUE, left' # U!Requests PROVE Settled'
    <2>1. update[u].at \in Before \cup Moving /\ update[u].at \notin Behind
      BY <1>1, <1>4, <1>6 DEF Before, Moving, Behind
    <2>2. left # U!Requests  BY <1>1, <1>3, <1>6, <2>1
    <2>3. Settled  BY <1>5, <1>6, <2>1, <2>2, SoleFacts
    <2>4. \A q : Pending(q)' <=> Pending(q)
      <3>1. \A q : Pending(q)' <=> q \in left'
        BY <1>2, <1>5, <1>6, SoleFacts DEF Before
      <3>2. \A q : Pending(q) <=> q \in left \/ (update[u].at \in Before /\ update[u].ask = q)
        BY <1>5, <1>6, SoleFacts
      <3> QED BY <1>1, <2>1, <3>1, <3>2 DEF Before, Moving
    <2> QED BY <1>1, <2>3, <2>4 DEF Settled
  <1>7. update'[u].at \notin U!Installing  BY <1>2 DEF U!Installing
  <1> QED BY <1>5, <1>6, <1>7, WriteKeeps

LEMMA OldUpdateKeeps ==
  ASSUME InstallInv, UpdateInv', 0 \notin Releases, U!OldUpdate PROVE InstallInv'
  <1>1. /\ \A u \in Launchers : update[u].at = "idle"
        /\ update' = update /\ left' = left
    BY DEF U!OldUpdate, U!At
  <1>2. PICK r \in Releases :
          \/ /\ alias # 0 /\ files["launcher"] = 0
             /\ alias' = r /\ files' = [files EXCEPT !["daemon"] = r]
          \/ /\ files["launcher"] # 0 /\ Old(files["launcher"])
             /\ files' = [files EXCEPT !["daemon"] = r, !["launcher"] = r] /\ alias' = alias
    BY DEF U!OldUpdate, Old
  <1>3. /\ files'["daemon"] = r /\ files'["core"] = files["core"] /\ files'["license"] = files["license"]
        /\ files["launcher"] = 0 => files'["launcher"] = 0 /\ alias' = r
        /\ files["launcher"] # 0 => files'["launcher"] = r /\ Old(files["launcher"]) /\ alias' = alias
    BY <1>2 DEF InstallInv, UpdateInv, U!UpdateTypeOK, U!Names
  <1>4. \A u \in Launchers : update[u].at \notin U!Installing /\ update[u].at \notin Behind
    BY <1>1 DEF U!Installing, Behind
  <1>5. Excepted' /\ Alone' /\ Written'
    BY <1>1, <1>4 DEF Excepted, Alone, Written
  <1>6. Entitled'
    BY <1>1 DEF Entitled, Decided, Before, Moving
  <1>7. FilesFit'
    <2> SUFFICES ASSUME left # U!Requests PROVE Settled'
      BY <1>1 DEF FilesFit
    <2>1. Settled  BY <1>4 DEF InstallInv, FilesFit
    <2>2. \A q : Pending(q)' <=> Pending(q)  BY <1>1 DEF Pending
    <2>3. CASE files["launcher"] = 0
      BY <1>3, <2>1, <2>2, <2>3 DEF Settled
    <2>4. CASE files["launcher"] # 0
      <3>1. \A q \in U!Requests : ~Pending(q)  BY <1>3, <2>1, <2>4 DEF Settled
      <3>2. files["core"] = 0 /\ files["license"] = 0 /\ alias = 0
        BY <1>3, <2>1, <2>4, <3>1 DEF Settled
      <3> QED BY <1>3, <2>2, <2>4, <3>1, <3>2 DEF Settled
    <2> QED BY <2>3, <2>4
  <1>8. LauncherStays'  BY <1>3 DEF LauncherStays
  <1> QED BY <1>5, <1>6, <1>7, <1>8 DEF InstallInv

LEMMA InstallInit == ASSUME U!Init, 0 \notin Releases PROVE InstallInv
  <1>1. UpdateInv  BY UpdateInit
  <1>2. update = [u \in Launchers |-> U!Idle] /\ left = {}  BY DEF U!Init
  <1>3. \A u \in Launchers : update[u].at = "idle"  BY <1>2, IdleFields
  <1>4. \A r \in Releases : /\ U!Whole(r) \in [U!Names -> Releases \cup {0}]
                            /\ U!Whole(r)["launcher"] = r /\ U!Whole(r)["daemon"] = r
                            /\ U!Whole(r)["core"] = IF Old(r) THEN 0 ELSE r
                            /\ U!Whole(r)["license"] = IF Old(r) THEN 0 ELSE r
    BY DEF U!Whole, U!Names, Old
  <1>5. PICK r \in Releases :
          \/ files = U!Whole(r) /\ alias = 0
          \/ Old(r) /\ files = [U!Whole(r) EXCEPT !["launcher"] = 0] /\ alias = r
    BY DEF U!Init, Old
  <1>6. PICK f \in [U!Names -> Releases \cup {0}] : f = U!Whole(r)  BY <1>4
  <1>7. CASE files = f /\ alias = 0
    <2>1. /\ files["launcher"] = r /\ files["daemon"] = r /\ alias = 0
          /\ files["core"] = IF Old(r) THEN 0 ELSE r
          /\ files["license"] = IF Old(r) THEN 0 ELSE r
      BY <1>4, <1>6, <1>7
    <2>2. \A q : ~Pending(q)  BY <1>2, <1>3 DEF Pending, Before
    <2>3. Settled  BY <2>1, <2>2 DEF Settled
    <2>4. Excepted /\ Alone /\ Written /\ LauncherStays
      BY <1>3, <2>1 DEF Excepted, Alone, Written, LauncherStays, U!Installing
    <2>5. Entitled  BY <1>3 DEF Entitled, Decided, Before, Moving
    <2> QED BY <1>1, <2>3, <2>4, <2>5 DEF InstallInv, FilesFit
  <1>8. CASE Old(r) /\ files = [f EXCEPT !["launcher"] = 0] /\ alias = r
    <2>1. /\ files["launcher"] = 0 /\ files["daemon"] = r /\ alias = r
          /\ files["core"] = 0 /\ files["license"] = 0
      BY <1>4, <1>6, <1>8 DEF U!Names
    <2>2. \A q : ~Pending(q)  BY <1>2, <1>3 DEF Pending, Before
    <2>3. Settled  BY <2>1, <2>2 DEF Settled
    <2>4. Excepted /\ Alone /\ Written /\ LauncherStays
      BY <1>3, <2>1 DEF Excepted, Alone, Written, LauncherStays, U!Installing
    <2>5. Entitled  BY <1>3 DEF Entitled, Decided, Before, Moving
    <2> QED BY <1>1, <2>3, <2>4, <2>5 DEF InstallInv, FilesFit
  <1> QED BY <1>5, <1>6, <1>7, <1>8

LEMMA InstallStep == ASSUME InstallInv, U!UpdateNext, 0 \notin Releases PROVE InstallInv'
  <1>0. UpdateInv'  BY UpdateStep DEF InstallInv
  <1>1. CASE U!OldUpdate  BY <1>0, <1>1, OldUpdateKeeps
  <1>2. ASSUME NEW u \in Launchers,
               \/ U!Start(u) \/ U!StartLegacy(u) \/ U!AlreadyMigrated(u) \/ U!Answered(u) \/ U!NotInstalled(u)
               \/ \E q \in U!Requests : U!Accepted(u, q)
        PROVE  InstallInv'
    <2>1. DecidingStep(u)  BY <1>2, DecidingSteps DEF InstallInv
    <2> QED BY <1>0, <2>1, DecidingKeeps
  <1>3. ASSUME NEW u \in Launchers, U!Migrate(u) \/ U!Verified(u) PROVE InstallInv'
    <2>1. PICK s \in U!Installing : EnterStep(u, s)  BY <1>3, EnterSteps DEF InstallInv
    <2> QED BY <1>0, <2>1, EnterKeepsAll
  <1>4. ASSUME NEW u \in Launchers,
               \/ U!MigrateLauncher(u) \/ U!MigrateAlias(u)
               \/ \E n \in U!Names : U!Replace(u, n)
               \/ U!InstallAlias(u) \/ U!RemoveStale(u) \/ U!RemoveFails(u) \/ U!CutOff(u)
        PROVE  InstallInv'
    BY <1>0, <1>4, MigrateLauncherKeeps, MigrateAliasKeeps, ReplaceKeeps, InstallAliasKeeps,
       RemoveStaleKeeps, RemoveFailsKeeps, CutOffKeeps
  <1> QED BY <1>1, <1>2, <1>3, <1>4 DEF U!UpdateNext

LEMMA InstallIdles ==
  ASSUME InstallInv, UNCHANGED installVars PROVE InstallInv'
  <1>1. files' = files /\ alias' = alias /\ update' = update /\ left' = left
    BY DEF installVars
  <1>2. UpdateInv'  BY <1>1 DEF InstallInv, UpdateInv, U!UpdateTypeOK
  <1>3. Excepted' /\ Alone' /\ Written'
    BY <1>1 DEF InstallInv, Excepted, Alone, Written, WrittenBy
  <1>4. Entitled' /\ LauncherStays'
    BY <1>1 DEF InstallInv, Entitled, LauncherStays
  <1>5. FilesFit'
    BY <1>1 DEF InstallInv, FilesFit, Settled, Pending
  <1> QED BY <1>2, <1>3, <1>4, <1>5 DEF InstallInv

LEMMA InstallInvariant == ASSUME 0 \notin Releases PROVE HostSpec => []InstallInv
  <1>1. HostInit => InstallInv  BY InstallInit DEF HostInit
  <1>2. ASSUME InstallInv, [HostNext]_allVars PROVE InstallInv'
    <2>1. CASE U!UpdateNext  BY <2>1, <1>2, InstallStep
    <2>2. CASE UNCHANGED installVars  BY <1>2, <2>2, InstallIdles
    <2> QED BY <1>2, <2>1, <2>2 DEF HostNext, allVars
  <1> QED BY <1>1, <1>2, PTL DEF HostSpec

(* Some other request than the one that is made is not excepted.           *)
LEMMA MoreThanOne ==
  ASSUME NEW q \in U!Requests PROVE U!Requests # {q} /\ ~(U!Requests \subseteq {q})
  <1>1. PICK i \in {"latest", "explicit"} : i # q.intent  OBVIOUS
  <1>2. PICK x : x = [target |-> q.target, intent |-> i]  OBVIOUS
  <1>3. x \in U!Requests /\ x # q  BY <1>1, <1>2 DEF U!Requests
  <1> QED BY <1>3

LEMMA LatestHolds == ASSUME InstallInv PROVE U!LatestIsWhole
  <1> SUFFICES ASSUME NEW u \in Launchers, NEW q \in U!Requests,
                      update[u].at = "decide", U!Decision(update[u].current, q) = "latest",
                      left \subseteq {q}, ~U!OthersInstalling(u),
                      update[u].current = files["launcher"]
               PROVE  files = U!Whole(files["launcher"])
    BY DEF U!LatestIsWhole, U!At
  <1> DEFINE l == files["launcher"]
  <1>1. files["core"] # 0 /\ ~U!Available(l, q)  BY DEF U!Decision
  <1>2. \A v \in Launchers : update[v].at \notin U!Installing
    BY DEF U!OthersInstalling, U!Installing
  <1>3. \A v \in Launchers : update[v].at \notin Behind /\ update[v].at \notin Before
    BY <1>2 DEF Behind, Before, U!Installing
  <1>4. left # U!Requests  BY MoreThanOne
  <1>5. Settled  BY <1>3, <1>4 DEF InstallInv, FilesFit
  <1>6. l # 0 /\ ~Old(l)
    BY DEF InstallInv, Entitled, Decided
  <1>7. \A p : Pending(p) => p = q  BY <1>3 DEF Pending
  <1>8. Pending(q) => q.target = l  BY <1>1, <1>5, <1>6 DEF Settled, Wanted
  <1>9. \A n \in {"core", "license"} : files[n] = 0 \/ files[n] = l
    BY <1>5, <1>6, <1>7, <1>8 DEF Settled
  <1>10. files["daemon"] = l /\ files["core"] = l /\ files["license"] = l
    BY <1>1, <1>5, <1>6, <1>9 DEF Settled
  <1>11. files = [n \in U!Names |-> files[n]]
    BY DEF InstallInv, UpdateInv, U!UpdateTypeOK
  <1> QED BY <1>6, <1>10, <1>11 DEF U!Whole, U!Names, Old

LEMMA SuccessStep ==
  ASSUME InstallInv, UpdateInv', 0 \notin Releases, U!UpdateNext PROVE U!SuccessIsWhole
  <1> SUFFICES ASSUME NEW u \in Launchers, update[u].at \in Behind, update'[u].at = "idle"
               PROVE  left' = U!Requests \/ (files' = U!Whole(files'["launcher"]) /\ alias' = 0)
    BY DEF U!SuccessIsWhole, U!Consistent, Behind
  <1>0. update[u].at \in U!Installing /\ update[u].at # "idle"  BY DEF Behind, U!Installing
  <1>t. PICK t \in Releases : t = update[u].ask.target  BY <1>0, WriteTarget DEF InstallInv
  <1>a. update[u].sound = TRUE \/ (update[u].sound = FALSE /\ left = U!Requests)
    BY <1>0 DEF InstallInv, UpdateInv, Runs, Excepted
  <1>w. update[u].sound = TRUE => WrittenBy(update[u])  BY <1>0 DEF InstallInv, Written
  <1>f. files' = [n \in U!Names |-> files'[n]]
    BY DEF UpdateInv, U!UpdateTypeOK
  <1>1. CASE U!OldUpdate  BY <1>0, <1>1 DEF U!OldUpdate
  <1>2. ASSUME NEW v \in Launchers,
               \/ U!Start(v) \/ U!StartLegacy(v) \/ U!AlreadyMigrated(v) \/ U!Answered(v) \/ U!NotInstalled(v)
               \/ \E q \in U!Requests : U!Accepted(v, q)
        PROVE  FALSE
    <2>1. DecidingStep(v)  BY <1>2, DecidingSteps DEF InstallInv
    <2> QED BY <1>0, <2>1 DEF DecidingStep, OthersStay
  <1>3. ASSUME NEW v \in Launchers, U!Migrate(v) \/ U!Verified(v) PROVE FALSE
    <2>1. PICK s \in U!Installing : EnterStep(v, s)  BY <1>3, EnterSteps DEF InstallInv
    <2> QED BY <1>0, <2>1 DEF EnterStep, U!Installing
  <1>4. ASSUME NEW v \in Launchers, U!MigrateLauncher(v) PROVE FALSE
    <2>1. U!Go(v, "relink") /\ update[v].at = "copy"  BY <1>4 DEF U!MigrateLauncher, U!At
    <2> QED BY <1>0, <2>1, GoFields DEF OthersStay, InstallInv
  <1>5. ASSUME NEW v \in Launchers, U!MigrateAlias(v) PROVE FALSE
    <2>1. U!Forward(v) /\ update[v].at = "relink"  BY <1>5 DEF U!MigrateAlias, U!At
    <2> QED BY <1>0, <2>1, ForwardFields DEF OthersStay, InstallInv, Behind
  <1>6. ASSUME NEW v \in Launchers, NEW n \in U!Names, U!Replace(v, n) PROVE FALSE
    <2>1. update[v].at = n /\ U!Advance(v, n) /\ n \in Before \cup Behind
      BY <1>6 DEF U!Replace, U!At, U!Names, Before, Behind
    <2>2. OthersStay(v) /\ update'[v].at # "idle"
      BY <2>1, AdvanceFields DEF InstallInv, U!Names
    <2> QED BY <1>0, <2>2 DEF OthersStay
  <1>7. ASSUME NEW v \in Launchers, U!InstallAlias(v)
        PROVE  left' = U!Requests \/ (files' = U!Whole(files'["launcher"]) /\ alias' = 0)
    <2>1. update[v].at = "link" /\ U!Advance(v, "link") /\ alias' = 0 /\ files' = files
      BY <1>7 DEF U!InstallAlias, U!At
    <2>2. /\ OthersStay(v)
          /\ update'[v].at = IF Old(update[v].ask.target) THEN "stale core" ELSE "idle"
          /\ update'[v].at = "idle" => left' = IF update[v].sound THEN {} ELSE left
      BY <2>1, AdvanceFields DEF InstallInv, Behind
    <2>3. v = u  BY <1>0, <2>2 DEF OthersStay
    <2>4. CASE update[u].sound = TRUE
      <3>1. /\ ~Old(t) /\ files["launcher"] = t /\ files["daemon"] = t
            /\ files["core"] = t /\ files["license"] = t
        BY <1>t, <1>w, <2>1, <2>2, <2>3, <2>4 DEF WrittenBy, Behind
      <3> QED BY <1>f, <2>1, <3>1 DEF U!Whole, U!Names, Old
    <2>5. CASE update[u].sound = FALSE
      BY <1>a, <2>2, <2>3, <2>5
    <2> QED BY <1>a, <2>4, <2>5
  <1>8. ASSUME NEW v \in Launchers, U!RemoveStale(v)
        PROVE  left' = U!Requests \/ (files' = U!Whole(files'["launcher"]) /\ alias' = 0)
    <2>1. CASE update[v].at = "stale core"
      <3>1. U!Advance(v, "stale core")  BY <1>8, <2>1 DEF U!RemoveStale, U!At
      <3>2. OthersStay(v) /\ update'[v].at = "stale license"
        BY <2>1, <3>1, AdvanceFields DEF InstallInv, Behind
      <3> QED BY <1>0, <3>2 DEF OthersStay
    <2>2. CASE update[v].at # "stale core"
      <3>1. /\ files' = [files EXCEPT !["license"] = 0] /\ U!Advance(v, "stale license") /\ alias' = alias
            /\ update[v].at = "stale license"
        BY <1>8, <2>2 DEF U!RemoveStale, U!At
      <3>2. /\ OthersStay(v) /\ update'[v].at = "idle"
            /\ left' = IF update[v].sound THEN {} ELSE left
        BY <3>1, AdvanceFields DEF InstallInv, Behind
      <3>3. v = u  BY <1>0, <3>2 DEF OthersStay
      <3>4. CASE update[u].sound = TRUE
        <4>1. /\ Old(t) /\ files["launcher"] = t /\ files["daemon"] = t /\ files["core"] = 0 /\ alias = 0
          BY <1>t, <1>w, <3>1, <3>3, <3>4 DEF WrittenBy, Behind
        <4>2. /\ files'["launcher"] = t /\ files'["daemon"] = t /\ files'["core"] = 0
              /\ files'["license"] = 0 /\ alias' = 0
          BY <3>1, <4>1 DEF InstallInv, UpdateInv, U!UpdateTypeOK, U!Names
        <4> QED BY <1>f, <4>1, <4>2 DEF U!Whole, U!Names, Old
      <3>5. CASE update[u].sound = FALSE
        BY <1>a, <3>2, <3>3, <3>5
      <3> QED BY <1>a, <3>4, <3>5
    <2> QED BY <2>1, <2>2
  <1>9. ASSUME NEW v \in Launchers, U!RemoveFails(v) PROVE left' = U!Requests
    BY <1>9 DEF U!RemoveFails
  <1>10. ASSUME NEW v \in Launchers, U!CutOff(v) PROVE left' = U!Requests
    <2>1. U!End(v)  BY <1>10 DEF U!CutOff
    <2>2. v = u  BY <1>0, <2>1, EndFields DEF OthersStay, InstallInv
    <2> QED BY <1>10, <2>2 DEF U!CutOff, Behind
  <1> QED BY <1>1, <1>2, <1>3, <1>4, <1>5, <1>6, <1>7, <1>8, <1>9, <1>10 DEF U!UpdateNext

LEMMA UpdatesAreWhole ==
  ASSUME 0 \notin Releases
  PROVE  HostSpec => [](U!LatestIsWhole) /\ [][U!SuccessIsWhole]_allVars
  <1>1. ASSUME InstallInv, UpdateInv', [HostNext]_allVars PROVE [U!SuccessIsWhole]_allVars
    <2>1. CASE UNCHANGED allVars  BY <2>1
    <2>2. CASE U!UpdateNext  BY <1>1, <2>2, SuccessStep
    <2>3. CASE UNCHANGED installVars
      <3>1. update' = update  BY <2>3 DEF installVars
      <3>2. U!SuccessIsWhole  BY <3>1 DEF U!SuccessIsWhole
      <3> QED BY <3>2
    <2> QED BY <1>1, <2>1, <2>2, <2>3 DEF HostNext
  <1>2. InstallInv => UpdateInv  BY DEF InstallInv
  <1> QED BY <1>1, <1>2, InstallInvariant, LatestHolds, PTL DEF HostSpec

(***************************************************************************)
(* The order of the versions.  Two sequences are compared at the first     *)
(* place where they differ, with a filler behind their ends: f and g are   *)
(* functions on the places, R is the strict order of what stands there.    *)
(***************************************************************************)
Places == Nat \ {0}
StrictOrder(D, R) ==
  /\ \A x \in D, y \in D : <<x, y>> \in R => <<y, x>> \notin R
  /\ \A x \in D, y \in D : <<x, y>> \in R \/ x = y \/ <<y, x>> \in R
  /\ \A x \in D, y \in D, z \in D : <<x, y>> \in R /\ <<y, z>> \in R => <<x, z>> \in R
FirstLess(f, g, R) ==
  \E i \in Places : <<f[i], g[i]>> \in R /\ \A j \in Places : j < i => f[j] = g[j]

LEMMA FirstPlace ==
  ASSUME NEW S \in SUBSET Places, S # {}
  PROVE  \E i \in S : \A j \in S : ~(j < i)
  <1>1. S \subseteq Nat  BY DEF Places
  <1>2. PICK k \in S : \A j \in S : ~(<<j, k>> \in OpToRel(<, Nat))
    BY <1>1, NatLessThanWellFounded, WFMin
  <1> QED BY <1>1, <1>2 DEF OpToRel

LEMMA FirstLessOrders ==
  ASSUME NEW D, NEW R, StrictOrder(D, R),
         NEW f \in [Places -> D], NEW g \in [Places -> D], FirstLess(f, g, R)
  PROVE  /\ ~FirstLess(g, f, R)
         /\ \A h \in [Places -> D] : FirstLess(f, h, R) \/ FirstLess(h, g, R)
  <1>1. PICK i \in Places : <<f[i], g[i]>> \in R /\ \A j \in Places : j < i => f[j] = g[j]
    BY DEF FirstLess
  <1>2. f[i] \in D /\ g[i] \in D /\ i \in Nat  BY DEF Places
  <1>3. ~FirstLess(g, f, R)
    <2> SUFFICES ASSUME NEW k \in Places, <<g[k], f[k]>> \in R,
                        \A j \in Places : j < k => g[j] = f[j]
                 PROVE  FALSE
      BY DEF FirstLess
    <2>1. k \in Nat /\ f[k] \in D /\ g[k] \in D  BY DEF Places
    <2>2. CASE i < k
      <3>1. g[i] = f[i]  BY <2>2
      <3> QED BY <1>1, <1>2, <3>1 DEF StrictOrder
    <2>3. CASE k < i
      <3>1. g[k] = f[k]  BY <1>1, <2>3
      <3> QED BY <2>1, <3>1 DEF StrictOrder
    <2>4. CASE i = k  BY <1>1, <1>2, <2>4 DEF StrictOrder
    <2> QED BY <1>2, <2>1, <2>2, <2>3, <2>4
  <1>4. ASSUME NEW h \in [Places -> D] PROVE FirstLess(f, h, R) \/ FirstLess(h, g, R)
    <2>0. h[i] \in D  OBVIOUS
    <2>1. CASE \A j \in Places : j < i => h[j] = f[j]
      <3>1. CASE <<f[i], h[i]>> \in R
        <4>1. FirstLess(f, h, R)  BY <2>1, <3>1 DEF FirstLess
        <4> QED BY <4>1
      <3>2. CASE <<f[i], h[i]>> \notin R
        <4>1. <<h[i], g[i]>> \in R  BY <1>1, <1>2, <2>0, <3>2 DEF StrictOrder
        <4>2. \A j \in Places : j < i => h[j] = g[j]  BY <1>1, <2>1
        <4>3. FirstLess(h, g, R)  BY <4>1, <4>2 DEF FirstLess
        <4> QED BY <4>3
      <3> QED BY <3>1, <3>2
    <2>2. CASE ~\A j \in Places : j < i => h[j] = f[j]
      <3>1. PICK S : S = {j \in Places : j < i /\ h[j] # f[j]}  OBVIOUS
      <3>2. S \in SUBSET Places /\ S # {}  BY <2>2, <3>1
      <3>3. PICK m \in S : \A j \in S : ~(j < m)  BY <3>2, FirstPlace
      <3>4. m \in Places /\ m < i /\ h[m] # f[m] /\ m \in Nat  BY <3>1 DEF Places
      <3>5. \A j \in Places : j < m => j < i  BY <1>2, <3>4 DEF Places
      <3>6. \A j \in Places : j < m => h[j] = f[j]  BY <3>1, <3>3, <3>5
      <3>7. h[m] \in D /\ f[m] \in D /\ f[m] = g[m]  BY <1>1, <3>4
      <3>8. CASE <<f[m], h[m]>> \in R
        <4>1. FirstLess(f, h, R)  BY <3>4, <3>6, <3>8 DEF FirstLess
        <4> QED BY <4>1
      <3>9. CASE <<f[m], h[m]>> \notin R
        <4>1. <<h[m], g[m]>> \in R  BY <3>4, <3>7, <3>9 DEF StrictOrder
        <4>2. \A j \in Places : j < m => h[j] = g[j]  BY <1>1, <3>5, <3>6
        <4>3. FirstLess(h, g, R)  BY <3>4, <4>1, <4>2 DEF FirstLess
        <4> QED BY <4>3
      <3> QED BY <3>8, <3>9
    <2> QED BY <2>1, <2>2
  <1> QED BY <1>3, <1>4

(* The numbers of a base, with 0 behind them.                              *)
Smaller == {p \in Nat \X Nat : p[1] < p[2]}
Padded(base) == [i \in Places |-> U!Part(base, i)]

LEMMA SmallerIsStrict == StrictOrder(Nat, Smaller)
  BY DEF StrictOrder, Smaller

LEMMA BaseOrder ==
  ASSUME NEW a, NEW b, a.base \in Seq(Nat), b.base \in Seq(Nat)
  PROVE  /\ U!BaseLess(a, b) <=> FirstLess(Padded(a.base), Padded(b.base), Smaller)
         /\ Padded(a.base) \in [Places -> Nat]
  <1>1. ASSUME NEW c, c \in Seq(Nat)
        PROVE  /\ \A i \in Places : U!Part(c, i) \in Nat
               /\ \A i \in Places : U!Part(c, i) # 0 => i \in DOMAIN c
               /\ DOMAIN c \subseteq Places
    BY <1>1 DEF U!Part, Places
  <1>2. /\ \A i \in Places : U!Part(a.base, i) \in Nat /\ U!Part(b.base, i) \in Nat
        /\ \A i \in Places : U!Part(b.base, i) # 0 => i \in DOMAIN b.base
        /\ DOMAIN a.base \subseteq Places /\ DOMAIN b.base \subseteq Places
    BY <1>1
  <1>3. ASSUME U!BaseLess(a, b) PROVE FirstLess(Padded(a.base), Padded(b.base), Smaller)
    <2>1. PICK i \in Places :
            /\ U!Part(a.base, i) < U!Part(b.base, i)
            /\ \A j \in 1..(i - 1) : U!Part(a.base, j) = U!Part(b.base, j)
      BY <1>2, <1>3 DEF U!BaseLess
    <2>2. \A j \in Places : j < i => j \in 1..(i - 1)  BY DEF Places
    <2>3. \A j \in Places : j < i => U!Part(a.base, j) = U!Part(b.base, j)  BY <2>1, <2>2
    <2> QED BY <1>2, <2>1, <2>3 DEF FirstLess, Padded, Smaller
  <1>4. ASSUME FirstLess(Padded(a.base), Padded(b.base), Smaller) PROVE U!BaseLess(a, b)
    <2>1. PICK i \in Places :
            /\ U!Part(a.base, i) < U!Part(b.base, i)
            /\ \A j \in Places : j < i => U!Part(a.base, j) = U!Part(b.base, j)
      BY <1>4 DEF FirstLess, Padded, Smaller
    <2>2. U!Part(b.base, i) # 0  BY <1>2, <2>1
    <2>3. \A j \in 1..(i - 1) : j \in Places /\ j < i  BY DEF Places
    <2> QED BY <1>2, <2>1, <2>2, <2>3 DEF U!BaseLess
  <1> QED BY <1>2, <1>3, <1>4 DEF Padded

(* The words: each has one rank and one place in the alphabet.             *)
Labels == {U!Words[i] : i \in DOMAIN U!Words}

LEMMA RankOfLabel ==
  ASSUME NEW w \in Labels
  PROVE  U!TextRank(w) \in 1..7 /\ U!Alphabetical(w) \in 1..14 /\ U!Words[U!Alphabetical(w)] = w
  <1>1. DOMAIN U!Words = 1..14  BY DEF U!Words
  <1>2. \E i \in 1..14 : U!Words[i] = w  BY <1>1 DEF Labels
  <1>3. DOMAIN U!Ladder = 1..7  BY DEF U!Ladder
  <1>4. \E i \in 1..7 : w \in U!Ladder[i]
    <2>1. w \in {"a", "alpha", "b", "beta", "c", "dev", "main", "post", "pre", "preview",
                 "r", "rc", "rev", "xyz"}
      BY <1>2 DEF U!Words
    <2>2. /\ U!Ladder[1] = {"main"} /\ U!Ladder[2] = {"dev"} /\ U!Ladder[3] = {"a", "alpha"}
          /\ U!Ladder[4] = {"b", "beta"} /\ U!Ladder[5] = {"c", "pre", "preview", "rc"}
          /\ U!Ladder[6] = {"xyz"} /\ U!Ladder[7] = {"post", "r", "rev"}
      BY DEF U!Ladder
    <2> QED BY <2>1, <2>2
  <1> QED BY <1>1, <1>2, <1>3, <1>4 DEF U!TextRank, U!Alphabetical

LEMMA TokenShape ==
  ASSUME NEW t \in U!Tokens
  PROVE  \/ t[1] = "number" /\ t[2] \in Nat /\ t = <<"number", t[2]>>
         \/ t[1] = "word" /\ t[2] \in Labels /\ t = <<"word", t[2]>>
  BY DEF U!Tokens, Labels

(* Behind the tokens of a suffix stands a filler, which is the smallest.   *)
Filler == <<"end", 0>>
Marks == U!Tokens \cup {Filler}
Lower == {p \in Marks \X Marks :
            \/ p[1] = Filler /\ p[2] # Filler
            \/ p[1] # Filler /\ p[2] # Filler /\ U!TokenLess(p[1], p[2])}

LEMMA TokensOrdered ==
  ASSUME NEW s \in U!Tokens, NEW t \in U!Tokens
  PROVE  /\ U!TokenLess(s, t) => ~U!TokenLess(t, s)
         /\ U!TokenLess(s, t) \/ s = t \/ U!TokenLess(t, s)
         /\ \A x \in U!Tokens : U!TokenLess(s, t) /\ U!TokenLess(t, x) => U!TokenLess(s, x)
  <1>1. \A w \in Labels : U!TextRank(w) \in Nat /\ U!Alphabetical(w) \in Nat
    BY RankOfLabel
  <1>2. \A v \in Labels, w \in Labels : U!Alphabetical(v) = U!Alphabetical(w) => v = w
    BY RankOfLabel
  <1>3. U!TokenLess(s, t) => ~U!TokenLess(t, s)
    BY <1>1, TokenShape DEF U!TokenLess
  <1>4. U!TokenLess(s, t) \/ s = t \/ U!TokenLess(t, s)
    <2>1. CASE s[1] = "number" \/ t[1] = "number"
      BY <2>1, TokenShape DEF U!TokenLess
    <2>2. CASE s[1] = "word" /\ t[1] = "word"
      <3>1. s[2] \in Labels /\ t[2] \in Labels /\ (s[2] = t[2] => s = t)
        BY <2>2, TokenShape
      <3>2. \/ U!TextRank(s[2]) < U!TextRank(t[2]) \/ U!TextRank(t[2]) < U!TextRank(s[2])
            \/ U!TextRank(s[2]) = U!TextRank(t[2])
        BY <1>1, <3>1
      <3>3. \/ U!Alphabetical(s[2]) < U!Alphabetical(t[2]) \/ U!Alphabetical(t[2]) < U!Alphabetical(s[2])
            \/ s = t
        BY <1>1, <1>2, <3>1
      <3> QED BY <2>2, <3>2, <3>3 DEF U!TokenLess
    <2> QED BY <2>1, <2>2, TokenShape
  <1>5. ASSUME NEW x \in U!Tokens, U!TokenLess(s, t), U!TokenLess(t, x) PROVE U!TokenLess(s, x)
    <2>1. CASE s[1] = "number"
      BY <1>5, <2>1, TokenShape DEF U!TokenLess
    <2>2. CASE s[1] = "word"
      <3>1. s[1] = "word" /\ t[1] = "word" /\ x[1] = "word"
        BY <1>5, <2>2, TokenShape DEF U!TokenLess
      <3>2. s[2] \in Labels /\ t[2] \in Labels /\ x[2] \in Labels
        BY <3>1, TokenShape
      <3> QED BY <1>1, <1>5, <3>1, <3>2 DEF U!TokenLess
    <2> QED BY <2>1, <2>2, TokenShape
  <1> QED BY <1>3, <1>4, <1>5

LEMMA LowerIsStrict == StrictOrder(Marks, Lower)
  <1>1. Filler \notin U!Tokens  BY DEF Filler, U!Tokens
  <1>2. \A x \in Marks, y \in Marks :
          <<x, y>> \in Lower <=> \/ x = Filler /\ y # Filler
                                 \/ x # Filler /\ y # Filler /\ U!TokenLess(x, y)
    BY DEF Lower
  <1>3. \A x \in Marks : x # Filler => x \in U!Tokens  BY DEF Marks
  <1>4. ASSUME NEW x \in Marks, NEW y \in Marks
        PROVE  /\ <<x, y>> \in Lower => <<y, x>> \notin Lower
               /\ <<x, y>> \in Lower \/ x = y \/ <<y, x>> \in Lower
    BY <1>2, <1>3, TokensOrdered
  <1>5. ASSUME NEW x \in Marks, NEW y \in Marks, NEW z \in Marks, <<x, y>> \in Lower, <<y, z>> \in Lower
        PROVE  <<x, z>> \in Lower
    <2>1. y # Filler /\ z # Filler  BY <1>2, <1>5
    <2>2. CASE x = Filler  BY <1>2, <2>1, <2>2
    <2>3. CASE x # Filler
      <3>1. U!TokenLess(x, y) /\ U!TokenLess(y, z)  BY <1>2, <1>5, <2>1, <2>3
      <3>2. U!TokenLess(x, z)  BY <1>3, <2>1, <2>3, <3>1, TokensOrdered
      <3> QED BY <1>2, <2>1, <2>3, <3>2
    <2> QED BY <2>2, <2>3
  <1> QED BY <1>4, <1>5 DEF StrictOrder

Filled(s) == [i \in Places |-> IF i \in DOMAIN s THEN s[i] ELSE Filler]

LEMMA PrefixOf ==
  ASSUME NEW s \in Seq(U!Tokens), NEW t \in Seq(U!Tokens), NEW n \in Nat, n <= Len(s), n <= Len(t)
  PROVE  SubSeq(s, 1, n) = SubSeq(t, 1, n) <=> \A j \in 1..n : s[j] = t[j]
  <1>1. /\ SubSeq(s, 1, n) \in Seq(U!Tokens) /\ Len(SubSeq(s, 1, n)) = n
        /\ \A i \in 1..n : SubSeq(s, 1, n)[i] = s[i]
    <2>1. \A i \in 1..n : s[i] \in U!Tokens  BY ElementOfSeq
    <2> QED BY <2>1, SubSeqProperties
  <1>2. /\ SubSeq(t, 1, n) \in Seq(U!Tokens) /\ Len(SubSeq(t, 1, n)) = n
        /\ \A i \in 1..n : SubSeq(t, 1, n)[i] = t[i]
    <2>1. \A i \in 1..n : t[i] \in U!Tokens  BY ElementOfSeq
    <2> QED BY <2>1, SubSeqProperties
  <1>3. ASSUME \A j \in 1..n : s[j] = t[j] PROVE SubSeq(s, 1, n) = SubSeq(t, 1, n)
    BY <1>1, <1>2, <1>3, SeqEqual
  <1> QED BY <1>1, <1>2, <1>3

LEMMA FilledParts ==
  ASSUME NEW s \in Seq(U!Tokens)
  PROVE  /\ Filled(s) \in [Places -> Marks] /\ Len(s) \in Nat
         /\ \A i \in 1..Len(s) : i \in Places /\ Filled(s)[i] = s[i] /\ s[i] \in U!Tokens /\ s[i] # Filler
         /\ \A i \in Places : i > Len(s) => Filled(s)[i] = Filler
  <1>1. Len(s) \in Nat /\ DOMAIN s = 1..Len(s) /\ \A i \in 1..Len(s) : s[i] \in U!Tokens
    BY ElementOfSeq, LenProperties
  <1>2. 1..Len(s) \subseteq Places  BY <1>1 DEF Places
  <1>3. Filler \notin U!Tokens  BY DEF Filler, U!Tokens
  <1>4. \A i \in Places : i > Len(s) => i \notin 1..Len(s)  BY <1>1 DEF Places
  <1> QED BY <1>1, <1>2, <1>3, <1>4 DEF Filled, Marks

LEMMA TokensOrder ==
  ASSUME NEW s \in Seq(U!Tokens), NEW t \in Seq(U!Tokens)
  PROVE  U!TokensLess(s, t) <=> FirstLess(Filled(s), Filled(t), Lower)
  <1>0. /\ Len(s) \in Nat /\ DOMAIN s = 1..Len(s) /\ Len(t) \in Nat /\ DOMAIN t = 1..Len(t)
    BY LenProperties
  <1>a. Filler \in Marks  BY DEF Marks
  <1>b. \A x \in Marks, y \in Marks :
          <<x, y>> \in Lower <=> \/ x = Filler /\ y # Filler
                                 \/ x # Filler /\ y # Filler /\ U!TokenLess(x, y)
    BY DEF Lower
  <1>c. U!Tokens \subseteq Marks  BY DEF Marks
  <1>1. ASSUME Len(s) < Len(t), s = SubSeq(t, 1, Len(s))
        PROVE  FirstLess(Filled(s), Filled(t), Lower)
    <2>1. PICK i : i = Len(s) + 1  OBVIOUS
    <2>2. i \in Places /\ i > Len(s) /\ i \in 1..Len(t)  BY <1>0, <1>1, <2>1 DEF Places
    <2>3. s = SubSeq(s, 1, Len(s))  BY SubSeqFull
    <2>4. \A j \in 1..Len(s) : s[j] = t[j]  BY <1>0, <1>1, <2>3, PrefixOf
    <2>5. Filled(s)[i] = Filler /\ Filled(t)[i] = t[i] /\ t[i] # Filler /\ t[i] \in U!Tokens
      BY <2>2, FilledParts
    <2>6. <<Filled(s)[i], Filled(t)[i]>> \in Lower  BY <1>a, <1>b, <1>c, <2>5
    <2>7. ASSUME NEW j \in Places, j < i PROVE Filled(s)[j] = Filled(t)[j]
      <3>1. j \in 1..Len(s) /\ j \in 1..Len(t)  BY <1>0, <1>1, <2>1, <2>7 DEF Places
      <3> QED BY <2>4, <3>1, FilledParts
    <2> QED BY <2>2, <2>6, <2>7 DEF FirstLess
  <1>2. ASSUME NEW i \in DOMAIN s \cap DOMAIN t, U!TokenLess(s[i], t[i]), SubSeq(s, 1, i - 1) = SubSeq(t, 1, i - 1)
        PROVE  FirstLess(Filled(s), Filled(t), Lower)
    <2>1. i \in 1..Len(s) /\ i \in 1..Len(t) /\ i - 1 \in Nat /\ i - 1 <= Len(s) /\ i - 1 <= Len(t)
      BY <1>0, <1>2
    <2>2. \A j \in 1..(i - 1) : s[j] = t[j]  BY <1>2, <2>1, PrefixOf
    <2>3. /\ i \in Places /\ Filled(s)[i] = s[i] /\ Filled(t)[i] = t[i]
          /\ s[i] # Filler /\ t[i] # Filler /\ s[i] \in U!Tokens /\ t[i] \in U!Tokens
      BY <2>1, FilledParts
    <2>4. <<Filled(s)[i], Filled(t)[i]>> \in Lower  BY <1>2, <1>b, <1>c, <2>3
    <2>5. ASSUME NEW j \in Places, j < i PROVE Filled(s)[j] = Filled(t)[j]
      <3>1. j \in 1..Len(s) /\ j \in 1..Len(t) /\ j \in 1..(i - 1)  BY <1>0, <2>1, <2>5 DEF Places
      <3> QED BY <2>2, <3>1, FilledParts
    <2> QED BY <2>3, <2>4, <2>5 DEF FirstLess
  <1>3. ASSUME FirstLess(Filled(s), Filled(t), Lower) PROVE U!TokensLess(s, t)
    <2>1. PICK i \in Places : /\ <<Filled(s)[i], Filled(t)[i]>> \in Lower
                              /\ \A j \in Places : j < i => Filled(s)[j] = Filled(t)[j]
      BY <1>3 DEF FirstLess
    <2>2. Filled(t)[i] # Filler /\ (Filled(s)[i] # Filler => U!TokenLess(Filled(s)[i], Filled(t)[i]))
      BY <2>1 DEF Lower
    <2>3. i \in 1..Len(t)
      <3>1. ~(i > Len(t))  BY <2>2, FilledParts
      <3> QED BY <1>0, <3>1 DEF Places
    <2>4. CASE i \in 1..Len(s)
      <3>1. U!TokenLess(s[i], t[i])  BY <2>2, <2>3, <2>4, FilledParts
      <3>2. ASSUME NEW j \in 1..(i - 1) PROVE s[j] = t[j]
        <4>1. j \in 1..Len(s) /\ j \in 1..Len(t) /\ j < i /\ j \in Places
          BY <1>0, <2>3, <2>4 DEF Places
        <4> QED BY <2>1, <4>1, FilledParts
      <3>3. i - 1 \in Nat /\ i - 1 <= Len(s) /\ i - 1 <= Len(t)  BY <1>0, <2>3, <2>4
      <3>4. SubSeq(s, 1, i - 1) = SubSeq(t, 1, i - 1)  BY <3>2, <3>3, PrefixOf
      <3> QED BY <1>0, <2>3, <2>4, <3>1, <3>4 DEF U!TokensLess
    <2>5. CASE i \notin 1..Len(s)
      <3>1. i > Len(s)  BY <1>0, <2>5 DEF Places
      <3>2. i = Len(s) + 1
        <4>1. SUFFICES ASSUME Len(s) + 1 < i PROVE FALSE  BY <1>0, <3>1 DEF Places
        <4>2. PICK k : k = Len(s) + 1  OBVIOUS
        <4>3. k \in Places /\ k < i /\ k > Len(s) /\ k \in 1..Len(t)
          BY <1>0, <2>3, <4>1, <4>2 DEF Places
        <4> QED BY <2>1, <4>3, FilledParts
      <3>3. Len(s) < Len(t)  BY <1>0, <2>3, <3>2
      <3>4. ASSUME NEW j \in 1..Len(s) PROVE s[j] = t[j]
        <4>1. j \in 1..Len(t) /\ j < i /\ j \in Places  BY <1>0, <3>1, <3>3 DEF Places
        <4> QED BY <2>1, <4>1, FilledParts
      <3>5. SubSeq(s, 1, Len(s)) = SubSeq(t, 1, Len(s))  BY <1>0, <3>3, <3>4, PrefixOf
      <3>6. s = SubSeq(t, 1, Len(s))  BY <3>5, SubSeqFull
      <3> QED BY <3>3, <3>6 DEF U!TokensLess
    <2> QED BY <2>4, <2>5
  <1> QED BY <1>1, <1>2, <1>3 DEF U!TokensLess

LEMMA TokensAreOrdered ==
  ASSUME NEW s \in Seq(U!Tokens), NEW t \in Seq(U!Tokens), U!TokensLess(s, t)
  PROVE  /\ ~U!TokensLess(t, s)
         /\ \A x \in Seq(U!Tokens) : U!TokensLess(s, x) \/ U!TokensLess(x, t)
  <1>1. Filled(s) \in [Places -> Marks] /\ Filled(t) \in [Places -> Marks]  BY FilledParts
  <1>2. FirstLess(Filled(s), Filled(t), Lower)  BY TokensOrder
  <1>3. ~FirstLess(Filled(t), Filled(s), Lower)  BY <1>1, <1>2, LowerIsStrict, FirstLessOrders
  <1>4. ASSUME NEW x \in Seq(U!Tokens) PROVE U!TokensLess(s, x) \/ U!TokensLess(x, t)
    <2>1. Filled(x) \in [Places -> Marks]  BY FilledParts
    <2>2. FirstLess(Filled(s), Filled(x), Lower) \/ FirstLess(Filled(x), Filled(t), Lower)
      BY <1>1, <1>2, <2>1, LowerIsStrict, FirstLessOrders
    <2> QED BY <2>2, TokensOrder
  <1> QED BY <1>3, <1>4, TokensOrder

(* A post-release stands above everything that is not one, and what stands *)
(* above it is one as well.                                                *)
LEMMA PostIsAbove ==
  ASSUME NEW s \in Seq(U!Tokens), NEW t \in Seq(U!Tokens), s # <<>>, t # <<>>, U!IsPost(t)
  PROVE  /\ ~U!IsPost(s) => ~U!TokensLess(t, s)
         /\ ~U!IsPost(s) => U!TokensLess(s, t)
  <1>1. s[1] \in U!Tokens /\ t[1] \in U!Tokens /\ Len(s) \in Nat \ {0} /\ Len(t) \in Nat \ {0}
        /\ DOMAIN s = 1..Len(s) /\ DOMAIN t = 1..Len(t)
    <2>1. Len(s) \in Nat \ {0} /\ Len(t) \in Nat \ {0}  BY LenProperties, EmptySeq
    <2> QED BY <2>1, ElementOfSeq, LenProperties
  <1>2. t[1][1] = "word" /\ U!TextRank(t[1][2]) = 7  BY DEF U!IsPost, U!PostRelease
  <1>3. ASSUME ~U!IsPost(s) PROVE U!TokensLess(s, t)
    <2>1. ~(s[1][1] = "word" /\ U!TextRank(s[1][2]) = 7)  BY <1>3 DEF U!IsPost, U!PostRelease
    <2>2. s[1][1] = "number" \/ (s[1][1] = "word" /\ U!TextRank(s[1][2]) \in 1..7)
      BY <1>1, TokenShape, RankOfLabel
    <2>3. U!TokenLess(s[1], t[1])  BY <1>2, <2>1, <2>2 DEF U!TokenLess
    <2>4. SubSeq(s, 1, 0) = SubSeq(t, 1, 0)  BY SubSeqEmpty
    <2>5. 1 \in DOMAIN s \cap DOMAIN t /\ 1 - 1 = 0  BY <1>1
    <2> QED BY <2>3, <2>4, <2>5 DEF U!TokensLess
  <1> QED BY <1>3, TokensAreOrdered

LEMMA SuffixOrder ==
  ASSUME NEW s \in Seq(U!Tokens), NEW t \in Seq(U!Tokens), U!SuffixLess(s, t)
  PROVE  /\ ~U!SuffixLess(t, s)
         /\ \A x \in Seq(U!Tokens) : U!SuffixLess(s, x) \/ U!SuffixLess(x, t)
  <1>0. ~U!IsPost(<<>>)  BY DEF U!IsPost
  <1>1. ~U!SuffixLess(t, s)
    BY <1>0, TokensAreOrdered DEF U!SuffixLess
  <1>2. ASSUME NEW x \in Seq(U!Tokens) PROVE U!SuffixLess(s, x) \/ U!SuffixLess(x, t)
    <2>1. CASE s = <<>>
      <3>1. t # <<>> /\ U!IsPost(t)  BY <1>0, <2>1 DEF U!SuffixLess
      <3>2. CASE x = <<>>  BY <3>1, <3>2 DEF U!SuffixLess
      <3>3. CASE x # <<>> /\ U!IsPost(x)  BY <2>1, <3>3 DEF U!SuffixLess
      <3>4. CASE x # <<>> /\ ~U!IsPost(x)
        <4>1. U!TokensLess(x, t)  BY <3>1, <3>4, PostIsAbove
        <4> QED BY <3>1, <3>4, <4>1 DEF U!SuffixLess
      <3> QED BY <3>2, <3>3, <3>4
    <2>2. CASE t = <<>>
      <3>1. s # <<>> /\ ~U!IsPost(s)  BY <1>0, <2>2 DEF U!SuffixLess
      <3>2. CASE x = <<>>  BY <3>1, <3>2 DEF U!SuffixLess
      <3>3. CASE x # <<>> /\ ~U!IsPost(x)  BY <2>2, <3>3 DEF U!SuffixLess
      <3>4. CASE x # <<>> /\ U!IsPost(x)
        <4>1. U!TokensLess(s, x)  BY <3>1, <3>4, PostIsAbove
        <4> QED BY <3>1, <3>4, <4>1 DEF U!SuffixLess
      <3> QED BY <3>2, <3>3, <3>4
    <2>3. CASE s # <<>> /\ t # <<>>
      <3>1. U!TokensLess(s, t)  BY <2>3 DEF U!SuffixLess
      <3>2. CASE x = <<>>
        <4>1. U!IsPost(s) => U!IsPost(t)  BY <2>3, <3>1, PostIsAbove
        <4> QED BY <2>3, <3>2, <4>1 DEF U!SuffixLess
      <3>3. CASE x # <<>>
        <4>1. U!TokensLess(s, x) \/ U!TokensLess(x, t)  BY <3>1, TokensAreOrdered
        <4> QED BY <2>3, <3>3, <4>1 DEF U!SuffixLess
      <3> QED BY <3>2, <3>3
    <2> QED BY <2>1, <2>2, <2>3
  <1> QED BY <1>1, <1>2

LEMMA BaseIsOrdered ==
  ASSUME NEW a, NEW b, a.base \in Seq(Nat), b.base \in Seq(Nat), U!BaseLess(a, b)
  PROVE  /\ ~U!BaseLess(b, a)
         /\ \A c : c.base \in Seq(Nat) => U!BaseLess(a, c) \/ U!BaseLess(c, b)
  <1>1. /\ Padded(a.base) \in [Places -> Nat] /\ Padded(b.base) \in [Places -> Nat]
        /\ FirstLess(Padded(a.base), Padded(b.base), Smaller)
    BY BaseOrder
  <1>2. ~U!BaseLess(b, a)
    <2>1. ~FirstLess(Padded(b.base), Padded(a.base), Smaller)
      BY <1>1, SmallerIsStrict, FirstLessOrders
    <2> QED BY <2>1, BaseOrder
  <1>3. ASSUME NEW c, c.base \in Seq(Nat) PROVE U!BaseLess(a, c) \/ U!BaseLess(c, b)
    <2>1. Padded(c.base) \in [Places -> Nat]  BY <1>3, BaseOrder
    <2>2. \/ FirstLess(Padded(a.base), Padded(c.base), Smaller)
          \/ FirstLess(Padded(c.base), Padded(b.base), Smaller)
      BY <1>1, <2>1, SmallerIsStrict, FirstLessOrders
    <2> QED BY <1>3, <2>2, BaseOrder
  <1> QED BY <1>2, <1>3

(* The order of the versions is one, whatever numbers and labels they have:*)
(* no two are each above the other, and what is not above or below a third *)
(* cannot be told apart from it (update.rs 1126-1290).                     *)
THEOREM VersionsAreOrdered ==
  ASSUME NEW V, \A v \in V : U!IsVersion(v)
  PROVE  U!OrderIsStrict(V)
  <1>0. \A v \in V : v.base \in Seq(Nat) /\ v.suffix \in Seq(U!Tokens)
    BY DEF U!IsVersion
  <1>1. ASSUME NEW a \in V, NEW b \in V, U!PublicLess(a, b) PROVE ~U!PublicLess(b, a)
    BY <1>0, <1>1, BaseIsOrdered, SuffixOrder DEF U!PublicLess, U!BaseEqual
  <1>2. ASSUME NEW a \in V, NEW b \in V, NEW c \in V, U!PublicLess(a, b)
        PROVE  U!PublicLess(a, c) \/ U!PublicLess(c, b)
    <2>1. CASE U!BaseLess(a, b)
      BY <1>0, <2>1, BaseIsOrdered DEF U!PublicLess
    <2>2. CASE ~U!BaseLess(a, b)
      <3>1. U!BaseEqual(a, b) /\ U!SuffixLess(a.suffix, b.suffix)  BY <1>2, <2>2 DEF U!PublicLess
      <3> SUFFICES ASSUME ~U!BaseLess(a, c), ~U!BaseLess(c, b)
                   PROVE  U!PublicLess(a, c) \/ U!PublicLess(c, b)
        BY DEF U!PublicLess
      <3>2. ~U!BaseLess(c, a)
        <4>1. U!BaseLess(c, a) => U!BaseLess(c, b) \/ U!BaseLess(b, a)  BY <1>0, BaseIsOrdered
        <4> QED BY <3>1, <4>1 DEF U!BaseEqual
      <3>3. ~U!BaseLess(b, c)
        <4>1. U!BaseLess(b, c) => U!BaseLess(b, a) \/ U!BaseLess(a, c)  BY <1>0, BaseIsOrdered
        <4> QED BY <3>1, <4>1 DEF U!BaseEqual
      <3>4. U!SuffixLess(a.suffix, c.suffix) \/ U!SuffixLess(c.suffix, b.suffix)
        BY <1>0, <3>1, SuffixOrder
      <3> QED BY <3>2, <3>3, <3>4 DEF U!PublicLess, U!BaseEqual
    <2> QED BY <2>1, <2>2
  <1> QED BY <1>1, <1>2 DEF U!OrderIsStrict

(* See InstallIsWhole: for any number of releases, commands and runs, what *)
(* an update calls installed is one release, and so is what it calls the   *)
(* latest (update.rs 175-196); the versions it compares are in one order.  *)
THEOREM InstallsAreWhole == HostSpec => InstallIsWhole
  <1>1. HostSpec => [](U!LatestIsWhole) /\ [][U!SuccessIsWhole]_allVars
    BY HostAssumption, UpdatesAreWhole
  <1>2. U!OrderIsStrict(Versions)
    BY HostAssumption, VersionsAreOrdered
  <1>3. U!LatestIsWhole => (part = "update" /\ started = 0 => U!OrderIsStrict(Versions))
    BY <1>2
  <1> QED BY <1>1, <1>3, PTL DEF InstallIsWhole

(***************************************************************************)
(* Type correctness of the four parts that HostCommands adds.              *)
(***************************************************************************)
THEOREM HostTypesHold == HostSpec => []HostTypeOK
  <1>1. AccountInv => A!AccountTypeOK
    <2>1. ASSUME AccountInv PROVE A!Now \in A!File
      BY <2>1 DEF AccountInv, AccountTypes, A!Now, A!File
    <2> QED BY <2>1 DEF AccountInv, AccountTypes, A!AccountTypeOK
  <1>2. ProfileInv => P!TypeOK
    BY DEF ProfileInv, ProfileTypes, P!TypeOK
  <1>3. UpdateInv => U!UpdateTypeOK  BY DEF UpdateInv
  <1>4. AccountInv /\ ProfileInv /\ UpdateInv /\ GatewayInv => HostTypeOK
    BY <1>1, <1>2, <1>3, GatewayHolds DEF HostTypeOK
  <1> QED BY <1>4, AccountAssumptions, AccountInvariant, ProfileAssumptions, ProfileInvariant,
             GatewayAssumptions, GatewayInvariant, UpdateInvariant, PTL
==============================================================================
