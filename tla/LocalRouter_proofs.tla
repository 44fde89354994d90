------------------------- MODULE LocalRouter_proofs -------------------------
(***************************************************************************)
(* What a request through the local router keeps, for any configuration    *)
(* files, environment, starts, clients and answers.  Its invariants:       *)
(*                                                                         *)
(*   CloseInv  where a request that was announced to the metrics is, until *)
(*             its records are closed;                                     *)
(*   HomeInv   which credentials a request carries at each step, and to    *)
(*             which endpoint they belong;                                 *)
(*   RouteInv  the endpoint a turn is handed to is one of the              *)
(*             configuration's, and the one its layers mean;               *)
(*   TurnInv   messages head for the adapter or a configured endpoint;     *)
(*   ToolInv   what is sent of an ask is what it was translated to.        *)
(*                                                                         *)
(* The endpoints the router knows are a fold over the declarations of the  *)
(* files; what a fold from the left yields is proved by induction over a   *)
(* set of numbers, and the paths of a request by cases.                    *)
(***************************************************************************)
EXTENDS LocalRouter, StreamAnswers_proofs

-----------------------------------------------------------------------------
(* The endpoints of a file, placed among the built-in ones one by one.     *)
PlacedStep(g, base, over, s) ==
  IF s = {} THEN base ELSE T!Placed(g[s \ {TopOf(s)}], over[TopOf(s)])
PlacedIter(base, over) ==
  CHOOSE g : g = [s \in SUBSET DOMAIN over |-> PlacedStep(g, base, over, s)]

(* Sequences over E, and those of them that name no endpoint twice.        *)
DistinctIds(endpoints) ==
  \A i, j \in DOMAIN endpoints : endpoints[i].id = endpoints[j].id => i = j
Distinct(E) == {s \in Seq(E) : DistinctIds(s)}

LEMMA PlacedIsSeq ==
  ASSUME NEW E, NEW endpoints \in Seq(E), NEW e \in E
  PROVE  T!Placed(endpoints, e) \in Seq(E)
<1>1. Append(endpoints, e) \in Seq(E)
  OBVIOUS
<1>2. ASSUME NEW i PROVE [endpoints EXCEPT ![i] = e] \in Seq(E)
  <2>1. [endpoints EXCEPT ![i] = e] \in [1..Len(endpoints) -> E]
    <3>1. endpoints \in [1..Len(endpoints) -> E]  OBVIOUS
    <3>2. QED BY <3>1, Zenon
  <2>2. QED BY <2>1, SeqDef
<1>3. QED BY <1>1, <1>2 DEF T!Placed

LEMMA PlacedIsDistinct ==
  ASSUME NEW E, NEW endpoints \in Distinct(E), NEW e \in E
  PROVE  T!Placed(endpoints, e) \in Distinct(E)
<1>1. endpoints \in Seq(E) /\ DistinctIds(endpoints)
  BY DEF Distinct
<1>2. T!Placed(endpoints, e) \in Seq(E)
  BY <1>1, PlacedIsSeq
<1>3. CASE \E i \in DOMAIN endpoints : endpoints[i].id = e.id
  <2> DEFINE Of(i) == /\ endpoints[i].id = e.id
                      /\ \A j \in DOMAIN endpoints : endpoints[j].id = e.id => i <= j
  <2>1. PICK k : k = CHOOSE i \in DOMAIN endpoints : Of(i)
    OBVIOUS
  <2>2. T!Placed(endpoints, e) = [endpoints EXCEPT ![k] = e]
    BY <1>3, <2>1 DEF T!Placed
  <2>3. PICK i \in DOMAIN endpoints : endpoints[i].id = e.id
    BY <1>3
  <2>4. Of(i)
    BY <1>1, <2>3 DEF DistinctIds
  <2>5. k \in DOMAIN endpoints /\ endpoints[k].id = e.id
    <3>1. k \in DOMAIN endpoints /\ Of(k)
      <4> HIDE DEF Of
      <4> QED BY <2>1, <2>4
    <3>2. QED BY <3>1
  <2>6. PICK t : t = [endpoints EXCEPT ![k] = e]
    OBVIOUS
  <2>7. DOMAIN t = DOMAIN endpoints /\ \A j \in DOMAIN t : t[j].id = endpoints[j].id
    BY <1>1, <2>5, <2>6
  <2>8. DistinctIds(t)
    BY <1>1, <2>7 DEF DistinctIds
  <2>9. QED BY <1>2, <2>2, <2>6, <2>8 DEF Distinct
<1>4. CASE ~\E i \in DOMAIN endpoints : endpoints[i].id = e.id
  <2>1. PICK t : t = Append(endpoints, e)  OBVIOUS
  <2>2. /\ DOMAIN t = 1..(Len(endpoints) + 1)
        /\ DOMAIN endpoints = 1..Len(endpoints)
        /\ \A j \in DOMAIN endpoints : t[j] = endpoints[j]
        /\ t[Len(endpoints) + 1] = e
    BY <1>1, <2>1
  <2>3. DistinctIds(t)
    <3> SUFFICES ASSUME NEW i \in DOMAIN t, NEW j \in DOMAIN t, t[i].id = t[j].id PROVE i = j
      BY DEF DistinctIds
    <3>1. Len(endpoints) \in Nat  BY <1>1
    <3>2. /\ i \in DOMAIN endpoints \/ i = Len(endpoints) + 1
          /\ j \in DOMAIN endpoints \/ j = Len(endpoints) + 1
      BY <2>2, <3>1
    <3>3. QED BY <1>1, <1>4, <2>2, <3>2 DEF DistinctIds
  <2>4. T!Placed(endpoints, e) = t
    BY <1>4, <2>1 DEF T!Placed
  <2>5. QED BY <1>2, <2>3, <2>4 DEF Distinct
<1>5. QED BY <1>3, <1>4

LEMMA PlacedEach ==
  ASSUME NEW E, NEW base \in Distinct(E), NEW over \in Seq(E)
  PROVE  T!FoldLeft(T!Placed, base, over) \in Distinct(E)
<1> DEFINE n == Len(over)
           g == PlacedIter(base, over)
<1>1. n \in Nat /\ DOMAIN over = 1..n
  OBVIOUS
<1>2. T!FoldLeft(T!Placed, base, over) = g[DOMAIN over]
  BY Zenon DEF T!FoldLeft, T!MapThenFoldSet, PlacedIter, PlacedStep, T!Max, TopOf
<1>3. \A s \in SUBSET (1..n) : g[s] = PlacedStep(g, base, over, s)
  <2> DEFINE step == [p \in Distinct(E) \X (1..n) |-> T!Placed(p[1], over[p[2]])]
  <2>1. step \in [Distinct(E) \X (1..n) -> Distinct(E)]
    BY <1>1, PlacedIsDistinct
  <2>2. PICK f \in [SUBSET (1..n) -> Distinct(E)] : FoldOver(base, step, n, f)
    <3> HIDE DEF step, n
    <3>1. \A k \in Nat : k <= n => \E f \in [SUBSET (1..k) -> Distinct(E)] : FoldOver(base, step, k, f)
      BY <2>1, <1>1, FoldExists
    <3>2. n <= n  BY <1>1
    <3>3. QED BY <3>1, <3>2, <1>1
  <2>3. f = [s \in SUBSET DOMAIN over |-> PlacedStep(f, base, over, s)]
    <3>1. ASSUME NEW s \in SUBSET (1..n) PROVE f[s] = PlacedStep(f, base, over, s)
      <4>1. CASE s = {}
        BY <4>1, <2>2 DEF FoldOver, PlacedStep
      <4>2. CASE s # {}
        <5>1. TopOf(s) \in 1..n
          BY <4>2, <1>1, TopIsIn
        <5>2. f[s \ {TopOf(s)}] \in Distinct(E)
          BY <2>2
        <5>3. f[s] = step[<<f[s \ {TopOf(s)}], TopOf(s)>>]
          BY <4>2, <2>2 DEF FoldOver
        <5>4. QED BY <5>1, <5>2, <5>3, <4>2 DEF PlacedStep
      <4>3. QED BY <4>1, <4>2
    <3>2. QED BY <3>1, <1>1, <2>2
  <2>4. g = [s \in SUBSET DOMAIN over |-> PlacedStep(g, base, over, s)]
    BY <2>3 DEF PlacedIter
  <2>5. QED BY <2>4, <1>1
<1>4. \A k \in Nat : k <= n => g[1..k] \in Distinct(E)
  <2> DEFINE S == {k \in Nat : k <= n => g[1..k] \in Distinct(E)}
  <2> HIDE DEF g, n
  <2>1. 0 \in S
    <3>1. 1..0 = {} /\ {} \in SUBSET (1..n)  OBVIOUS
    <3>2. g[1..0] = base  BY <3>1, <1>3 DEF PlacedStep
    <3>3. QED BY <3>2
  <2>2. ASSUME NEW k \in Nat, k \in S PROVE k + 1 \in S
    <3>1. SUFFICES ASSUME k + 1 <= n PROVE g[1..(k + 1)] \in Distinct(E)
      OBVIOUS
    <3>2. TopOf(1..(k + 1)) = k + 1
      BY LastIsMax
    <3>3. /\ (1..(k + 1)) \ {k + 1} = 1..k
          /\ 1..(k + 1) # {}
          /\ 1..(k + 1) \in SUBSET (1..n)
      <4>1. (1..(k + 1)) \ {k + 1} = 1..k  OBVIOUS
      <4>2. k + 1 \in 1..(k + 1)  OBVIOUS
      <4>3. 1..(k + 1) \in SUBSET (1..n)  BY <1>1, <3>1
      <4>4. QED BY <4>1, <4>2, <4>3
    <3>4. g[1..(k + 1)] = T!Placed(g[1..k], over[k + 1])
      BY <1>3, <3>2, <3>3 DEF PlacedStep
    <3>5. g[1..k] \in Distinct(E) /\ over[k + 1] \in E
      BY <2>2, <3>1, <1>1
    <3>6. QED BY <3>4, <3>5, PlacedIsDistinct
  <2>3. QED
    <3> HIDE DEF S
    <3>1. \A k \in Nat : k \in S  BY <2>1, <2>2, AllNumbers
    <3>2. QED BY <3>1 DEF S
<1>5. QED BY <1>1, <1>2, <1>4

-----------------------------------------------------------------------------
(* What the router has loaded: a sequence of endpoints, each of them valid.*)
Sound(endpoints) ==
  /\ endpoints \in Seq(T!Range(endpoints))
  /\ \A e \in T!Range(endpoints) : T!ValidEndpoint(e)

LEMMA SeqOverRange == \A E : \A s \in Seq(E) : s \in Seq(T!Range(s))
<1> SUFFICES ASSUME NEW E, NEW s \in Seq(E) PROVE s \in Seq(T!Range(s))
  OBVIOUS
<1>1. s \in [1..Len(s) -> T!Range(s)]
  BY DEF T!Range
<1>2. QED BY <1>1, SeqDef

LEMMA ReadIsSeq ==
  ASSUME file \in Files \cup {Nothing}
  PROVE  /\ T!Read.endpoints \in Seq(T!Range(T!Read.endpoints))
         /\ \E r : T!Read = [endpoints |-> T!Read.endpoints, routes |-> r]
         /\ file = Nothing \/ ~file.replace => DistinctIds(T!Read.endpoints)
<1>1. CASE file = Nothing
  BY <1>1, RouterAssumption DEF T!Read, T!DefaultConfig, DistinctIds
<1>2. CASE file # Nothing /\ file.replace
  <2>1. T!Read = [endpoints |-> file.endpoints, routes |-> file.routes]
    BY <1>2 DEF T!Read
  <2>2. file.endpoints \in Seq(T!Range(file.endpoints))
    BY <1>2, RouterAssumption
  <2>3. QED BY <1>2, <2>1, <2>2
<1>3. CASE file # Nothing /\ ~file.replace
  <2> DEFINE E == T!Range(Defaults) \cup T!Range(file.endpoints)
             s == T!FoldLeft(T!Placed, Defaults, file.endpoints)
  <2>1. Defaults \in Seq(T!Range(Defaults)) /\ file.endpoints \in Seq(T!Range(file.endpoints))
    BY <1>3, RouterAssumption
  <2>2. Defaults \in Seq(E) /\ file.endpoints \in Seq(E)
    BY <2>1
  <2>. Defaults \in Distinct(E)
    BY <2>2, RouterAssumption DEF Distinct, DistinctIds
  <2>3. s \in Seq(E) /\ DistinctIds(s)
    <3> HIDE DEF E
    <3> QED BY <2>2, PlacedEach DEF Distinct
  <2>4. s \in Seq(T!Range(s))
    BY <2>3, SeqOverRange
  <2>5. T!Read = T!Merged(T!DefaultConfig, file)
    BY <1>3 DEF T!Read
  <2>6. PICK r : T!Read = [endpoints |-> s, routes |-> r]
    BY <2>5 DEF T!Merged, T!DefaultConfig
  <2>7. QED
    <3> HIDE DEF s
    <3> QED BY <2>3, <2>4, <2>6
<1>4. QED BY <1>1, <1>2, <1>3

LEMMA LoadsSound ==
  ASSUME file \in Files \cup {Nothing}, T!Load
  PROVE  phase' = "idle" => Sound(config'.endpoints)
<1> SUFFICES ASSUME phase' = "idle" PROVE Sound(config'.endpoints)
  OBVIOUS
<1> DEFINE c == T!WithEnvironment(T!Read, launch.override)
<1>1. T!Valid(c) /\ config' = T!Normalised(c)
  BY DEF T!Load
<1>2. c.endpoints = T!Read.endpoints /\ config'.endpoints = c.endpoints
  <2>1. PICK r : T!Read = [endpoints |-> T!Read.endpoints, routes |-> r]
    BY ReadIsSeq
  <2>2. PICK s : c = [T!Read EXCEPT !.routes = s]
    BY <2>1 DEF T!WithEnvironment
  <2>3. c.endpoints = T!Read.endpoints
    BY <2>1, <2>2
  <2>4. c = [endpoints |-> T!Read.endpoints, routes |-> s]
    BY <2>1, <2>2
  <2>5. PICK t : config' = [c EXCEPT !.routes = t]
    BY <1>1 DEF T!Normalised
  <2>6. config'.endpoints = c.endpoints
    <3> HIDE DEF c
    <3> QED BY <2>4, <2>5
  <2>7. QED BY <2>3, <2>6
<1>3. \A e \in T!Range(c.endpoints) : T!ValidEndpoint(e)
  BY <1>1 DEF T!Valid
<1>4. QED
  <2> HIDE DEF c
  <2> QED BY <1>2, <1>3, ReadIsSeq DEF Sound

(* The first endpoint that qualifies is one that does.                     *)
LEMMA FirstIsIn ==
  ASSUME NEW S, config.endpoints \in Seq(T!Range(config.endpoints)),
         \E e \in T!Endpoints : e \in S
  PROVE  T!First(S) \in S /\ T!First(S) \in T!Endpoints
<1> DEFINE I == {i \in DOMAIN config.endpoints : config.endpoints[i] \in S}
<1>1. I \in SUBSET Nat
  BY DEF T!Range
<1>2. I # {}
  BY DEF T!Endpoints, T!Range
<1>3. PICK m \in I : \A j \in I : m <= j
  <2> HIDE DEF I
  <2> QED BY <1>1, <1>2, SmallestNumber
<1>4. PICK i \in I : T!First(S) = config.endpoints[i]
  <2> DEFINE Least(i) == \A j \in I : i <= j
  <2>1. T!First(S) = config.endpoints[CHOOSE i \in I : Least(i)]
    BY DEF T!First
  <2>2. Least(m)  BY <1>3
  <2>3. QED
    <3> HIDE DEF Least, I
    <3> QED BY <2>1, <2>2
<1>5. QED BY <1>4 DEF T!Endpoints, T!Range

LEMMA TargetIsKnown ==
  ASSUME Sound(config.endpoints), T!Known(decision.endpoint)
  PROVE  T!Target \in T!Endpoints /\ T!Target.id = decision.endpoint
<1> DEFINE S == {e \in T!Endpoints : e.id = decision.endpoint}
<1>1. \E e \in T!Endpoints : e \in S
  BY DEF T!Known
<1>2. T!First(S) \in S
  <2> HIDE DEF S
  <2> QED BY <1>1, FirstIsIn DEF Sound
<1>3. QED BY <1>2 DEF T!Target, T!Endpoint

-----------------------------------------------------------------------------
(* A message that may be sent for a request over the endpoints.            *)
Belongs(m) ==
  \A c \in m.auth :
    CASE c[1] = "caller" ->
           \E e \in T!Endpoints : e.id = m.to /\ e.auth = "client" /\ T!ClientBearerAllowed(e)
      [] OTHER ->
           \E e \in T!Endpoints : /\ c \in T!Static(e) \cup T!EnvKey(e)
                                  /\ m.to = e.id \/ (m.to = "adapter" /\ T!ByRedirect(e))

Tokenless(m) == <<"caller", "token">> \notin m.auth

LEMMA OwnBelongs ==
  ASSUME NEW e \in T!Endpoints
  PROVE  Belongs(T!TranslatedTo(e)) /\ Tokenless(T!TranslatedTo(e))
  BY DEF Belongs, Tokenless, T!TranslatedTo, T!Message, T!Own, T!Static, T!EnvKey

LEMMA CallersBelong ==
  ASSUME NEW e \in T!Endpoints, T!ValidEndpoint(e), NEW r
  PROVE  /\ Belongs(T!PassedThrough(e, r))
         /\ Belongs(T!ChatPassedThrough(e, r))
         /\ launch.guarded => Tokenless(T!ChatPassedThrough(e, r))
  BY DEF Belongs, Tokenless, T!PassedThrough, T!ChatPassedThrough, T!Message, T!Own, T!Static,
         T!EnvKey, T!Callers, T!Stripped, T!ValidEndpoint

LEMMA RedirectBelongs ==
  ASSUME NEW e \in T!Endpoints, T!ByRedirect(e)
  PROVE  /\ Belongs(T!Message("adapter", T!Static(e) \cup T!EnvKey(e)))
         /\ Tokenless(T!Message("adapter", T!Static(e) \cup T!EnvKey(e)))
  BY DEF Belongs, Tokenless, T!Message, T!Static, T!EnvKey

(* While a request is under way it is announced exactly on the two paths   *)
(* that are, and what was sent on the Messages path was not sent to an     *)
(* endpoint whose redirect is followed.                                    *)
CloseInv ==
  /\ phase \in {"load", "down", "idle"} => announced = FALSE
  /\ announced = TRUE => request.path \in {"messages", "responses"}
  /\ announced = TRUE \/ announced = FALSE
  /\ phase = "sent" /\ announced = TRUE /\ request.path = "messages" => ~T!Reaches("responses")
  /\ T!AnnouncedIsClosed

LEMMA CloseInit == T!TurnInit => CloseInv
  BY DEF T!TurnInit, T!RouteInit, CloseInv, T!AnnouncedIsClosed

(* What a request that is under way was decided to.                        *)
LEMMA Decided ==
  ASSUME T!Unchanged
  PROVE  /\ request' = request
         /\ (T!Missing)' = T!Missing
         /\ \A p : T!Reaches(p)' = T!Reaches(p)
         /\ (T!ToLocal)' = T!ToLocal
  BY DEF T!Unchanged, T!Missing, T!ToLocal, T!Known, T!Endpoints, T!Reaches, T!Target,
         T!Endpoint, T!First

(* The ways out that leave a request open.                                 *)
LEMMA Gaps ==
  ASSUME T!Unchanged
  PROVE  /\ T!Missing /\ request.path = "responses" => (T!KnownGap)'
         /\ answer' = "redirect rejected" /\ request.path = "responses" => (T!KnownGap)'
         /\ answer' = "whole response" /\ request.path = "responses" /\ outbound' = outbound
              => (T!KnownGap)' \/ T!SentToAdapter
         /\ UNCHANGED <<answer, outbound>> => ((T!KnownGap)' <=> T!KnownGap)
<1>1. request' = request /\ ((T!Missing)' <=> T!Missing)  BY Decided
<1>2. outbound' = outbound => ((T!SentToAdapter)' <=> T!SentToAdapter)
  BY DEF T!SentToAdapter, T!Message
<1>3. (T!KnownGap)' <=> /\ request.path = "responses"
                       /\ \/ T!Missing \/ answer' = "redirect rejected"
                          \/ answer' = "whole response" /\ ~(T!SentToAdapter)'
  BY <1>1, Zenon DEF T!KnownGap
<1>4. T!KnownGap <=> /\ request.path = "responses"
                    /\ \/ T!Missing \/ answer = "redirect rejected"
                       \/ answer = "whole response" /\ ~T!SentToAdapter
  BY Zenon DEF T!KnownGap
<1>5. QED BY <1>1, <1>2, <1>3, <1>4, Zenon

LEMMA CloseStep ==
  ASSUME CloseInv, T!TurnNext
  PROVE  CloseInv'
<1> USE DEF CloseInv, T!AnnouncedIsClosed
<1>1. CASE T!Start
  BY <1>1 DEF T!Start, T!Load, T!turnVars
<1>2. CASE T!Refuse
  BY <1>2 DEF T!Refuse
<1>3. CASE T!Arrive
  <2>1. phase' = "routed" /\ announced' = (request'.path \in {"messages", "responses"})
    BY <1>3, Zenon DEF T!Arrive, T!Decide
  <2>3. CASE request'.path \in {"messages", "responses"}
    <3>1. announced' = TRUE  BY <2>1, <2>3, Zenon
    <3>2. QED BY <2>1, <2>3, <3>1
  <2>4. CASE request'.path \notin {"messages", "responses"}
    <3>1. (request'.path \in {"messages", "responses"}) = FALSE  BY <2>4
    <3>2. announced' = FALSE  BY <2>1, <3>1, Zenon
    <3>3. QED BY <2>1, <3>2
  <2>2. QED BY <2>3, <2>4
<1>4. CASE T!ListModels
  BY <1>4 DEF T!ListModels
<1>5. CASE T!Messages
  BY <1>5, Decided DEF T!Messages, T!Ends, T!Sends, T!SendsWithKey, T!Announced, T!Reaches
<1>6. CASE T!RefuseTools
  BY <1>6, Decided DEF T!RefuseTools, T!Ends
<1>7. CASE T!Responses
  BY <1>7, Decided, Gaps DEF T!Responses, T!Ends, T!Sends, T!SendsWithKey, T!Announced
<1>8. CASE T!Auxiliary
  BY <1>8, Decided DEF T!Auxiliary, T!Ends, T!Sends, T!SendsWithKey, T!Announced
<1>9. CASE T!Passthrough
  BY <1>9, Decided DEF T!Passthrough, T!Ends, T!Sends, T!SendsWithKey, T!Announced
<1>10. CASE T!Chat
  BY <1>10, Decided DEF T!Chat, T!Ends, T!Sends, T!SendsWithKey, T!Announced
<1>11. CASE T!Fails
  BY <1>11, Decided DEF T!Fails, T!Ends, T!Announced
<1>12. CASE T!Answers
  BY <1>12, Decided, Gaps DEF T!Answers, T!AnsweredBy, T!Ends, T!Announced
<1>13. CASE T!Redirect
  BY <1>13, Decided, Gaps DEF T!Redirect, T!FollowsRedirects, T!Ends
<1>14. CASE T!Redirected
  BY <1>14, Decided DEF T!Redirected, T!Ends, T!Announced
<1>15. QED
  BY <1>1, <1>2, <1>3, <1>4, <1>5, <1>6, <1>7, <1>8, <1>9, <1>10, <1>11, <1>12, <1>13, <1>14
     DEF T!TurnNext

(* A step of another part, or none, leaves a request as it is.             *)
LEMMA TurnPart ==
  /\ RouterInit /\ part = "turns" => T!TurnInit
  /\ [RouterNext]_allVars =>
       /\ part' = part
       /\ part = "turns" => T!TurnNext \/ UNCHANGED turnVars
  BY DEF RouterInit, RouterNext, allVars

LEMMA CloseStutter ==
  ASSUME CloseInv, UNCHANGED turnVars
  PROVE  CloseInv'
<1>1. /\ T!Unchanged
      /\ phase' = phase /\ announced' = announced /\ closers' = closers /\ answer' = answer
  BY DEF turnVars, T!Unchanged
<1>2. (T!KnownGap)' <=> T!KnownGap
  BY <1>1, Gaps DEF turnVars
<1>3. QED
  BY <1>1, <1>2, Decided DEF CloseInv, T!AnnouncedIsClosed

(* A request that was announced to the metrics is closed when it has been  *)
(* answered.                                                               *)
THEOREM AnnouncedRequestsClose == RouterSpec => []AnnouncedIsClosed
<1> DEFINE Closed == part = "turns" => CloseInv
<1>1. RouterInit => Closed
  BY TurnPart, CloseInit
<1>2. Closed /\ [RouterNext]_allVars => Closed'
  BY TurnPart, CloseStep, CloseStutter
<1>3. Closed => AnnouncedIsClosed
  BY DEF CloseInv, AnnouncedIsClosed
<1>4. QED BY <1>1, <1>2, <1>3, PTL DEF RouterSpec

(* Nothing is sent before the endpoints are known and sound, and what was  *)
(* sent belongs where it went.                                             *)
HomeInv ==
  /\ phase = "load" => file \in Files \cup {Nothing}
  /\ phase \in {"load", "down", "idle"} => outbound = {}
  /\ phase \notin {"load", "down"} => Sound(config.endpoints)
  /\ \A m \in outbound : Belongs(m)
  /\ launch # Nothing /\ launch.guarded /\ request # Nothing /\ request.path = "chat"
       => \A m \in outbound : Tokenless(m)

LEMMA HomeIsHome == HomeInv => T!CredentialsStayHome
  BY Zenon DEF HomeInv, T!CredentialsStayHome, T!CredentialsBelong, T!TokenStays, Belongs, Tokenless

LEMMA HomeInit == T!TurnInit => HomeInv
  BY DEF T!TurnInit, T!RouteInit, HomeInv

(* What a message may be does not change while the configuration does not. *)
LEMMA BelongsStays ==
  ASSUME UNCHANGED <<config, launch>>
  PROVE  /\ \A m : Belongs(m)' <=> Belongs(m)
         /\ Sound(config.endpoints)' <=> Sound(config.endpoints)
  BY DEF Belongs, Tokenless, Sound, T!Endpoints, T!ByRedirect

(* A step after the decision that sends at most one message.               *)
SendsAtMost(m) == outbound' \in {outbound, outbound \cup {m}}
LEMMA SendsHome ==
  ASSUME HomeInv, phase \notin {"load", "down", "idle"}, phase' \notin {"load", "down", "idle"},
         T!Unchanged, NEW m, SendsAtMost(m), Belongs(m),
         request.path = "chat" /\ launch.guarded => Tokenless(m)
  PROVE  HomeInv'
<1>1. /\ file' = file /\ launch' = launch /\ config' = config /\ request' = request
      /\ decision' = decision
  BY DEF T!Unchanged
<1>2. \A k \in outbound' : k \in outbound \/ k = m
  BY DEF SendsAtMost
<1>3. \A k \in outbound' : Belongs(k)'
  BY <1>1, <1>2, BelongsStays DEF HomeInv
<1>4. Sound(config.endpoints)'
  BY <1>1, BelongsStays DEF HomeInv
<1>5. launch # Nothing /\ launch.guarded /\ request # Nothing /\ request.path = "chat"
        => \A k \in outbound' : Tokenless(k)
  BY <1>2 DEF HomeInv
<1>6. QED
  BY <1>1, <1>3, <1>4, <1>5 DEF HomeInv, Tokenless

LEMMA KeepsHome ==
  ASSUME HomeInv, phase \notin {"load", "down", "idle"}, phase' \notin {"load", "down", "idle"},
         T!Unchanged, outbound' = outbound
  PROVE  HomeInv'
<1>1. Belongs(T!ToAdapter) /\ Tokenless(T!ToAdapter) /\ SendsAtMost(T!ToAdapter)
  BY DEF T!ToAdapter, T!Message, Belongs, Tokenless, SendsAtMost
<1>2. QED BY <1>1, SendsHome

LEMMA AnswersHome ==
  ASSUME HomeInv, phase \in {"routed", "sent", "redirected"}, T!Unchanged, UNCHANGED outbound,
         NEW a, NEW who, T!Ends(a, who)
  PROVE  HomeInv'
<1>1. outbound' = outbound /\ phase' = "done"
  BY DEF T!Ends
<1>2. QED BY <1>1, KeepsHome

LEMMA AdapterHome ==
  ASSUME HomeInv, phase = "routed", T!Unchanged, T!Sends(T!ToAdapter)
  PROVE  HomeInv'
<1>1. /\ SendsAtMost(T!ToAdapter) /\ phase' = "sent"
      /\ Belongs(T!ToAdapter) /\ Tokenless(T!ToAdapter)
  BY DEF T!Sends, SendsAtMost, T!ToAdapter, T!Message, Belongs, Tokenless
<1>2. QED BY <1>1, SendsHome

LEMMA KeyedHome ==
  ASSUME HomeInv, phase = "routed", T!Unchanged, NEW m, T!SendsWithKey(m), Belongs(m),
         request.path = "chat" /\ launch.guarded => Tokenless(m)
  PROVE  HomeInv'
<1>1. CASE T!Keyless(T!Target)
  <2>1. T!Ends("error", T!Announced) /\ UNCHANGED outbound
    BY <1>1 DEF T!SendsWithKey
  <2>2. QED BY <2>1, AnswersHome
<1>2. CASE ~T!Keyless(T!Target)
  <2>1. SendsAtMost(m) /\ phase' = "sent"
    BY <1>2 DEF T!SendsWithKey, T!Sends, SendsAtMost
  <2>2. QED BY <2>1, SendsHome
<1>3. QED BY <1>1, <1>2

LEMMA RoutedTarget ==
  ASSUME HomeInv, phase \in {"routed", "sent"}, NEW p, T!Reaches(p)
  PROVE  T!Target \in T!Endpoints /\ T!ValidEndpoint(T!Target)
<1>1. Sound(config.endpoints) /\ T!Known(decision.endpoint)
  BY DEF HomeInv, T!Reaches
<1>2. QED BY <1>1, TargetIsKnown DEF Sound, T!Endpoints

LEMMA TranslatedHome ==
  ASSUME HomeInv, phase = "routed", T!Unchanged, NEW p, T!Reaches(p),
         T!SendsWithKey(T!TranslatedTo(T!Target))
  PROVE  HomeInv'
  BY RoutedTarget, OwnBelongs, KeyedHome

LEMMA PassedHome ==
  ASSUME HomeInv, phase = "routed", T!Unchanged, NEW p, T!Reaches(p), request.path # "chat",
         T!SendsWithKey(T!PassedThrough(T!Target, request))
  PROVE  HomeInv'
  BY RoutedTarget, CallersBelong, KeyedHome

LEMMA ChatPassedHome ==
  ASSUME HomeInv, phase = "routed", T!Unchanged, NEW p, T!Reaches(p),
         T!SendsWithKey(T!ChatPassedThrough(T!Target, request))
  PROVE  HomeInv'
  BY RoutedTarget, CallersBelong, KeyedHome

LEMMA LoadHome ==
  ASSUME HomeInv, T!Start
  PROVE  HomeInv'
<1>1. T!Load /\ phase = "load" /\ outbound' = outbound /\ outbound = {} /\ phase' \in {"idle", "down"}
  BY DEF T!Start, T!Load, T!turnVars, HomeInv
<1>2. file \in Files \cup {Nothing}
  BY <1>1 DEF HomeInv
<1>3. phase' = "idle" => Sound(config.endpoints)'
  BY <1>1, <1>2, LoadsSound DEF Sound
<1>4. QED BY <1>1, <1>3 DEF HomeInv

LEMMA CatalogueIsOfEndpoints ==
  ASSUME Sound(config.endpoints)
  PROVE  T!ModelsEndpoints \subseteq T!Endpoints
<1>1. T!Routed \subseteq T!Endpoints
  <2> DEFINE routes == <<config.routes.main, config.routes.default, config.routes.subagent>>
             found  == {i \in 1 .. 3 : routes[i] # Nothing /\ T!Known(routes[i].endpoint)}
  <2>1. CASE found = {}
    BY <2>1 DEF T!Routed
  <2>2. CASE found # {}
    <3> DEFINE Least(i) == \A j \in found : i <= j
               k == CHOOSE i \in found : Least(i)
    <3>1. T!Routed = {T!Endpoint(routes[k].endpoint)}
      BY <2>2 DEF T!Routed
    <3>2. k \in found
      <4>1. found \in SUBSET Nat  OBVIOUS
      <4>2. PICK m \in found : \A j \in found : m <= j
        <5> HIDE DEF found
        <5> QED BY <4>1, <2>2, SmallestNumber
      <4>3. Least(m)  BY <4>2
      <4>4. QED
        <5> HIDE DEF Least, found
        <5> QED BY <4>3
    <3>3. T!Known(routes[k].endpoint)
      <4> HIDE DEF k, routes
      <4> QED BY <3>2
    <3>4. PICK id : id = routes[k].endpoint  OBVIOUS
    <3>5. T!Endpoint(id) \in T!Endpoints
      <4> DEFINE S == {e \in T!Endpoints : e.id = id}
      <4>1. \E e \in T!Endpoints : e \in S
        BY <3>3, <3>4 DEF T!Known
      <4>2. T!First(S) \in T!Endpoints
        <5> HIDE DEF S
        <5> QED BY <4>1, FirstIsIn DEF Sound
      <4>3. QED BY <4>2 DEF T!Endpoint
    <3>6. QED
      <4> HIDE DEF k, routes
      <4> QED BY <3>1, <3>4, <3>5
  <2>3. QED BY <2>1, <2>2
<1>2. CASE \E e \in T!Routed : T!TakesCallers(e)
  BY <1>1, <1>2 DEF T!ModelsEndpoints
<1>3. CASE (\E e \in T!Endpoints : T!TakesCallers(e)) /\ ~\E e \in T!Routed : T!TakesCallers(e)
  <2> DEFINE S == {e \in T!Endpoints : T!TakesCallers(e)}
  <2>1. \E e \in T!Endpoints : e \in S  BY <1>3
  <2>2. T!First(S) \in T!Endpoints
    <3> HIDE DEF S
    <3> QED BY <2>1, FirstIsIn DEF Sound
  <2>3. QED BY <1>3, <2>2 DEF T!ModelsEndpoints
<1>4. CASE (~\E e \in T!Endpoints : T!TakesCallers(e)) /\ ~\E e \in T!Routed : T!TakesCallers(e)
  BY <1>4 DEF T!ModelsEndpoints
<1>5. QED BY <1>2, <1>3, <1>4

LEMMA CatalogueHome ==
  ASSUME HomeInv, T!ListModels
  PROVE  HomeInv'
<1>1. /\ phase = "idle" /\ phase' = "done" /\ request'.path = "models"
      /\ config' = config /\ launch' = launch
      /\ outbound' = {T!PassedThrough(e, request') : e \in T!ModelsEndpoints}
  BY DEF T!ListModels
<1>2. Sound(config.endpoints)
  BY <1>1 DEF HomeInv
<1>3. T!ModelsEndpoints \subseteq T!Endpoints
  BY <1>2, CatalogueIsOfEndpoints
<1>4. ASSUME NEW e \in T!ModelsEndpoints, NEW r
      PROVE  Belongs(T!PassedThrough(e, r))
  <2>1. e \in T!Endpoints /\ T!ValidEndpoint(e)
    BY <1>2, <1>3 DEF Sound, T!Endpoints
  <2>2. QED BY <2>1, CallersBelong
<1>5. \A m \in outbound' : Belongs(m)'
  <2> SUFFICES ASSUME NEW m \in outbound' PROVE Belongs(m)'
    OBVIOUS
  <2>1. PICK e \in T!ModelsEndpoints : m = T!PassedThrough(e, request')
    BY <1>1
  <2>2. PICK r : r = request'  OBVIOUS
  <2>3. Belongs(m)  BY <2>1, <2>2, <1>4
  <2>4. QED BY <2>3, <1>1, BelongsStays
<1>6. Sound(config.endpoints)'
  BY <1>1, <1>2, BelongsStays
<1>7. QED BY <1>1, <1>5, <1>6 DEF HomeInv

LEMMA HomeStep ==
  ASSUME HomeInv, T!TurnNext
  PROVE  HomeInv'
<1>1. CASE T!Start
  BY <1>1, LoadHome
<1>2. CASE T!Refuse
  <2>1. /\ phase = "idle" /\ phase' = "done" /\ outbound' = outbound /\ outbound = {}
        /\ config' = config /\ launch' = launch /\ file' = file /\ Sound(config.endpoints)
    BY <1>2 DEF T!Refuse, HomeInv
  <2>2. Sound(config.endpoints)'
    BY <2>1, BelongsStays
  <2>3. QED BY <2>1, <2>2 DEF HomeInv
<1>3. CASE T!Arrive
  <2>1. /\ phase = "idle" /\ phase' = "routed" /\ outbound' = outbound /\ outbound = {}
        /\ config' = config /\ launch' = launch /\ file' = file /\ Sound(config.endpoints)
    BY <1>3 DEF T!Arrive, T!Decide, HomeInv
  <2>2. Sound(config.endpoints)'
    BY <2>1, BelongsStays
  <2>3. QED BY <2>1, <2>2 DEF HomeInv
<1>4. CASE T!ListModels
  BY <1>4, CatalogueHome
<1>5. CASE T!Messages
  <2>1. phase = "routed" /\ T!Unchanged /\ request.path = "messages"
    BY <1>5 DEF T!Messages
  <2>2. \/ T!Ends("redirect", {"adapter"}) /\ UNCHANGED outbound
        \/ T!Ends("error", {"router"}) /\ UNCHANGED outbound
        \/ \E p : T!Reaches(p) /\ T!SendsWithKey(T!TranslatedTo(T!Target))
    BY <1>5, Zenon DEF T!Messages
  <2>3. QED BY <2>1, <2>2, AnswersHome, TranslatedHome
<1>6. CASE T!RefuseTools
  BY <1>6, AnswersHome DEF T!RefuseTools
<1>7. CASE T!Responses
  <2>1. phase = "routed" /\ T!Unchanged /\ request.path = "responses"
    BY <1>7 DEF T!Responses
  <2>2. \/ T!Sends(T!ToAdapter)
        \/ T!Ends("error", {}) /\ UNCHANGED outbound
        \/ \E p : T!Reaches(p) /\ T!SendsWithKey(T!PassedThrough(T!Target, request))
        \/ \E p : T!Reaches(p) /\ T!SendsWithKey(T!TranslatedTo(T!Target))
    BY <1>7, Zenon DEF T!Responses
  <2>3. QED BY <2>1, <2>2, AdapterHome, AnswersHome, PassedHome, TranslatedHome
<1>8. CASE T!Auxiliary
  <2>1. phase = "routed" /\ T!Unchanged
    BY <1>8 DEF T!Auxiliary
  <2>2. \/ T!Sends(T!ToAdapter)
        \/ T!Ends("error", {}) /\ UNCHANGED outbound
        \/ \E p : T!Reaches(p) /\ T!SendsWithKey(T!TranslatedTo(T!Target))
    BY <1>8, Zenon DEF T!Auxiliary
  <2>3. QED BY <2>1, <2>2, AdapterHome, AnswersHome, TranslatedHome
<1>9. CASE T!Passthrough
  <2>1. phase = "routed" /\ T!Unchanged /\ request.path # "chat"
    BY <1>9 DEF T!Passthrough
  <2>2. \/ T!Ends("error", {}) /\ UNCHANGED outbound
        \/ T!Ends("not implemented", {}) /\ UNCHANGED outbound
        \/ \E p : T!Reaches(p) /\ T!SendsWithKey(T!PassedThrough(T!Target, request))
    BY <1>9, Zenon DEF T!Passthrough
  <2>3. QED BY <2>1, <2>2, AnswersHome, PassedHome
<1>10. CASE T!Chat
  <2>1. phase = "routed" /\ T!Unchanged
    BY <1>10 DEF T!Chat
  <2>2. \/ T!Sends(T!ToAdapter)
        \/ \E a : T!Ends(a, {}) /\ UNCHANGED outbound
        \/ \E p : T!Reaches(p) /\ T!SendsWithKey(T!TranslatedTo(T!Target))
        \/ \E p : T!Reaches(p) /\ T!SendsWithKey(T!ChatPassedThrough(T!Target, request))
    BY <1>10, Zenon DEF T!Chat
  <2>3. QED BY <2>1, <2>2, AdapterHome, AnswersHome, TranslatedHome, ChatPassedHome
<1>11. CASE T!Fails
  BY <1>11, AnswersHome DEF T!Fails
<1>12. CASE T!Answers
  BY <1>12, AnswersHome DEF T!Answers
<1>13. CASE T!Redirect
  <2> DEFINE m == T!Message("adapter", T!Static(T!Target) \cup T!EnvKey(T!Target))
  <2>1. phase = "sent" /\ T!Unchanged /\ T!FollowsRedirects
    BY <1>13 DEF T!Redirect
  <2>2. CASE T!Ends("redirect rejected", {}) /\ UNCHANGED outbound
    BY <2>1, <2>2, AnswersHome
  <2>3. CASE outbound' = outbound \cup {m} /\ phase' = "redirected"
    <3>1. T!Target \in T!Endpoints
      BY <2>1, RoutedTarget DEF T!FollowsRedirects
    <3>2. T!ByRedirect(T!Target)
      BY <2>1 DEF T!FollowsRedirects, T!ByRedirect, T!Reaches
    <3>3. Belongs(m) /\ Tokenless(m)
      BY <3>1, <3>2, RedirectBelongs
    <3>4. SendsAtMost(m)
      BY <2>3 DEF SendsAtMost
    <3>5. QED
      <4> HIDE DEF m
      <4> QED BY <2>1, <2>3, <3>3, <3>4, SendsHome
  <2>4. QED BY <1>13, <2>2, <2>3 DEF T!Redirect
<1>14. CASE T!Redirected
  BY <1>14, AnswersHome DEF T!Redirected
<1>15. QED
  BY <1>1, <1>2, <1>3, <1>4, <1>5, <1>6, <1>7, <1>8, <1>9, <1>10, <1>11, <1>12, <1>13, <1>14
     DEF T!TurnNext

LEMMA HomeStutter ==
  ASSUME HomeInv, UNCHANGED turnVars
  PROVE  HomeInv'
<1>1. /\ phase' = phase /\ file' = file /\ launch' = launch /\ config' = config
      /\ request' = request /\ outbound' = outbound
  BY DEF turnVars
<1>2. \A m \in outbound' : Belongs(m)'
  BY <1>1, BelongsStays DEF HomeInv
<1>3. phase \notin {"load", "down"} => Sound(config.endpoints)'
  BY <1>1, BelongsStays DEF HomeInv
<1>4. QED BY <1>1, <1>2, <1>3 DEF HomeInv, Tokenless

(* A credential leaves the router only for where it belongs.               *)
THEOREM CredentialsAreKept == RouterSpec => []CredentialsStayHome
<1> DEFINE Home == part = "turns" => HomeInv
<1>1. RouterInit => Home
  BY TurnPart, HomeInit
<1>2. Home /\ [RouterNext]_allVars => Home'
  BY TurnPart, HomeStep, HomeStutter
<1>3. Home => CredentialsStayHome
  BY HomeIsHome DEF CredentialsStayHome
<1>4. QED BY <1>1, <1>2, <1>3, PTL DEF RouterSpec

-----------------------------------------------------------------------------
(* The configuration that was loaded, field by field.                      *)
RoutesOf(m, s, d, x, y) ==
  [main |-> m, subagent |-> s, default |-> d, models |-> x, subagents |-> y]

LEMMA ReadRoutes ==
  ASSUME file \in Files \cup {Nothing}
  PROVE  \E m, s, d, x, y :
           /\ T!Read.routes = RoutesOf(m, s, d, x, y)
           /\ file # Nothing /\ file.routes.main # Nothing /\ file.routes.subagent = Nothing
                => m = file.routes.main /\ s = Nothing
<1>1. CASE file = Nothing
  BY <1>1, Zenon DEF T!Read, T!DefaultConfig, RoutesOf
<1>2. CASE file # Nothing /\ file.replace
  <2>1. T!Read = [endpoints |-> file.endpoints, routes |-> file.routes]
    BY <1>2 DEF T!Read
  <2>2. file.routes = RoutesOf(file.routes.main, file.routes.subagent, file.routes.default,
                               file.routes.models, file.routes.subagents)
    BY <1>2, RouterAssumption DEF RoutesOf
  <2>3. QED BY <2>1, <2>2
<1>3. CASE file # Nothing /\ ~file.replace
  <2> DEFINE b == T!DefaultConfig
             m == T!Or(file.routes.main, b.routes.main)
             s == T!MergedSubagent(b, file)
             d == T!Or(file.routes.default, b.routes.default)
  <2>1. PICK x, y :
          T!Read = [endpoints |-> T!FoldLeft(T!Placed, b.endpoints, file.endpoints),
                    routes |-> RoutesOf(m, s, d, x, y)]
    BY <1>3, Zenon DEF T!Read, T!Merged, RoutesOf
  <2>2. T!Read.routes = RoutesOf(m, s, d, x, y)
    BY <2>1
  <2>3. file.routes.main # Nothing /\ file.routes.subagent = Nothing
          => m = file.routes.main /\ s = Nothing
    BY DEF T!Or, T!MergedSubagent
  <2>4. QED BY <2>2, <2>3
<1>4. QED BY <1>1, <1>2, <1>3

LEMMA LoadedRoutes ==
  ASSUME file \in Files \cup {Nothing}, NEW o,
         NEW c, c = T!Normalised(T!WithEnvironment(T!Read, o))
  PROVE  /\ c.endpoints = T!Read.endpoints
         /\ file # Nothing /\ file.routes.main # Nothing /\ file.routes.subagent = Nothing =>
              /\ c.routes.main = T!Normal(T!Overridden(file.routes.main, o.mainModel,
                                                       o.mainEndpoint, "anthropic"))
              /\ c.routes.subagent = T!Normal(T!Overridden(Nothing, o.subModel,
                                                           o.subEndpoint, "local"))
<1>1. PICK m, s, d, x, y :
        /\ T!Read.routes = RoutesOf(m, s, d, x, y)
        /\ file # Nothing /\ file.routes.main # Nothing /\ file.routes.subagent = Nothing
             => m = file.routes.main /\ s = Nothing
  BY ReadRoutes
<1>2. PICK E : E = T!Read.endpoints  OBVIOUS
<1>3. PICK r : T!Read = [endpoints |-> T!Read.endpoints, routes |-> r]
  BY ReadIsSeq
<1>4. T!Read = [endpoints |-> E, routes |-> RoutesOf(m, s, d, x, y)]
  BY <1>1, <1>2, <1>3
<1>5. PICK v : v = T!Overridden(m, o.mainModel, o.mainEndpoint, "anthropic")  OBVIOUS
<1>6. PICK w : w = T!Overridden(s, o.subModel, o.subEndpoint, "local")  OBVIOUS
<1>7. T!WithEnvironment(T!Read, o) = [endpoints |-> E, routes |-> RoutesOf(v, w, d, x, y)]
  <2>1. PICK Plain : Plain = T!Read  OBVIOUS
  <2>2. [Plain EXCEPT !.routes.main = v, !.routes.subagent = w]
          = [endpoints |-> E, routes |-> RoutesOf(v, w, d, x, y)]
    <3>1. [Plain EXCEPT !.routes.main = v] = [endpoints |-> E, routes |-> RoutesOf(v, s, d, x, y)]
      <4>1. PICK Q : Q = Plain.routes  OBVIOUS
      <4>2. [Q EXCEPT !.main = v] = RoutesOf(v, s, d, x, y)
        BY <1>4, <2>1, <4>1 DEF RoutesOf
      <4>3. [Plain EXCEPT !.routes.main = v] = [Plain EXCEPT !.routes = [Q EXCEPT !.main = v]]
        BY <1>4, <2>1, <4>1
      <4>4. QED BY <1>4, <2>1, <4>2, <4>3
    <3>2. PICK P : P = [endpoints |-> E, routes |-> RoutesOf(v, s, d, x, y)]  OBVIOUS
    <3>3. [P EXCEPT !.routes.subagent = w] = [endpoints |-> E, routes |-> RoutesOf(v, w, d, x, y)]
      <4>1. PICK Q : Q = RoutesOf(v, s, d, x, y)  OBVIOUS
      <4>2. [Q EXCEPT !.subagent = w] = RoutesOf(v, w, d, x, y)
        BY <3>2, <4>1 DEF RoutesOf
      <4>3. [P EXCEPT !.routes.subagent = w] = [P EXCEPT !.routes = [Q EXCEPT !.subagent = w]]
        BY <3>2, <4>1
      <4>4. QED BY <3>2, <4>2, <4>3
    <3>4. [Plain EXCEPT !.routes.main = v, !.routes.subagent = w] = [P EXCEPT !.routes.subagent = w]
      BY <3>1, <3>2, Zenon
    <3>5. QED BY <3>3, <3>4
  <2>3. Plain.routes.main = m /\ Plain.routes.subagent = s
    BY <1>4, <2>1 DEF RoutesOf
  <2>4. T!WithEnvironment(Plain, o) = [Plain EXCEPT !.routes.main = v, !.routes.subagent = w]
    BY <1>5, <1>6, <2>3 DEF T!WithEnvironment
  <2>5. QED BY <2>1, <2>2, <2>4
<1>8. /\ c.endpoints = E
      /\ c.routes.main = T!Normal(v) /\ c.routes.subagent = T!Normal(w)
  <2>1. PICK f : f = [endpoints |-> E, routes |-> RoutesOf(v, w, d, x, y)]
    OBVIOUS
  <2>2. f.routes.main = v /\ f.routes.subagent = w
    BY <2>1 DEF RoutesOf
  <2>3. PICK p, q, z :
          c = [f EXCEPT !.routes = [main |-> T!Normal(@.main), subagent |-> T!Normal(@.subagent),
                                    default |-> p, models |-> q, subagents |-> z]]
    BY <1>7, <2>1, Zenon DEF T!Normalised
  <2>4. QED BY <2>1, <2>2, <2>3
<1>9. QED BY <1>1, <1>2, <1>5, <1>6, <1>8

-----------------------------------------------------------------------------
(* What a request goes to is what select_route makes of it, over what was  *)
(* read when the router started.                                           *)
Loaded == T!Normalised(T!WithEnvironment(T!Read, launch.override))
RouteInv ==
  /\ file \in Files \cup {Nothing} /\ launch \in Launches
  /\ phase \in {"load", "down"} => config = Nothing
  /\ phase \in {"load", "down", "idle"} => decision = Nothing
  /\ phase \notin {"load", "down"} => config = Loaded
  /\ decision # Nothing => decision \in T!Select(request)

LEMMA RouteInit == T!TurnInit => RouteInv
  BY DEF T!TurnInit, T!RouteInit, RouteInv

LEMMA SameLoaded ==
  ASSUME UNCHANGED <<file, launch>>
  PROVE  Loaded' = Loaded
  BY DEF Loaded, T!Read

LEMMA SelectsAlike ==
  ASSUME UNCHANGED <<launch, config>>
  PROVE  T!Select(request)' = T!Select(request')
  BY DEF T!Select, T!Wanted, T!PrefersModel, T!IsSentinel, T!SubagentTargets, T!IsSubagent,
         T!SubagentKeys, T!Named, T!MainOrDefault, T!Declared, T!Direct, T!Endpoints, T!First,
         T!Hidden

LEMMA RouteStep ==
  ASSUME RouteInv, T!TurnNext
  PROVE  RouteInv'
<1>1. CASE T!Start
  BY <1>1, SameLoaded DEF T!Start, T!Load, T!turnVars, RouteInv, Loaded
<1>2. CASE T!Arrive
  <2>1. /\ phase = "idle" /\ phase' = "routed" /\ UNCHANGED <<file, launch, config>>
        /\ decision' \in T!Select(request')
    BY <1>2 DEF T!Arrive, T!Decide
  <2>2. decision' \in T!Select(request)'
    BY <2>1, SelectsAlike
  <2>3. QED BY <2>1, <2>2, SameLoaded DEF RouteInv
<1>3. CASE T!Refuse \/ T!ListModels
  BY <1>3, SameLoaded DEF T!Refuse, T!ListModels, RouteInv
<1>4. CASE T!Unchanged /\ phase \notin {"load", "down", "idle"} /\ phase' \notin {"load", "down", "idle"}
  <2>1. UNCHANGED <<file, launch, config, request, decision>>
    BY <1>4 DEF T!Unchanged
  <2>2. T!Select(request)' = T!Select(request)
    BY <2>1, SelectsAlike
  <2>3. QED BY <1>4, <2>1, <2>2, SameLoaded DEF RouteInv
<1>5. T!Start \/ T!Arrive \/ T!Refuse \/ T!ListModels
        \/ (T!Unchanged /\ phase \notin {"load", "down", "idle"} /\ phase' \notin {"load", "down", "idle"})
  BY DEF T!TurnNext, T!Messages, T!RefuseTools, T!Responses, T!Auxiliary, T!Passthrough, T!Chat,
         T!Fails, T!Answers, T!Redirect, T!Redirected, T!Ends, T!Sends, T!SendsWithKey
<1>6. QED BY <1>1, <1>2, <1>3, <1>4, <1>5

LEMMA RouteStutter ==
  ASSUME RouteInv, UNCHANGED turnVars
  PROVE  RouteInv'
<1>1. UNCHANGED <<file, launch, config, request, decision, phase>>
  BY DEF turnVars
<1>2. T!Select(request)' = T!Select(request)
  BY <1>1, SelectsAlike
<1>3. QED BY <1>1, <1>2, SameLoaded DEF RouteInv

-----------------------------------------------------------------------------
LEMMA NamedOnly == RouteInv => T!OnlyNamedEndpoints
<1> SUFFICES ASSUME RouteInv, decision # Nothing, file # Nothing, file.replace,
                    T!Known(decision.endpoint)
             PROVE  T!Endpoint(decision.endpoint) \in T!Range(file.endpoints)
  BY DEF T!OnlyNamedEndpoints, T!Decided
<1>1. config = Loaded /\ file \in Files \cup {Nothing}
  BY DEF RouteInv
<1>2. config.endpoints = T!Read.endpoints
  BY <1>1, LoadedRoutes DEF Loaded
<1>3. T!Read.endpoints = file.endpoints
  BY DEF T!Read
<1>4. config.endpoints \in Seq(T!Range(config.endpoints))
  BY <1>1, <1>2, ReadIsSeq
<1> DEFINE S == {e \in T!Endpoints : e.id = decision.endpoint}
<1>5. \E e \in T!Endpoints : e \in S
  BY DEF T!Known
<1>6. T!First(S) \in T!Endpoints
  <2> HIDE DEF S
  <2> QED BY <1>4, <1>5, FirstIsIn
<1>7. QED BY <1>2, <1>3, <1>6 DEF T!Endpoint, T!Endpoints

(* The main of a file is one that is set, also once it is overridden.      *)
LEMMA MainIsSet ==
  ASSUME NEW f \in Files, f.routes.main # Nothing, NEW l \in Launches
  PROVE  T!Normal(T!Overridden(f.routes.main, l.override.mainModel, l.override.mainEndpoint,
                               "anthropic")) # Nothing
<1> DEFINE mains == {g.routes.main : g \in Files} \ {Nothing}
           ends  == {t.endpoint : t \in mains} \cup {"anthropic"}
                      \cup {k.override.mainEndpoint : k \in Launches}
           names == {t.model : t \in mains} \cup {LocalModel}
                      \cup {k.override.mainModel : k \in Launches}
<1>1. mains \subseteq [endpoint : ends, model : names] /\ Nothing \notin [endpoint : ends, model : names]
  BY RouterAssumption
<1>2. /\ f.routes.main \in mains
      /\ l.override.mainEndpoint \in ends /\ l.override.mainModel \in names
      /\ "anthropic" \in ends /\ LocalModel \in names
  OBVIOUS
<1> HIDE DEF ends, names
<1>3. PICK t \in [endpoint : ends, model : names] : t = f.routes.main
  BY <1>1, <1>2
<1> HIDE DEF mains
<1>4. t.endpoint \in ends /\ t.model \in names  OBVIOUS
<1>5. PICK e : e = l.override.mainEndpoint  OBVIOUS
<1>6. PICK m : m = l.override.mainModel  OBVIOUS
<1>7. T!Overridden(t, m, e, "anthropic") \in [endpoint : ends, model : names]
  BY <1>2, <1>4, <1>5, <1>6 DEF T!Overridden, T!To
<1>8. \A u \in [endpoint : ends, model : names] :
        T!Normal(u) \in [endpoint : ends, model : names]
  BY <1>2 DEF T!Normal
<1>9. QED BY <1>1, <1>3, <1>5, <1>6, <1>7, <1>8

LEMMA SubagentsGoToMain == RouteInv => T!SubagentsFollowMain
<1> SUFFICES ASSUME RouteInv, decision # Nothing, file # Nothing, file.routes.main # Nothing,
                    file.routes.subagent = Nothing, launch.override.subModel = Nothing,
                    T!IsSubagent(request), request.model \notin DOMAIN config.routes.models,
                    T!SubagentKeys(request) = {}
             PROVE  decision = config.routes.main
  BY DEF T!SubagentsFollowMain, T!Decided
<1>1. config = Loaded /\ file \in Files /\ launch \in Launches /\ decision \in T!Select(request)
  BY DEF RouteInv
<1>2. /\ config.routes.main = T!Normal(T!Overridden(file.routes.main, launch.override.mainModel,
                                                  launch.override.mainEndpoint, "anthropic"))
      /\ config.routes.subagent = T!Normal(T!Overridden(Nothing, launch.override.subModel,
                                                        launch.override.subEndpoint, "local"))
  BY <1>1, LoadedRoutes DEF Loaded
<1>3. config.routes.main # Nothing
  BY <1>1, <1>2, MainIsSet
<1>4. config.routes.subagent = Nothing
  BY <1>2 DEF T!Overridden, T!Normal
<1>5. T!SubagentTargets(request) = {}
  BY <1>4 DEF T!SubagentTargets
<1>6. T!Wanted(request) = {config.routes.main}
  BY <1>3, <1>5 DEF T!Wanted, T!PrefersModel, T!Or
<1>7. T!MainOrDefault = config.routes.main
  BY <1>3 DEF T!MainOrDefault, T!Or
<1>8. QED BY <1>1, <1>6, <1>7 DEF T!Select

LEMMA SplitIsKept == RouteInv => T!SplitIsInEffect /\ T!AwayIsAvoided
<1> SUFFICES ASSUME RouteInv, decision # Nothing
             PROVE  T!SplitIsInEffect /\ T!AwayIsAvoided
  BY DEF T!SplitIsInEffect, T!AwayIsAvoided, T!Decided
<1>1. PICK t \in T!Wanted(request) :
        decision = IF t.endpoint = "local" /\ request.localOff THEN T!MainOrDefault ELSE t
  BY DEF RouteInv, T!Select
<1>2. T!AwayIsAvoided
  BY <1>1 DEF T!AwayIsAvoided
<1>3. ASSUME T!IsSentinel(request), ~request.localOff, T!SubagentTargets(request) # {}
      PROVE  decision \in T!SubagentTargets(request)
  <2>1. T!IsSubagent(request)  BY <1>3 DEF T!SubagentTargets
  <2>2. T!Wanted(request) = T!SubagentTargets(request)
    BY <1>3, <2>1 DEF T!Wanted, T!PrefersModel
  <2>3. QED BY <1>1, <1>3, <2>2
<1>4. ASSUME T!IsSentinel(request), ~request.localOff, ~T!IsSubagent(request),
             request.model \notin DOMAIN config.routes.models
      PROVE  decision = T!MainOrDefault
  <2>1. T!Wanted(request) = {T!MainOrDefault}
    BY <1>4 DEF T!Wanted, T!PrefersModel, T!IsMarker
  <2>2. QED BY <1>1, <1>4, <2>1
<1>5. T!SplitIsInEffect
  BY <1>3, <1>4 DEF T!SplitIsInEffect
<1>6. QED BY <1>2, <1>5

-----------------------------------------------------------------------------
(* A file that takes the place of the built-in configuration names no      *)
(* endpoint twice.  (Nothing checks that; of two such endpoints the first  *)
(* gets what the other one declares.)                                      *)
ReplacesDistinctly == \A f \in Files : f.replace => DistinctIds(f.endpoints)

LEMMA LoadedIsDistinct ==
  ASSUME RouteInv, ReplacesDistinctly, config # Nothing
  PROVE  /\ config.endpoints \in Seq(T!Range(config.endpoints))
         /\ DistinctIds(config.endpoints)
<1>1. config = Loaded /\ file \in Files \cup {Nothing}
  BY DEF RouteInv
<1>2. config.endpoints = T!Read.endpoints
  BY <1>1, LoadedRoutes DEF Loaded
<1>3. CASE file = Nothing \/ ~file.replace
  BY <1>1, <1>2, <1>3, ReadIsSeq
<1>4. CASE file # Nothing /\ file.replace
  <2>1. T!Read.endpoints = file.endpoints /\ file \in Files
    BY <1>1, <1>4 DEF T!Read
  <2>2. QED BY <1>1, <1>2, <1>4, <2>1, ReadIsSeq DEF ReplacesDistinctly
<1>5. QED BY <1>3, <1>4

(* The endpoint of an id is the one that has it.                           *)
LEMMA EndpointOfId ==
  ASSUME config.endpoints \in Seq(T!Range(config.endpoints)), DistinctIds(config.endpoints),
         NEW e \in T!Endpoints
  PROVE  T!Endpoint(e.id) = e
<1> DEFINE S == {x \in T!Endpoints : x.id = e.id}
<1>1. \E x \in T!Endpoints : x \in S
  OBVIOUS
<1>2. T!First(S) \in S
  <2> HIDE DEF S
  <2> QED BY <1>1, FirstIsIn
<1>3. PICK y \in T!Endpoints : y = T!First(S) /\ y.id = e.id
  BY <1>2
<1>4. PICK i \in DOMAIN config.endpoints : config.endpoints[i] = e
  BY DEF T!Endpoints, T!Range
<1>5. PICK j \in DOMAIN config.endpoints : config.endpoints[j] = y
  BY DEF T!Endpoints, T!Range
<1>6. i = j
  BY <1>3, <1>4, <1>5 DEF DistinctIds
<1>7. QED BY <1>3, <1>4, <1>5, <1>6 DEF T!Endpoint

LEMMA CatalogueRoutes ==
  ASSUME RouteInv, ReplacesDistinctly
  PROVE  T!CatalogueIsRoutable
<1> DEFINE Ask(m) == [path |-> "messages", model |-> m, agentId |-> Nothing,
                      agentType |-> Nothing, openai |-> Nothing, localOff |-> FALSE]
<1>1. SUFFICES ASSUME config # Nothing, NEW m \in T!Catalogue
               PROVE  /\ T!Describes(m)
                      /\ m # "rayline-local" /\ m \notin DOMAIN config.routes.models =>
                           \A t \in T!Select(Ask(m)) :
                             /\ t.model = m
                             /\ m \in T!Endpoint(t.endpoint).models
                             /\ ~T!Hidden(T!Endpoint(t.endpoint))
  BY DEF T!CatalogueIsRoutable
<1>2. CASE m = "rayline-local"
  BY <1>2 DEF T!Describes
<1>3. CASE m # "rayline-local"
  <2>1. PICK e \in T!Endpoints : ~T!Hidden(e) /\ m \in e.models /\ m \notin T!Internal
    BY <1>3 DEF T!Catalogue
  <2>2. T!Describes(m)
    BY <2>1 DEF T!Describes
  <2>3. SUFFICES ASSUME m \notin DOMAIN config.routes.models, NEW t \in T!Select(Ask(m))
                 PROVE  /\ t.model = m
                        /\ m \in T!Endpoint(t.endpoint).models
                        /\ ~T!Hidden(T!Endpoint(t.endpoint))
    BY <2>2
  <2>4. PICK r : r = Ask(m)  OBVIOUS
  <2>5. /\ r.path = "messages" /\ r.model = m /\ r.agentId = Nothing
        /\ r.agentType = Nothing /\ r.openai = Nothing /\ r.localOff = FALSE
    BY <2>4
  <2>6. m # T!Virtual /\ m # T!Subagent
    BY <2>1 DEF T!Internal
  <2>7. ~T!IsSubagent(r) /\ ~T!IsMarker(r)
    BY <2>5, <2>6 DEF T!IsSubagent, T!IsMarker, T!IsSentinel, T!OnCodex, T!AgentType, T!AgentId
  <2>8. T!Declared(m) /\ ~T!PrefersModel(r)
    BY <2>1, <2>3, <2>5 DEF T!Declared, T!PrefersModel
  <2>9. T!Wanted(r) = {T!Direct(m)}
    BY <2>5, <2>7, <2>8 DEF T!Wanted
  <2>10. t = T!Direct(m)
    BY <2>3, <2>4, <2>5, <2>9 DEF T!Select
  <2> DEFINE all == {x \in T!Endpoints : m \in x.models}
             offered == {x \in all : ~T!Hidden(x)}
  <2>11. config.endpoints \in Seq(T!Range(config.endpoints)) /\ DistinctIds(config.endpoints)
    BY <1>1, LoadedIsDistinct
  <2>12. e \in offered
    BY <2>1
  <2>13. PICK f \in T!Endpoints : f = T!First(offered) /\ f \in offered
    <3>1. \E x \in T!Endpoints : x \in offered  BY <2>12
    <3>2. T!First(offered) \in offered /\ T!First(offered) \in T!Endpoints
      <4> HIDE DEF offered
      <4> QED BY <3>1, <2>11, FirstIsIn
    <3>3. QED BY <3>2
  <2>14. T!Direct(m) = T!To(f.id, m)
    BY <2>12, <2>13 DEF T!Direct
  <2>15. T!Endpoint(f.id) = f
    BY <2>11, EndpointOfId
  <2>16. t.model = m /\ t.endpoint = f.id
    BY <2>10, <2>14 DEF T!To
  <2>17. QED BY <2>13, <2>15, <2>16
<1>4. QED BY <1>2, <1>3

LEMMA RouteAlways == RouterSpec => [](part = "turns" => RouteInv)
<1> DEFINE Routed == part = "turns" => RouteInv
<1>1. RouterInit => Routed
  BY TurnPart, RouteInit
<1>2. Routed /\ [RouterNext]_allVars => Routed'
  BY TurnPart, RouteStep, RouteStutter
<1>3. QED BY <1>1, <1>2, PTL DEF RouterSpec

(* select_route sends a request where the configuration means it to,       *)
(* whatever the files and the environment are: to endpoints that a file in *)
(* place of the built-in one names, subagents to the main of a file that   *)
(* has no route for them, both sides of a split, and not to a local model  *)
(* that is away.                                                           *)
THEOREM DecisionsAreIntended == RouterSpec => [](part = "turns" => T!RoutesAreIntended)
<1>1. RouteInv => T!RoutesAreIntended
  BY NamedOnly, SubagentsGoToMain, SplitIsKept DEF T!RoutesAreIntended
<1>2. QED BY <1>1, RouteAlways, PTL

(* And what the catalogue offers goes to an endpoint that declares it and  *)
(* has its key (route_direct_model), unless a file that replaces the       *)
(* built-in configuration names an endpoint twice.                         *)
THEOREM RoutesAreKept ==
  ASSUME ReplacesDistinctly
  PROVE  RouterSpec => []RoutesAreIntended
<1>1. (part = "turns" => RouteInv) => RoutesAreIntended
  BY NamedOnly, SubagentsGoToMain, SplitIsKept, CatalogueRoutes
     DEF RoutesAreIntended, T!RoutesAreIntended
<1>2. QED BY <1>1, RouteAlways, PTL

-----------------------------------------------------------------------------
(* The streams of the local router are those of StreamTranslation.         *)
LEMMA StreamsOfRouter == RouterSpec => Spec
<1>1. RouterInit => Init
  BY DEF RouterInit
<1>2. [RouterNext]_allVars => [Next]_vars
  BY DEF RouterNext, allVars
<1>3. QED BY <1>1, <1>2, PTL DEF RouterSpec, Spec

(* A Messages client of the local router gets a legal message stream,      *)
(* whatever the endpoint sends and however its body ends                   *)
(* (OpenAiSseTranslator): the refinement of MessageStream.                 *)
THEOREM StreamsStayLegal == RouterSpec => StreamIsLegal
  BY StreamsOfRouter, WriterIsLegal

(* A Chat client of the local router can tell a whole answer from one that *)
(* was cut off, and a Responses client can put the items together that the *)
(* completed response lists: two of the three parts of AnswerIsWhole.      *)
THEOREM AnswersEndTruly == RouterSpec => [](ItemsPaired /\ DoneMeansComplete)
<1>1. RouterSpec => []ItemsPaired
  BY StreamsOfRouter, ItemsArePaired
<1>2. RouterSpec => []DoneMeansComplete
  BY StreamsOfRouter, DoneIsComplete
<1>3. QED BY <1>1, <1>2, PTL

-----------------------------------------------------------------------------
(* Types.  A message goes to the adapter or to one of the endpoints, since *)
(* what is sent is sent to the endpoint a request was decided to, and that *)
(* one is known.                                                           *)
Answered == {Nothing, "unauthorized", "redirect", "error", "unsupported tool", "not implemented",
             "unsupported route", "catalogue", "response", "whole response", "redirect rejected"}
Heads(m) == m.to = "adapter" \/ \E e \in T!Endpoints : m.to = e.id

Placements ==
  /\ phase \in {"load", "down", "idle", "routed", "sent", "redirected", "done"}
  /\ closers \subseteq {"router", "adapter"}
  /\ answer \in Answered
TurnInv == Placements /\ \A m \in outbound : Heads(m)

LEMMA TurnInvTypes ==
  ASSUME TurnInv, CloseInv
  PROVE  T!TurnTypeOK
<1>1. announced \in BOOLEAN
  BY DEF CloseInv
<1>2. \A m \in outbound : m.to \in {"adapter"} \cup {e.id : e \in T!Endpoints}
  BY DEF TurnInv, Heads
<1>3. Placements
  BY DEF TurnInv
<1>4. QED
  BY <1>1, <1>2, <1>3, Zenon DEF Placements, Answered, T!TurnTypeOK

LEMMA TurnInvInit == T!TurnInit => TurnInv
  BY DEF T!TurnInit, T!RouteInit, TurnInv, Placements, Answered

LEMMA HeadsStay ==
  ASSUME UNCHANGED config
  PROVE  \A m : Heads(m)' <=> Heads(m)
  BY DEF Heads, T!Endpoints

(* What a step after the decision does to the request's state: it sends    *)
(* nothing, or one message that heads somewhere.                           *)
SendsHeaded == outbound' = outbound \/ \E m : Heads(m) /\ outbound' = outbound \cup {m}

LEMMA EndsPlaced ==
  ASSUME Placements, NEW a \in Answered, NEW who, who \subseteq {"router", "adapter"},
         T!Ends(a, who)
  PROVE  Placements'
  BY DEF T!Ends, Placements

LEMMA SendsPlaced ==
  ASSUME Placements, NEW m, T!Sends(m), Heads(m)
  PROVE  Placements' /\ SendsHeaded
  BY DEF T!Sends, Placements, SendsHeaded

LEMMA MessagesHead ==
  ASSUME HomeInv, phase \in {"routed", "sent"}, NEW p, T!Reaches(p), NEW r
  PROVE  /\ Heads(T!TranslatedTo(T!Target))
         /\ Heads(T!PassedThrough(T!Target, r))
         /\ Heads(T!ChatPassedThrough(T!Target, r))
<1>1. T!Target \in T!Endpoints
  BY RoutedTarget
<1>2. QED
  BY <1>1 DEF Heads, T!TranslatedTo, T!PassedThrough, T!ChatPassedThrough, T!Message

LEMMA AdapterHeads == \A auth : Heads(T!Message("adapter", auth))
  BY DEF Heads, T!Message

LEMMA RouterCloses == T!Announced \subseteq {"router", "adapter"}
  BY DEF T!Announced

LEMMA KeyedPlaced ==
  ASSUME Placements, NEW m, T!SendsWithKey(m), Heads(m)
  PROVE  Placements' /\ SendsHeaded
<1>1. CASE T!Keyless(T!Target)
  <2>1. T!Ends("error", T!Announced) /\ outbound' = outbound
    BY <1>1 DEF T!SendsWithKey
  <2>2. "error" \in Answered
    BY DEF Answered
  <2>3. QED BY <2>1, <2>2, RouterCloses, EndsPlaced DEF SendsHeaded
<1>2. CASE ~T!Keyless(T!Target)
  <2>1. T!Sends(m)
    BY <1>2 DEF T!SendsWithKey
  <2>2. QED BY <2>1, SendsPlaced
<1>3. QED BY <1>1, <1>2

(* The ways a request that was decided goes on.                            *)
Ended == \E a \in Answered : \E who : /\ who \subseteq {"router", "adapter"}
                                      /\ T!Ends(a, who) /\ outbound' = outbound
Goes  == \/ Ended
         \/ T!Sends(T!ToAdapter)
         \/ \E p : T!Reaches(p) /\ \/ T!SendsWithKey(T!TranslatedTo(T!Target))
                                   \/ T!SendsWithKey(T!PassedThrough(T!Target, request))
                                   \/ T!SendsWithKey(T!ChatPassedThrough(T!Target, request))

LEMMA EndedPlaced ==
  ASSUME Placements, Ended
  PROVE  Placements' /\ SendsHeaded
  BY EndsPlaced DEF Ended, SendsHeaded

LEMMA GoesPlaced ==
  ASSUME HomeInv, Placements, phase = "routed", Goes
  PROVE  Placements' /\ SendsHeaded
<1>1. CASE Ended
  BY <1>1, EndedPlaced
<1>2. CASE T!Sends(T!ToAdapter)
  BY <1>2, AdapterHeads, SendsPlaced DEF T!ToAdapter
<1>3. ASSUME NEW p, T!Reaches(p),
             \/ T!SendsWithKey(T!TranslatedTo(T!Target))
             \/ T!SendsWithKey(T!PassedThrough(T!Target, request))
             \/ T!SendsWithKey(T!ChatPassedThrough(T!Target, request))
      PROVE  Placements' /\ SendsHeaded
  BY <1>3, MessagesHead, KeyedPlaced
<1>4. QED BY <1>1, <1>2, <1>3 DEF Goes

LEMMA EndsWays ==
  ASSUME outbound' = outbound
  PROVE  /\ T!Ends("redirect", {"adapter"}) => Ended
         /\ T!Ends("error", {"router"}) => Ended
         /\ T!Ends("error", {}) => Ended
         /\ T!Ends("error", T!Announced) => Ended
         /\ T!Ends("unsupported tool", {"router"}) => Ended
         /\ T!Ends("unsupported tool", {}) => Ended
         /\ T!Ends("unsupported route", {}) => Ended
         /\ T!Ends("not implemented", {}) => Ended
         /\ T!Ends("redirect rejected", {}) => Ended
         /\ T!Ends("response", {"adapter"}) => Ended
         /\ T!Ends("response", T!Announced \cup T!AnsweredBy) => Ended
         /\ T!Ends("whole response", T!AnsweredBy) => Ended
<1>1. \A a \in Answered : \A who : who \subseteq {"router", "adapter"} /\ T!Ends(a, who) => Ended
  BY DEF Ended
<1>2. {} \subseteq {"router", "adapter"} /\ {"router"} \subseteq {"router", "adapter"}
        /\ {"adapter"} \subseteq {"router", "adapter"}
  OBVIOUS
<1>3. /\ T!AnsweredBy \subseteq {"router", "adapter"}
      /\ T!Announced \cup T!AnsweredBy \subseteq {"router", "adapter"}
  BY RouterCloses DEF T!AnsweredBy
<1>4. /\ "redirect" \in Answered /\ "error" \in Answered /\ "unsupported tool" \in Answered
      /\ "unsupported route" \in Answered /\ "not implemented" \in Answered
      /\ "redirect rejected" \in Answered /\ "response" \in Answered
      /\ "whole response" \in Answered
  BY DEF Answered
<1>5. QED BY <1>1, <1>2, <1>3, <1>4, RouterCloses, Zenon

LEMMA RoutedGoes ==
  ASSUME T!Messages \/ T!RefuseTools \/ T!Responses \/ T!Auxiliary \/ T!Passthrough \/ T!Chat
  PROVE  phase = "routed" /\ T!Unchanged /\ Goes
<1>1. CASE T!Messages
  BY <1>1, EndsWays, Zenon DEF T!Messages, Goes
<1>2. CASE T!RefuseTools
  BY <1>2, EndsWays, Zenon DEF T!RefuseTools, Goes
<1>3. CASE T!Responses
  BY <1>3, EndsWays, Zenon DEF T!Responses, Goes
<1>4. CASE T!Auxiliary
  BY <1>4, EndsWays, Zenon DEF T!Auxiliary, Goes
<1>5. CASE T!Passthrough
  BY <1>5, EndsWays, Zenon DEF T!Passthrough, Goes
<1>6. CASE T!Chat
  BY <1>6, EndsWays, Zenon DEF T!Chat, Goes
<1>7. QED BY <1>1, <1>2, <1>3, <1>4, <1>5, <1>6

LEMMA SentGoes ==
  ASSUME HomeInv, Placements, T!Fails \/ T!Answers \/ T!Redirect \/ T!Redirected
  PROVE  T!Unchanged /\ Placements' /\ SendsHeaded
<1>1. CASE T!Fails \/ T!Answers \/ T!Redirected
  <2>1. T!Unchanged /\ Ended
    BY <1>1, EndsWays, Zenon DEF T!Fails, T!Answers, T!Redirected
  <2>2. QED BY <2>1, EndedPlaced
<1>2. CASE T!Redirect
  <2>1. T!Unchanged
    BY <1>2 DEF T!Redirect
  <2>2. CASE T!Ends("redirect rejected", {}) /\ UNCHANGED outbound
    BY <2>1, <2>2, EndsWays, EndedPlaced
  <2>3. CASE /\ outbound' = outbound \cup {T!Message("adapter", T!Static(T!Target) \cup T!EnvKey(T!Target))}
             /\ phase' = "redirected"
             /\ UNCHANGED <<closers, answer>>
    BY <2>1, <2>3, AdapterHeads DEF Placements, SendsHeaded
  <2>4. QED BY <1>2, <2>2, <2>3, <2>1 DEF T!Redirect
<1>3. QED BY <1>1, <1>2

LEMMA TurnInvStep ==
  ASSUME TurnInv, HomeInv, T!TurnNext
  PROVE  TurnInv'
<1>1. Placements /\ \A m \in outbound : Heads(m)
  BY DEF TurnInv
<1>2. ASSUME T!Unchanged, Placements', SendsHeaded
      PROVE  TurnInv'
  <2>1. config' = config
    BY <1>2 DEF T!Unchanged
  <2>2. \A m \in outbound' : Heads(m)
    BY <1>1, <1>2 DEF SendsHeaded
  <2>3. \A m \in outbound' : Heads(m)'
    BY <2>1, <2>2, HeadsStay
  <2>4. QED BY <1>2, <2>3 DEF TurnInv
<1>3. CASE T!Start
  <2>1. phase = "load" /\ phase' \in {"idle", "down"} /\ UNCHANGED <<closers, answer, outbound>>
    BY <1>3 DEF T!Start, T!Load, T!turnVars
  <2>2. outbound' = {}
    BY <2>1 DEF HomeInv
  <2>3. Placements'
    BY <1>1, <2>1 DEF Placements
  <2>4. QED BY <2>2, <2>3 DEF TurnInv
<1>4. CASE T!Refuse \/ T!Arrive
  <2>1. /\ phase = "idle" /\ phase' \in {"done", "routed"} /\ UNCHANGED <<closers, outbound>>
        /\ answer' \in {answer, "unauthorized"}
    BY <1>4 DEF T!Refuse, T!Arrive, T!Decide
  <2>2. outbound' = {}
    BY <2>1 DEF HomeInv
  <2>3. Placements'
    BY <1>1, <2>1 DEF Placements, Answered
  <2>4. QED BY <2>2, <2>3 DEF TurnInv
<1>5. CASE T!ListModels
  <2>1. /\ phase = "idle" /\ phase' = "done" /\ answer' = "catalogue"
        /\ closers' = closers /\ config' = config
        /\ outbound' = {T!PassedThrough(e, request') : e \in T!ModelsEndpoints}
    BY <1>5 DEF T!ListModels
  <2>2. T!ModelsEndpoints \subseteq T!Endpoints
    BY <2>1, CatalogueIsOfEndpoints DEF HomeInv
  <2>3. \A e \in T!Endpoints : \A r : Heads(T!PassedThrough(e, r))
    BY DEF Heads, T!PassedThrough, T!Message
  <2>4. \A m \in outbound' : Heads(m)
    <3> SUFFICES ASSUME NEW m \in outbound' PROVE Heads(m)
      OBVIOUS
    <3>1. PICK e \in T!ModelsEndpoints : m = T!PassedThrough(e, request')
      BY <2>1
    <3>2. PICK r : r = request'  OBVIOUS
    <3>3. QED BY <3>1, <3>2, <2>2, <2>3
  <2>5. \A m \in outbound' : Heads(m)'
    BY <2>1, <2>4, HeadsStay
  <2>6. Placements'
    BY <1>1, <2>1 DEF Placements, Answered
  <2>7. QED BY <2>5, <2>6 DEF TurnInv
<1>6. CASE T!Messages \/ T!RefuseTools \/ T!Responses \/ T!Auxiliary \/ T!Passthrough \/ T!Chat
  BY <1>1, <1>2, <1>6, RoutedGoes, GoesPlaced
<1>7. CASE T!Fails \/ T!Answers \/ T!Redirect \/ T!Redirected
  BY <1>1, <1>2, <1>7, SentGoes
<1>8. QED
  BY <1>3, <1>4, <1>5, <1>6, <1>7 DEF T!TurnNext

LEMMA TurnInvStutter ==
  ASSUME TurnInv, UNCHANGED turnVars
  PROVE  TurnInv'
<1>1. /\ phase' = phase /\ closers' = closers /\ answer' = answer
      /\ outbound' = outbound /\ config' = config
  BY DEF turnVars
<1>2. \A m \in outbound' : Heads(m)'
  BY <1>1, HeadsStay DEF TurnInv
<1>3. QED BY <1>1, <1>2 DEF TurnInv, Placements

(* What is sent of an ask is what it was translated to, and that is never  *)
(* the absent value.                                                       *)
ToolInv ==
  /\ ask \in Asks
  /\ stage \in {"asked", "refused", "sent", "called"}
  /\ (stage \in {"asked", "refused"}) => upstream = Nothing
  /\ (stage \in {"sent", "called"}) => upstream # Nothing

LEMMA ToolInvTypes ==
  ASSUME ToolInv
  PROVE  F!ToolTypeOK
  BY DEF ToolInv, F!ToolTypeOK

LEMMA ToolPart ==
  /\ RouterInit /\ part = "tools" => ToolInv
  /\ [RouterNext]_allVars => (part = "tools" => F!ToolNext \/ UNCHANGED toolVars)
  BY DEF RouterInit, RouterNext, allVars, F!ToolInit, ToolInv

LEMMA ToolInvStep ==
  ASSUME ToolInv, F!ToolNext \/ UNCHANGED toolVars
  PROVE  ToolInv'
<1>1. CASE F!RefuseAsk
  BY <1>1 DEF F!RefuseAsk, ToolInv
<1>2. CASE F!Forward
  <2>1. ask' = ask /\ ask \in Asks /\ stage' = "sent" /\ upstream' = F!Translated(ask)
    BY <1>2 DEF F!Forward, ToolInv
  <2>2. F!Translated(ask) # Nothing
    BY <2>1, RouterAssumption
  <2>3. QED BY <2>1, <2>2 DEF ToolInv
<1>3. CASE F!CallTool
  BY <1>3 DEF F!CallTool, ToolInv
<1>4. CASE UNCHANGED toolVars
  BY <1>4 DEF toolVars, ToolInv
<1>5. QED BY <1>1, <1>2, <1>3, <1>4 DEF F!ToolNext

(* The router keeps its types: what a request is answered and who closes   *)
(* it are of the kinds its paths have, no message goes to an endpoint that *)
(* is not configured, a translated ask has a translation, and the streams  *)
(* stay within their bounds.                                               *)
THEOREM RouterTypesHold == RouterSpec => []RouterTypeOK
<1> DEFINE Turns == part = "turns" => TurnInv /\ CloseInv /\ HomeInv
           Tools == part = "tools" => ToolInv
<1>1. RouterInit => Turns /\ Tools
  BY TurnPart, ToolPart, TurnInvInit, CloseInit, HomeInit
<1>2. Turns /\ [RouterNext]_allVars => Turns'
  BY TurnPart, TurnInvStep, TurnInvStutter, CloseStep, CloseStutter, HomeStep, HomeStutter
<1>3. Tools /\ [RouterNext]_allVars => Tools'
  BY TurnPart, ToolPart, ToolInvStep
<1>4. Turns /\ Tools /\ TypeOK => RouterTypeOK
  BY TurnInvTypes, ToolInvTypes DEF RouterTypeOK
<1>5. QED
  BY <1>1, <1>2, <1>3, <1>4, StreamsOfRouter, StreamTypes, PTL DEF RouterSpec
=============================================================================
