----------------------------- MODULE LocalRouter -----------------------------
(***************************************************************************)
(* The local router: one request on its way in and out (RouterTurn, which  *)
(* extends RouteDecision), the tools of one that has to be translated      *)
(* (ToolTranslation), and one streamed answer on its way back              *)
(* (StreamTranslation).  A behaviour follows one of the three.             *)
(***************************************************************************)
EXTENDS StreamTranslation

CONSTANTS
  Parts,
  Defaults, LocalModel, Files, Launches, Requests, Nothing, Fold(_),
  Asks, SafeForm

VARIABLES
  part,
  file, launch, config, request, decision, phase,       \* RouteDecision
  announced, closers, outbound, answer,      \* RouterTurn
  ask, stage, upstream, call                            \* ToolTranslation

T == INSTANCE RouterTurn WITH sent <- outbound
F == INSTANCE ToolTranslation WITH Absent <- Nothing

ASSUME RouterAssumption ==
  /\ Parts \subseteq {"turns", "tools", "streams"}
  /\ Defaults \in Seq(T!Range(Defaults))
  /\ \A i, j \in DOMAIN Defaults : Defaults[i].id = Defaults[j].id => i = j
  /\ \A f \in Files :
       /\ f.endpoints \in Seq(T!Range(f.endpoints))
       /\ f.routes = [main |-> f.routes.main, subagent |-> f.routes.subagent,
                      default |-> f.routes.default, models |-> f.routes.models,
                      subagents |-> f.routes.subagents]
  /\ LET mains   == {f.routes.main : f \in Files} \ {Nothing}
         targets ==
           [endpoint : {t.endpoint : t \in mains} \cup {"anthropic"}
                         \cup {l.override.mainEndpoint : l \in Launches},
            model : {t.model : t \in mains} \cup {LocalModel}
                      \cup {l.override.mainModel : l \in Launches}]
     IN mains \subseteq targets /\ Nothing \notin targets
  /\ \A r \in Asks : F!Translated(r) # Nothing

turnVars == <<file, launch, config, request, decision, phase,
              announced, closers, outbound, answer>>
toolVars == <<ask, stage, upstream, call>>
allVars  == <<part, vars, turnVars, toolVars>>

NoTurn ==
  /\ file = Nothing /\ launch = Nothing /\ config = Nothing
  /\ request = Nothing /\ decision = Nothing /\ phase = "load"
  /\ announced = FALSE
  /\ closers = {} /\ outbound = {} /\ answer = Nothing

NoTools == ask = Nothing /\ stage = "asked" /\ upstream = Nothing /\ call = Nothing

RouterInit ==
  /\ part \in Parts
  /\ Init
  /\ part # "streams" => path = "messages via chat"
  /\ IF part = "turns" THEN T!TurnInit ELSE NoTurn
  /\ IF part = "tools" THEN F!ToolInit ELSE NoTools

RouterNext ==
  \/ part = "streams" /\ Next /\ UNCHANGED <<part, turnVars, toolVars>>
  \/ part = "turns" /\ T!TurnNext /\ UNCHANGED <<part, vars, toolVars>>
  \/ part = "tools" /\ F!ToolNext /\ UNCHANGED <<part, vars, turnVars>>

RouterSpec == RouterInit /\ [][RouterNext]_allVars

-----------------------------------------------------------------------------
(* Type correctness of the parts.                                          *)
RouterTypeOK ==
  /\ TypeOK
  /\ part = "turns" => T!TurnTypeOK
  /\ part = "tools" => F!ToolTypeOK

(* See RouteDecision: a request goes where the configuration means it to,  *)
(* and where the catalogue says.                                           *)
RoutesAreIntended ==
  part = "turns" => T!RoutesAreIntended /\ T!CatalogueIsRoutable

(* See RouterTurn: a credential leaves for its own destination only, ...   *)
CredentialsStayHome == part = "turns" => T!CredentialsStayHome

(* ... and what was announced to the metrics is closed.                    *)
AnnouncedIsClosed == part = "turns" => T!AnnouncedIsClosed

(* See ToolTranslation: the tools, the choice and the calls are those the  *)
(* client means.                                                           *)
ToolsHonoured == part = "tools" => F!ToolsHonoured

(* lib.rs:1438: a translated request is never forwarded with a restriction *)
(* the caller set lifted.                                                  *)
ChoiceReachesEndpoint == part = "tools" => F!ChoiceReachesEndpoint

(* Nothing of the endpoint's answer is lost, doubled or reordered, and     *)
(* what the translated stream ends with is true.                           *)
AnswerIsWhole == ContentKept /\ ItemsPaired /\ DoneMeansComplete
=============================================================================
