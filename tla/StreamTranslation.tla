-------------------------- MODULE StreamTranslation --------------------------
(***************************************************************************)
(* One streamed response of the local router, translated in one of the     *)
(* three ways it can need: the protocol of the client and that of the      *)
(* endpoint the route names decide which (handle_messages, handle_responses*)
(* and chat_inbound).                                                      *)
(***************************************************************************)
EXTENDS Naturals, Sequences, FiniteSets

CONSTANTS CallIndexes, MaxChunks, MaxBlocks, MaxDeltas

ASSUME StreamAssumption ==
  /\ CallIndexes \subseteq Nat /\ IsFiniteSet(CallIndexes)
  /\ {MaxChunks, MaxBlocks, MaxDeltas} \subseteq Nat

VARIABLES
  path,  \* "client via endpoint"
  chunks, next, openText, calls, reason, sent,                         \* ChatToAnthropic
  kind, toolBlocks, text, output, textSlot, completed, events,         \* AnthropicToResponses
  includeUsage, toolIndex, finished, out,                              \* AnthropicToChat
  body, received, started

toMessages  == <<chunks, next, openText, calls, reason, sent>>
toResponses == <<kind, toolBlocks, text, output, textSlot, completed, events>>
toChat      == <<includeUsage, toolIndex, finished, out>>
vars == <<path, toMessages, toResponses, toChat, body, received, started>>

M == INSTANCE ChatToAnthropic
R == INSTANCE AnthropicToResponses
C == INSTANCE AnthropicToChat

Paths == {"messages via chat", "responses via messages", "chat via messages"}

Init ==
  /\ path \in Paths
  /\ M!Init /\ R!Init /\ C!Init
  /\ path # "responses via messages" => kind = "message"
  /\ path # "chat via messages" => ~includeUsage

MessagesStep ==
  /\ path = "messages via chat"
  /\ M!Next
  /\ UNCHANGED <<path, toResponses, toChat, received>>

ResponsesStep ==
  /\ path = "responses via messages"
  /\ R!Next
  /\ UNCHANGED <<path, toMessages, toChat, started>>

ChatStep ==
  /\ path = "chat via messages"
  /\ C!Next
  /\ UNCHANGED <<path, toMessages, toResponses>>

Next == MessagesStep \/ ResponsesStep \/ ChatStep
Spec == Init /\ [][Next]_vars

-----------------------------------------------------------------------------
(* Type correctness of the three translators.                              *)
TypeOK == path \in Paths /\ M!TypeOK /\ R!TypeOK /\ C!TypeOK

(* The properties of the translator the path uses; see the modules for     *)
(* what each of them promises.                                             *)
(* A Messages client gets a legal message stream.                          *)
StreamIsLegal == M!StreamIsLegal

(* Whatever the client's protocol, it gets all the text and all the tool   *)
(* calls of the endpoint, each once and in order.  Characters that were    *)
(* cut between two chunks are broken on the way to a Responses client.     *)
ContentKept ==
  CASE path = "messages via chat"      -> M!MessagesContentKept
    [] path = "responses via messages" -> R!ResponsesContentKept
    [] path = "chat via messages"      -> C!ChatContentKept

(* The events of a Responses stream and its final list of items agree.     *)
ItemsPaired == path = "responses via messages" => R!ItemsPaired

(* A Chat client sees [DONE] exactly after a whole answer.                 *)
DoneMeansComplete == path = "chat via messages" => C!DoneMeansComplete
=============================================================================
