--------------------------- MODULE AnthropicToChat ---------------------------
(***************************************************************************)
(* A Chat Completions request answered by an endpoint of the Messages      *)
(* protocol: AnthropicToChatTranslator and the task of                     *)
(* anthropic_response_to_chat.  Every event becomes chunks at once; the    *)
(* final chunk and [DONE] are written for message_stop only, everything    *)
(* else that ends the stream is reported to the client as an error.        *)
(***************************************************************************)
EXTENDS Naturals, Sequences, SequencesExt

CONSTANTS MaxBlocks, MaxDeltas

VARIABLES
  received,      \* the upstream's events
  body,          \* "open", "ended" or "failed"
  includeUsage,  \* include_usage: the client asked for a usage chunk
  toolIndex,     \* tool_index: block -> its Chat index, whether arguments were sent
  started,
  finished,
  out            \* what the client was sent

toChatVars == <<received, body, includeUsage, toolIndex, started, finished, out>>

Upstream == INSTANCE MessageStream WITH sent <- received

Role == [type |-> "role"]
Content(parts) == [type |-> "content", parts |-> parts]
ToolHead(i, parts) == [type |-> "tool", index |-> i, parts |-> parts]
Arguments(i, parts) == [type |-> "arguments", index |-> i, parts |-> parts]
EmptyObject == <<0>>   \* the arguments "{}"
Final == [type |-> "final"]
Usage == [type |-> "usage"]
DoneMark == [type |-> "[DONE]"]
ErrorChunk == [type |-> "error"]

Init ==
  /\ received = <<>>
  /\ body = "open"
  /\ includeUsage \in BOOLEAN
  /\ toolIndex = <<>>
  /\ started = FALSE
  /\ finished = FALSE
  /\ out = <<>>

(***************************************************************************)
(* ensure_started, then the chunks of the event.                           *)
(***************************************************************************)
Write(chunks) ==
  /\ started' = TRUE
  /\ out' = out \o (IF started THEN <<>> ELSE <<Role>>) \o chunks

StartMessage(e) ==
  /\ e.type = "message_start"
  /\ Write(<<>>)
  /\ UNCHANGED <<toolIndex, finished>>

StartBlock(e) ==
  /\ e.type = "content_block_start"
  /\ LET i == Cardinality(DOMAIN toolIndex)
     IN  IF e.kind = "tool_use"
           THEN /\ toolIndex' = [b \in DOMAIN toolIndex \cup {e.index} |->
                     IF b = e.index THEN [index |-> i, hasArguments |-> (e.input # <<>>)]
                                    ELSE toolIndex[b]]
                /\ Write(<<ToolHead(i, e.input)>>)
           ELSE toolIndex' = toolIndex /\ Write(<<>>)
  /\ UNCHANGED finished

SendText(e) ==
  /\ e.type = "content_block_delta" /\ e.kind = "text"
  /\ Write(IF e.parts = <<>> THEN <<>> ELSE <<Content(e.parts)>>)
  /\ UNCHANGED <<toolIndex, finished>>

SendArguments(e) ==
  /\ e.type = "content_block_delta" /\ e.kind = "tool_use"
  /\ IF e.index \in DOMAIN toolIndex /\ e.parts # <<>>
       THEN /\ toolIndex' = [toolIndex EXCEPT ![e.index].hasArguments = TRUE]
            /\ Write(<<Arguments(toolIndex[e.index].index, e.parts)>>)
       ELSE toolIndex' = toolIndex /\ Write(<<>>)
  /\ UNCHANGED finished

(***************************************************************************)
(* A tool that streamed no arguments still needs valid JSON.               *)
(***************************************************************************)
StopBlock(e) ==
  /\ e.type = "content_block_stop"
  /\ IF e.index \in DOMAIN toolIndex /\ ~toolIndex[e.index].hasArguments
       THEN /\ toolIndex' = [toolIndex EXCEPT ![e.index].hasArguments = TRUE]
            /\ out' = Append(out, Arguments(toolIndex[e.index].index, EmptyObject))
       ELSE UNCHANGED <<toolIndex, out>>
  /\ UNCHANGED <<started, finished>>

(***************************************************************************)
(* finish and fail_with: whichever comes first ends the stream.            *)
(***************************************************************************)
Finish ==
  /\ finished' = TRUE
  /\ IF finished THEN UNCHANGED <<started, out>>
     ELSE Write(<<Final>> \o (IF includeUsage THEN <<Usage>> ELSE <<>>) \o <<DoneMark>>)
  /\ UNCHANGED toolIndex

Fail ==
  /\ finished' = TRUE
  /\ out' = IF finished THEN out ELSE Append(out, ErrorChunk)
  /\ UNCHANGED <<started, toolIndex>>

(***************************************************************************)
(* push_bytes: once finished, what still arrives is not looked at.         *)
(***************************************************************************)
Receive(e) ==
  /\ body = "open"
  /\ Upstream!Extend(e)
  /\ IF finished THEN UNCHANGED <<toolIndex, started, finished, out>>
     ELSE \/ StartMessage(e)
          \/ StartBlock(e)
          \/ SendText(e)
          \/ SendArguments(e)
          \/ StopBlock(e)
          \/ e.type = "message_delta" /\ UNCHANGED <<toolIndex, started, finished, out>>
          \/ e.type = "message_stop" /\ Finish
          \/ e.type = "error" /\ Fail
  /\ UNCHANGED <<body, includeUsage>>

(***************************************************************************)
(* end_of_stream after a clean end, fail after a broken connection.        *)
(***************************************************************************)
UpstreamCloses(how) ==
  /\ body = "open"
  /\ body' = how
  /\ Fail
  /\ UNCHANGED <<received, includeUsage>>

UpstreamEnds == UpstreamCloses("ended")
UpstreamFails == UpstreamCloses("failed")

Next == (\E e \in Upstream!Candidates : Receive(e)) \/ UpstreamEnds \/ UpstreamFails
Spec == Init /\ [][Next]_toChatVars

TypeOK ==
  /\ body \in {"open", "ended", "failed"}
  /\ includeUsage \in BOOLEAN
  /\ DOMAIN toolIndex \subseteq 0..MaxBlocks
  /\ \A b \in DOMAIN toolIndex : toolIndex[b] \in [index : 0..MaxBlocks, hasArguments : BOOLEAN]
  /\ started \in BOOLEAN /\ finished \in BOOLEAN

-----------------------------------------------------------------------------
Of(types) == SelectSeq(out, LAMBDA c : c.type \in types)
PartsOf(chunks) == FlattenSeq([k \in DOMAIN chunks |-> chunks[k].parts])
Heads == Of({"tool"})
SentArguments(i) ==
  PartsOf(SelectSeq(Of({"tool", "arguments"}), LAMBDA c : c.index = i))

(* The chunks say what the events said: the text so far, one call per tool *)
(* block, numbered from 0 without a gap and announced before its arguments *)
(* come, and for every closed block all its arguments or, when there were  *)
(* none, an empty object: exactly once, whether the upstream gave them in  *)
(* the block's start, in deltas, in empty deltas or not at all.            *)
ChatContentKept ==
  LET blocks == Upstream!Blocks(received)
      tools  == Upstream!ToolsOf(blocks)
      open   == Upstream!Position(received).phase = "tool_use"
  IN  ~Upstream!Has(received, "error") =>
        /\ PartsOf(Of({"content"})) = Upstream!TextOf(blocks)
        /\ [k \in DOMAIN Heads |-> Heads[k].index] = [k \in DOMAIN tools |-> k - 1]
        /\ \A k \in DOMAIN tools :
             SentArguments(k - 1) =
               IF tools[k].parts = <<>> /\ ~(open /\ k = Len(tools))
                 THEN EmptyObject ELSE tools[k].parts
        /\ \A a, h \in DOMAIN out :
             out[a].type = "arguments" /\ out[h].type = "tool" /\ out[a].index = out[h].index
               => h < a

(* A client can tell a whole answer from one that was cut off: [DONE]      *)
(* comes if and only if the upstream reached message_stop, any other end   *)
(* leaves one error chunk, either is the last thing sent, and the role     *)
(* comes before all else (end_of_stream, fail_with).                       *)
DoneMeansComplete ==
  LET last == out[Len(out)].type
  IN  /\ finished <=> body # "open" \/ Upstream!Has(received, "message_stop")
                        \/ Upstream!Has(received, "error")
      /\ finished => last = IF Upstream!Has(received, "message_stop") THEN "[DONE]" ELSE "error"
      /\ \A k \in DOMAIN out :
           out[k].type \in {"[DONE]", "error"} => k = Len(out) /\ finished
      /\ \A k \in DOMAIN out : out[k].type = "role" <=> (k = 1 /\ started)
=============================================================================
