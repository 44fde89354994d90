--------------------------- MODULE ChatToAnthropic ---------------------------
(***************************************************************************)
(* A Messages request answered by an endpoint of the Chat Completions      *)
(* protocol: OpenAiSseTranslator and the task of                           *)
(* openai_chat_stream_to_anthropic.  Text is passed on as it arrives; the  *)
(* fragments of tool calls, which the endpoint may interleave, are kept by *)
(* their index and written as whole blocks when the stream ends.           *)
(*                                                                         *)
(* A chunk has at most one text fragment and at most one fragment per tool *)
(* call (with or without arguments); the fragments of the n-th chunk are   *)
(* the part n.  Ids, names and token counts are left out, and so is the    *)
(* cutting of the bytes into lines: a chunk here is a whole data line.     *)
(***************************************************************************)
EXTENDS Naturals, Sequences, SequencesExt

CONSTANTS
  CallIndexes,  \* the indexes of the endpoint's tool calls
  MaxChunks,    \* bound: data lines of a response
  MaxBlocks, MaxDeltas

VARIABLES
  chunks,    \* what the endpoint sent
  body,      \* "open", or how its body ended: "ended" or "failed"
  started,   \* message_started
  next,      \* next_block_index
  openText,  \* open_text_block: the index of the open text block, if any
  calls,     \* tool_calls: index -> the arguments gathered
  reason,    \* finish_reason
  sent       \* the events written to the client

chatVars == <<chunks, body, started, next, openText, calls, reason, sent>>

Stream == INSTANCE MessageStream

Reasons == {"none", "stop", "length", "tool_calls"}
CallSets == UNION {[S -> BOOLEAN] : S \in SUBSET CallIndexes}
NoCalls == [i \in {} |-> FALSE]
ContentChunks == [text : BOOLEAN, calls : CallSets, reason : {"none"}]
FinalChunks == [text : {FALSE}, calls : {NoCalls}, reason : Reasons \ {"none"}]
Chunks == ContentChunks \cup FinalChunks

Init ==
  /\ chunks = <<>>
  /\ body = "open"
  /\ started = FALSE
  /\ next = 0
  /\ openText = {}
  /\ calls = <<>>
  /\ reason = "none"
  /\ sent = <<>>

EmitMessageStart == IF started THEN <<>> ELSE <<Stream!MessageStart>>

(***************************************************************************)
(* accumulate_tool_fragment, for every call of the chunk that is the n-th. *)
(***************************************************************************)
Accumulate(chunkCalls, n) ==
  [i \in DOMAIN calls \cup DOMAIN chunkCalls |->
     (IF i \in DOMAIN calls THEN calls[i] ELSE <<>>)
       \o (IF i \in DOMAIN chunkCalls /\ chunkCalls[i] THEN <<n>> ELSE <<>>)]

(***************************************************************************)
(* handle_chunk: the text first, then the calls, which close the text.     *)
(***************************************************************************)
HandleChunk(c) ==
  LET n       == Len(chunks) + 1
      fresh   == c.text /\ openText = {}
      block   == IF fresh THEN {next} ELSE openText
      opening == IF fresh THEN <<Stream!BlockStart(next, "text", <<>>)>> ELSE <<>>
      text    == IF c.text
                   THEN <<Stream!BlockDelta(CHOOSE i \in block : TRUE, "text", <<n>>)>>
                   ELSE <<>>
      closes  == DOMAIN c.calls # {} /\ block # {}
      closing == IF closes THEN <<Stream!BlockStop(CHOOSE i \in block : TRUE)>> ELSE <<>>
  IN  /\ body = "open"
      /\ Len(chunks) < MaxChunks
      /\ chunks' = Append(chunks, c)
      /\ started' = TRUE
      /\ next' = IF fresh THEN next + 1 ELSE next
      /\ openText' = IF closes THEN {} ELSE block
      /\ calls' = Accumulate(c.calls, n)
      /\ reason' = IF c.reason = "none" THEN reason ELSE c.reason
      /\ sent' = sent \o EmitMessageStart \o opening \o text \o closing
      /\ UNCHANGED body

ToolBlock(i, args) ==
  <<Stream!BlockStart(i, "tool_use", <<>>)>>
    \o (IF args = <<>> THEN <<>> ELSE <<Stream!BlockDelta(i, "tool_use", args)>>)
    \o <<Stream!BlockStop(i)>>

ToolOrderReversed == SetToSortSeq(DOMAIN calls, >)  \* Variant: unsorted
ToolOrder ==
  [k \in 1 .. Cardinality(DOMAIN calls) |->
     CHOOSE i \in DOMAIN calls : Cardinality({j \in DOMAIN calls : j < i}) = k - 1]
ToolBlocks(first) ==
  FlattenSeq([k \in DOMAIN ToolOrder |-> ToolBlock(first + k - 1, calls[ToolOrder[k]])])

MappedStopReason ==
  CASE DOMAIN calls # {} \/ reason = "tool_calls" -> "tool_use"
    [] DOMAIN calls = {} /\ reason = "length"     -> "max_tokens"
    [] OTHER                                      -> "end_turn"

CloseTextBlockLate == <<>>  \* Variant: only tool calls close the text
CloseTextBlock ==
  IF openText = {} THEN <<>> ELSE <<Stream!BlockStop(CHOOSE i \in openText : TRUE)>>

(***************************************************************************)
(* finish: called however the endpoint's body ends; only after a clean end *)
(* is the tail it returns sent, after a failure the body is aborted.       *)
(***************************************************************************)
FinalEvents ==
  EmitMessageStart \o CloseTextBlock \o ToolBlocks(next)
    \o <<Stream!MessageDelta(MappedStopReason), Stream!MessageStop>>

Finish(how) ==
  /\ body = "open"
  /\ body' = how
  /\ started' = TRUE
  /\ next' = next + Len(ToolOrder)
  /\ openText' = {}
  /\ calls' = <<>>
  /\ sent' = IF how = "ended" THEN sent \o FinalEvents ELSE sent
  /\ UNCHANGED <<chunks, reason>>

EndpointEnds == Finish("ended")
EndpointFails == Finish("failed")

Next == (\E c \in Chunks : HandleChunk(c)) \/ EndpointEnds \/ EndpointFails
Spec == Init /\ [][Next]_chatVars

TypeOK ==
  /\ chunks \in Seq(Chunks)
  /\ body \in {"open", "ended", "failed"}
  /\ started \in BOOLEAN
  /\ openText \in {{}, {next - 1}}
  /\ DOMAIN calls \subseteq CallIndexes
  /\ \A i \in DOMAIN calls : calls[i] \in Seq(1..MaxChunks)
  /\ reason \in Reasons

-----------------------------------------------------------------------------
(* The client of this translator is promised a legal message stream:       *)
(* however the endpoint mixes text and the fragments of several calls, the *)
(* blocks are numbered in order and never overlap, and nothing follows     *)
(* message_stop.                                                           *)
StreamIsLegal == Stream!Spec

(* What the endpoint sent, by its own chunks.                              *)
ChunkText == FlattenSeq([n \in DOMAIN chunks |-> IF chunks[n].text THEN <<n>> ELSE <<>>])
ChunkCalls == UNION {DOMAIN chunks[n].calls : n \in DOMAIN chunks}
ChunkArgs(i) ==
  SelectSeq([n \in DOMAIN chunks |-> n],
            LAMBDA n : i \in DOMAIN chunks[n].calls /\ chunks[n].calls[i])

(* Nothing the endpoint said is lost, repeated or moved to another call:   *)
(* the text reaches the client as it comes, the arguments of every call    *)
(* whole, in their order, one block per call in the order of the indexes;  *)
(* and a client that sees message_stop has the whole answer, one whose     *)
(* stream failed never sees it (OpenAiSseTranslator::finish).              *)
MessagesContentKept ==
  LET blocks == Stream!Blocks(sent)
      order  == SetToSortSeq(ChunkCalls, <)
  IN  /\ Stream!TextOf(blocks) = ChunkText
      /\ Stream!Has(sent, "message_stop") <=> body = "ended"
      /\ body = "ended" =>
           Stream!ToolsOf(blocks) =
             [k \in DOMAIN order |-> [kind |-> "tool_use", parts |-> ChunkArgs(order[k])]]
=============================================================================
