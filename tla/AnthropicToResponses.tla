------------------------- MODULE AnthropicToResponses -------------------------
(***************************************************************************)
(* A Responses request answered by an endpoint of the Messages protocol:   *)
(* AnthropicToResponsesTranslator and the task of                          *)
(* anthropic_stream_to_responses.  The answer's text is one output item,   *)
(* whose slot is reserved by its first delta and filled at the end; every  *)
(* tool block is an item of its own, written when the block stops.         *)
(*                                                                         *)
(* Item ids, names, usage and the sequence numbers (an event's place) are  *)
(* left out.  The body comes in chunks: the buffer puts together an event  *)
(* that was cut, but not a character, for each chunk is decoded alone.     *)
(***************************************************************************)
EXTENDS Naturals, Sequences, SequencesExt

CONSTANTS MaxBlocks, MaxDeltas

VARIABLES
  kind,        \* output_kind: of an answer, or of a compaction request
  received,    \* the upstream's events
  body,        \* "open", "ended" or "failed"
  toolBlocks,  \* tools: open tool block -> its arguments so far
  text,        \* the text so far
  output,      \* output: items, or a reserved slot
  textSlot,    \* text_output_index, if any
  completed,
  events       \* what the client was sent

responsesVars ==
  <<kind, received, body, toolBlocks, text, output, textSlot, completed, events>>

Upstream == INSTANCE MessageStream WITH sent <- received

Kinds == {"message", "compaction"}
Item(k, parts) == [kind |-> k, parts |-> parts]
Reserved == Item("reserved", <<>>)
Added(i, item) == [type |-> "added", index |-> i, item |-> item]
TextDelta(i, parts) == [type |-> "delta", index |-> i, parts |-> parts]
Done(i, item) == [type |-> "done", index |-> i, item |-> item]
Completed(items) == [type |-> "completed", output |-> items]

(***************************************************************************)
(* start: response.created is sent before anything is read.                *)
(***************************************************************************)
Init ==
  /\ kind \in Kinds
  /\ received = <<>>
  /\ body = "open"
  /\ toolBlocks = <<>>
  /\ text = <<>>
  /\ output = <<>>
  /\ textSlot = {}
  /\ completed = FALSE
  /\ events = <<[type |-> "created"]>>

(***************************************************************************)
(* start_text_item: indexes of output count from 0.                        *)
(***************************************************************************)
StartTextItem(parts) ==
  IF kind = "compaction"
    THEN UNCHANGED <<output, textSlot, events>>
    ELSE LET slot == IF textSlot = {} THEN Len(output) ELSE CHOOSE i \in textSlot : TRUE
         IN  /\ output' = IF textSlot = {} THEN Append(output, Reserved) ELSE output
             /\ textSlot' = {slot}
             /\ events' = events
                  \o (IF textSlot = {} THEN <<Added(slot, Item(kind, <<>>))>> ELSE <<>>)
                  \o <<TextDelta(slot, parts)>>

OpenTool(e) ==
  /\ e.type = "content_block_start" /\ e.kind = "tool_use"
  /\ toolBlocks' = [i \in DOMAIN toolBlocks \cup {e.index} |->
                      IF i = e.index THEN e.input ELSE toolBlocks[i]]
  /\ UNCHANGED <<text, output, textSlot, completed, events>>

AddText(e) ==
  /\ e.type = "content_block_delta" /\ e.kind = "text" /\ e.parts # <<>>
  /\ text' = text \o e.parts
  /\ StartTextItem(e.parts)
  /\ UNCHANGED <<toolBlocks, completed>>

AddArguments(e) ==
  /\ e.type = "content_block_delta" /\ e.kind = "tool_use"
  /\ e.index \in DOMAIN toolBlocks
  /\ toolBlocks' = [toolBlocks EXCEPT ![e.index] = @ \o e.parts]
  /\ UNCHANGED <<text, output, textSlot, completed, events>>

CloseTool(e) ==
  /\ e.type = "content_block_stop" /\ e.index \in DOMAIN toolBlocks
  /\ LET item == Item("function_call", toolBlocks[e.index])
         i    == Len(output)
     IN  /\ output' = Append(output, item)
         /\ events' = events \o <<Added(i, item), Done(i, item)>>
  /\ toolBlocks' = [i \in DOMAIN toolBlocks \ {e.index} |-> toolBlocks[i]]
  /\ UNCHANGED <<text, textSlot, completed>>

(***************************************************************************)
(* finish: the text item takes its slot (a compaction's is new) and the    *)
(* response is completed with the items in order; once.                    *)
(***************************************************************************)
Finish ==
  LET item == Item(kind, text)
      slot == IF textSlot = {} THEN Len(output) ELSE CHOOSE i \in textSlot : TRUE
      full == IF textSlot = {} THEN Append(output, item)
                               ELSE [output EXCEPT ![slot + 1] = item]
      all  == IF text = <<>> THEN output ELSE full
  IN  /\ ~completed
      /\ completed' = TRUE
      /\ output' = all
      /\ events' = events \o (IF text = <<>> THEN <<>> ELSE <<Done(slot, item)>>)
                          \o <<Completed(all)>>
      /\ UNCHANGED <<toolBlocks, text, textSlot>>

Ignored(e) ==
  \/ e.type \in {"message_start", "message_delta", "error"}
  \/ e.type \in {"content_block_start", "content_block_delta"}
       /\ e.kind = "text" /\ (e.type = "content_block_delta" => e.parts = <<>>)
  \/ e.type = "content_block_stop" /\ e.index \notin DOMAIN toolBlocks

(***************************************************************************)
(* push_bytes: of a character that lies in two chunks each makes a U+FFFD  *)
(* (from_utf8_lossy), so the event that holds it is read with a broken     *)
(* part.  Characters that can be cut are in strings only, here in a text   *)
(* or in arguments: the event still parses, and its kind is the same.      *)
(***************************************************************************)
Broken == 0   \* the upstream's own parts are positive
Lossy(parts) == [k \in DOMAIN parts |-> Broken]
Cut(e) ==
  CASE e.type = "content_block_start" -> [e EXCEPT !.input = Lossy(e.input)]
    [] e.type = "content_block_delta" -> [e EXCEPT !.parts = Lossy(e.parts)]
    [] OTHER -> e
Decoded(e) == {e, Cut(e)}

(***************************************************************************)
(* process_event, and the next event of the upstream.                      *)
(***************************************************************************)
Process(e) ==
  \/ OpenTool(e)
  \/ AddText(e)
  \/ AddArguments(e)
  \/ CloseTool(e)
  \/ e.type = "message_stop" /\ Finish
  \/ Ignored(e) /\ UNCHANGED <<toolBlocks, text, output, textSlot, completed, events>>

Receive(e) ==
  /\ body = "open"
  /\ Upstream!Extend(e)
  /\ \E heard \in Decoded(e) : Process(heard)
  /\ UNCHANGED <<kind, body>>

(***************************************************************************)
(* The upstream body ends, wherever it is: finish is called again.  Or it  *)
(* fails, and the client's body is aborted after what was sent.            *)
(***************************************************************************)
UpstreamEnds ==
  /\ body = "open"
  /\ body' = "ended"
  /\ Finish \/ (completed /\ UNCHANGED <<toolBlocks, text, output, textSlot, completed, events>>)
  /\ UNCHANGED <<kind, received>>

UpstreamFails ==
  /\ body = "open"
  /\ body' = "failed"
  /\ UNCHANGED <<kind, received, toolBlocks, text, output, textSlot, completed, events>>

Next == (\E e \in Upstream!Candidates : Receive(e)) \/ UpstreamEnds \/ UpstreamFails
Spec == Init /\ [][Next]_responsesVars

TypeOK ==
  /\ kind \in Kinds
  /\ body \in {"open", "ended", "failed"}
  /\ completed \in BOOLEAN
  /\ textSlot = {} \/ \E i \in 0..(Len(output) - 1) : textSlot = {i}
  /\ DOMAIN toolBlocks \subseteq 0..MaxBlocks
  /\ \A i \in DOMAIN output : output[i].kind \in Kinds \cup {"function_call", "reserved"}

-----------------------------------------------------------------------------
At(type, i) == {k \in DOMAIN events : events[k].type = type /\ events[k].index = i}
Indexes == {events[k].index : k \in {j \in DOMAIN events :
                                       events[j].type \in {"added", "delta", "done"}}}

(* Every item of a response has one place: its added event comes before    *)
(* all its deltas and these before its done event, no two items share an   *)
(* index, and the response.completed that ends the stream lists, in the    *)
(* order of the indexes, exactly the items that were done.  The text item  *)
(* is done after tool items that were added later, so the slot reserved by *)
(* start_text_item is what keeps the list and the events together.         *)
ItemsPaired ==
  /\ \A i \in Indexes :
       /\ Cardinality(At("added", i)) = (IF kind = "compaction" /\ output[i + 1].kind = kind
                                           THEN 0 ELSE 1)
       /\ Cardinality(At("done", i)) <= 1
       /\ \A a \in At("added", i), d \in At("delta", i) : a < d
       /\ \A d \in At("added", i) \cup At("delta", i), z \in At("done", i) : d < z
  /\ \A k \in DOMAIN events : events[k].type = "completed" =>
       /\ k = Len(events)
       /\ Indexes = {i - 1 : i \in DOMAIN events[k].output}
       /\ \A i \in Indexes :
            \E z \in At("done", i) : events[z].item = events[k].output[i + 1]

(* The client gets what the upstream said: the text deltas are its text so *)
(* far, a response that is completed holds the whole text and one function *)
(* call per finished tool block, in their order and with all arguments;    *)
(* a body that failed before message_stop never looks completed.  Nothing  *)
(* is lost, moved or repeated, but a part may be broken (push_bytes).      *)
Agrees(parts, meant) ==
  Len(parts) = Len(meant) /\ \A k \in DOMAIN parts : parts[k] \in {meant[k], Broken}
ResponsesContentKept ==
  LET blocks   == Upstream!Blocks(received)
      closed   == Cardinality({k \in DOMAIN received : received[k].type = "content_block_stop"})
      deltas   == SelectSeq(events, LAMBDA e : e.type = "delta")
      tools    == SelectSeq(output, LAMBDA item : item.kind = "function_call")
      finished == Upstream!ToolsOf(SubSeq(blocks, 1, closed))
  IN  /\ Agrees(text, Upstream!TextOf(blocks))
      /\ kind = "message" => FlattenSeq([k \in DOMAIN deltas |-> deltas[k].parts]) = text
      /\ Len(tools) = Len(finished)
      /\ \A k \in DOMAIN tools : Agrees(tools[k].parts, finished[k].parts)
      /\ completed /\ text # <<>> =>
           \E i \in DOMAIN output : output[i] = Item(kind, text)
      /\ completed => Upstream!Has(received, "message_stop") \/ body = "ended"
=============================================================================
