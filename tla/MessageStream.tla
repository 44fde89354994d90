---------------------------- MODULE MessageStream ----------------------------
(***************************************************************************)
(* The events of one streamed Anthropic message, as the translators of     *)
(* src/crates/rayline-local-router/src write and read them: a start, then  *)
(* content blocks one after the other, numbered from 0 and one open at a   *)
(* time, then the message_delta with the stop reason and message_stop.  An *)
(* upstream may give up with an error event at any place before that.      *)
(*                                                                         *)
(* A text fragment or a piece of a tool's arguments is a sequence of parts *)
(* (none when it is empty); parts are positive numbers, so that order and  *)
(* loss show.  The module is both the promise of the translator that writes     *)
(* such a stream and the environment of those that read one.               *)
(***************************************************************************)
EXTENDS Naturals, Sequences, SequencesExt

CONSTANTS
  MaxBlocks,   \* the most content blocks of a message
  MaxDeltas    \* the most deltas of a block

VARIABLE sent  \* the events so far

BlockKinds == {"text", "tool_use"}

MessageStart == [type |-> "message_start"]
BlockStart(i, kind, input) ==
  [type |-> "content_block_start", index |-> i, kind |-> kind, input |-> input]
BlockDelta(i, kind, parts) ==
  [type |-> "content_block_delta", index |-> i, kind |-> kind, parts |-> parts]
BlockStop(i) == [type |-> "content_block_stop", index |-> i]
MessageDelta(reason) == [type |-> "message_delta", reason |-> reason]
MessageStop == [type |-> "message_stop"]
UpstreamError == [type |-> "error"]

(***************************************************************************)
(* Where a reader is after some events: the phase is the kind of the open  *)
(* block while one is open.                                                *)
(***************************************************************************)
Beginning == [phase |-> "before", next |-> 0]

Allowed(p, e) ==
  \/ e.type = "message_start" /\ p.phase = "before"
  \/ e.type = "content_block_start" /\ p.phase = "between" /\ e.index = p.next
  \/ e.type = "content_block_delta" /\ p.phase = e.kind /\ e.index + 1 = p.next
  \/ e.type = "content_block_stop" /\ p.phase \in BlockKinds /\ e.index + 1 = p.next
  \/ e.type = "message_delta" /\ p.phase = "between"
  \/ e.type = "message_stop" /\ p.phase = "closing"
  \/ e.type = "error" /\ p.phase \notin {"done", "failed", "illegal"}

After(p, e) ==
  IF ~Allowed(p, e) THEN [p EXCEPT !.phase = "illegal"]
  ELSE CASE e.type = "content_block_start" -> [phase |-> e.kind, next |-> p.next + 1]
         [] e.type = "content_block_delta" -> p
         [] e.type = "message_delta"       -> [p EXCEPT !.phase = "closing"]
         [] e.type = "message_stop"        -> [p EXCEPT !.phase = "done"]
         [] e.type = "error"               -> [p EXCEPT !.phase = "failed"]
         [] OTHER                          -> [p EXCEPT !.phase = "between"]

Position(events) == FoldLeft(After, Beginning, events)
Legal(events) == Position(events).phase # "illegal"
Has(events, type) == \E k \in DOMAIN events : events[k].type = type

(***************************************************************************)
(* What a reader makes of the events: the blocks with all their parts.     *)
(***************************************************************************)
Read(blocks, e) ==
  CASE e.type = "content_block_start" ->
         Append(blocks, [kind |-> e.kind, parts |-> e.input])
    [] e.type = "content_block_delta" ->
         [blocks EXCEPT ![Len(blocks)].parts = @ \o e.parts]
    [] OTHER -> blocks

Blocks(events) == FoldLeft(Read, <<>>, events)
TextOf(blocks) ==
  FlattenSeq([k \in DOMAIN blocks |->
                IF blocks[k].kind = "text" THEN blocks[k].parts ELSE <<>>])
ToolsOf(blocks) == SelectSeq(blocks, LAMBDA b : b.kind = "tool_use")

(***************************************************************************)
(* The promise: a stream only grows, and is at all times the beginning of  *)
(* a legal one.  A step may write several events.                          *)
(***************************************************************************)
Init == sent = <<>>
Grow == IsStrictPrefix(sent, sent') /\ Legal(sent')
Spec == Init /\ [][Grow]_sent

(***************************************************************************)
(* The environment: one more legal event, within the bounds.  A tool's     *)
(* arguments come with the block's start or in deltas, the first of which  *)
(* may be empty; the stop reason plays no part for the readers here.       *)
(***************************************************************************)
Candidates ==
  LET p    == Position(sent)
      part == <<Len(sent) + 1>>
      all  == {MessageStart, MessageDelta("end_turn"), MessageStop, UpstreamError,
               BlockStop(p.next - 1), BlockStart(p.next, "text", <<>>)}
                \cup {BlockStart(p.next, "tool_use", input) : input \in {<<>>, part}}
                \cup {BlockDelta(p.next - 1, kind, parts) :
                        kind \in BlockKinds, parts \in {<<>>, part}}
  IN  {e \in all : Allowed(p, e)}

DeltaFits(e) ==
  LET opener == SelectLastInSeq(sent, LAMBDA b : b.type = "content_block_start")
      deltas == Len(sent) - opener
  IN  /\ deltas < MaxDeltas
      /\ sent[opener].input = <<>>
      /\ e.parts = <<>> => deltas = 0

Extend(e) ==
  /\ Allowed(Position(sent), e)
  /\ e.type = "content_block_start" => e.index < MaxBlocks
  /\ e.type = "content_block_delta" => DeltaFits(e)
  /\ sent' = Append(sent, e)
=============================================================================
