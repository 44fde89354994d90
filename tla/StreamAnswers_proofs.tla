------------------------ MODULE StreamAnswers_proofs ------------------------
(***************************************************************************)
(* What a client can make of a translated stream, for any events of the    *)
(* endpoint: two invariants beside the types.                              *)
(*                                                                         *)
(*   ChatInv      what has been sent of a Chat answer is open, or ended by *)
(*                the mark that tells how the endpoint's stream ended;     *)
(*   ResponseInv  each item of a Responses answer has its place: the one   *)
(*                that the text has reserved is open, all others are done. *)
(*                                                                         *)
(* Both rest on a stream of the endpoint saying nothing after the event    *)
(* that ends it, which is read off its position.                           *)
(***************************************************************************)
EXTENDS StreamTranslation_proofs

-----------------------------------------------------------------------------
(* AnthropicToChat: what a client can tell from the end of its chunks.     *)
LastTypes == {"[DONE]", "error"}
Chunked(o) == \E S : o \in Seq(S)
Clean(o) == \A k \in DOMAIN o : o[k].type \notin LastTypes
Opened(o, has) == \A k \in DOMAIN o : o[k].type = "role" <=> (k = 1 /\ has)
Begun(o, has) == /\ Chunked(o) /\ Opened(o, has) /\ has \in BOOLEAN
                 /\ IF has THEN Len(o) > 0 ELSE o = <<>>
EndedBy(o, last) ==
  /\ Chunked(o) /\ Len(o) > 0 /\ o[Len(o)].type = last
  /\ \A k \in DOMAIN o : o[k].type \in LastTypes => k = Len(o)

LEMMA ChunkAppended ==
  ASSUME NEW o, Chunked(o), NEW c
  PROVE  /\ Chunked(Append(o, c))
         /\ Len(o) \in Nat /\ Len(Append(o, c)) = Len(o) + 1
         /\ DOMAIN o = 1 .. Len(o) /\ DOMAIN Append(o, c) = 1 .. (Len(o) + 1)
         /\ Append(o, c)[Len(o) + 1] = c
         /\ \A k \in 1 .. Len(o) : Append(o, c)[k] = o[k]
<1>1. PICK S : o \in Seq(S)
  BY DEF Chunked
<1>2. Append(o, c) \in Seq(S \cup {c})
  BY <1>1
<1>3. QED BY <1>1, <1>2 DEF Chunked

LEMMA ChunksRegroup ==
  ASSUME NEW H, NEW s \in Seq(H), NEW t \in Seq(H), NEW u \in Seq(H)
  PROVE  s \o (t \o u) = (s \o t) \o u
<1>7. s \o t \in Seq(H) /\ t \o u \in Seq(H)
  OBVIOUS
<1>1. PICK st \in Seq(H) : st = s \o t
  BY <1>7
<1>2. PICK tu \in Seq(H) : tu = t \o u
  BY <1>7
<1>3. st \o u \in Seq(H) /\ s \o tu \in Seq(H) /\ Len(st \o u) = Len(s \o tu)
  BY <1>1, <1>2
<1>4. \A i \in 1..Len(st \o u) : (st \o u)[i] = (s \o tu)[i]
  BY <1>1, <1>2, <1>3
<1>5. st \o u = s \o tu
  BY <1>3, <1>4, SeqEqual
<1>6. QED BY <1>1, <1>2, <1>5

LEMMA ChunksTogether ==
  ASSUME NEW o, Chunked(o)
  PROVE  o \o <<>> = o /\ \A a : o \o <<a>> = Append(o, a)
  BY DEF Chunked

(* The final chunk, an optional one and the mark, put together first.      *)
LEMMA ThreeTogether ==
  ASSUME NEW o, Chunked(o), NEW a, NEW b, NEW c
  PROVE  /\ o \o ((<<a>> \o <<>>) \o <<c>>) = Append(Append(o, a), c)
         /\ o \o ((<<a>> \o <<b>>) \o <<c>>) = Append(Append(Append(o, a), b), c)
<1>1. PICK S : o \in Seq(S)
  BY DEF Chunked
<1> DEFINE H == S \cup {a, b, c}
<1>2. /\ o \in Seq(H) /\ <<a>> \in Seq(H) /\ <<b>> \in Seq(H) /\ <<c>> \in Seq(H)
      /\ <<>> \in Seq(H) /\ a \in H /\ b \in H /\ c \in H
  <2>1. o \in Seq(H)
    BY <1>1
  <2>2. a \in H /\ b \in H /\ c \in H
    OBVIOUS
  <2> HIDE DEF H
  <2>3. <<a>> \in Seq(H) /\ <<b>> \in Seq(H) /\ <<c>> \in Seq(H) /\ <<>> \in Seq(H)
    BY <2>2
  <2>4. QED BY <2>1, <2>2, <2>3
<1> HIDE DEF H
<1>3. ASSUME NEW m \in Seq(H), NEW om, om = (o \o <<a>>) \o m
      PROVE  o \o ((<<a>> \o m) \o <<c>>) = om \o <<c>>
  <2>5. PICK x \in Seq(H) : x = <<a>>
    BY <1>2
  <2>6. x \o m \in Seq(H)
    OBVIOUS
  <2>1. PICK am \in Seq(H) : am = <<a>> \o m
    BY <2>5, <2>6
  <2>2. o \o (am \o <<c>>) = (o \o am) \o <<c>>
    BY <1>2, <2>1, ChunksRegroup
  <2>3. o \o (<<a>> \o m) = (o \o <<a>>) \o m
    BY <1>2, ChunksRegroup
  <2>4. QED BY <1>3, <2>1, <2>2, <2>3
<1>4. PICK oa \in Seq(H) : oa = o \o <<a>> /\ oa = Append(o, a)
  <2>1. o \o <<a>> = Append(o, a) /\ Append(o, a) \in Seq(H)
    BY <1>2
  <2>2. QED BY <2>1
<1>5. \A s \in Seq(H) : s \o <<>> = s /\ s \o <<b>> = Append(s, b) /\ s \o <<c>> = Append(s, c)
  BY <1>2
<1>6. o \o ((<<a>> \o <<>>) \o <<c>>) = Append(oa, c)
  <2>1. oa \o <<>> = oa /\ oa \o <<c>> = Append(oa, c)
    BY <1>5
  <2>2. oa = (o \o <<a>>) \o <<>>
    BY <1>4, <2>1
  <2>3. QED BY <1>2, <1>3, <2>1, <2>2
<1>7. o \o ((<<a>> \o <<b>>) \o <<c>>) = Append(Append(oa, b), c)
  <2>1. PICK ob \in Seq(H) : ob = Append(oa, b) /\ ob = oa \o <<b>>
    <3>1. oa \o <<b>> = Append(oa, b) /\ Append(oa, b) \in Seq(H)
      BY <1>2, <1>5
    <3>2. QED BY <3>1
  <2>2. ob = (o \o <<a>>) \o <<b>>
    BY <1>4, <2>1
  <2>3. ob \o <<c>> = Append(ob, c)
    BY <1>5
  <2>4. QED BY <1>2, <1>3, <2>1, <2>2, <2>3
<1>8. QED BY <1>4, <1>6, <1>7

Led(o, has, p) == p = o \o (IF has THEN <<>> ELSE <<C!Role>>)

LEMMA RoleIsRole == C!Role.type = "role"
  BY DEF C!Role

LEMMA RoleComesFirst ==
  ASSUME NEW o, NEW has, Begun(o, has), Clean(o), NEW o2, Led(o, has, o2)
  PROVE  Begun(o2, TRUE) /\ Clean(o2)
<1>0. o2 = o \o (IF has THEN <<>> ELSE <<C!Role>>)
  BY DEF Led
<1>1. CASE has
  <2>1. o2 = o
    BY <1>0, <1>1, ChunksTogether DEF Begun
  <2>2. QED BY <1>1, <2>1 DEF Begun, Opened
<1>2. CASE ~has
  <2>1. o = <<>> /\ Chunked(o)
    BY <1>2 DEF Begun
  <2>2. o2 = <<C!Role>>
    BY <1>0, <1>2, <2>1
  <2>3. PICK r : r = C!Role /\ r.type = "role"
    BY RoleIsRole
  <2>7. <<r>> \in Seq({r}) /\ Len(<<r>>) = 1 /\ DOMAIN <<r>> = {1} /\ <<r>>[1] = r
    OBVIOUS
  <2>4. o2 \in Seq({r}) /\ Len(o2) = 1 /\ DOMAIN o2 = {1} /\ o2[1].type = "role"
    BY <2>2, <2>3, <2>7
  <2>5. Chunked(o2)
    BY <2>4 DEF Chunked
  <2>6. QED BY <2>4, <2>5 DEF Begun, Opened, Clean, LastTypes
<1>3. QED BY <1>1, <1>2 DEF Begun

PlainChunk(c) == c.type \notin LastTypes \cup {"role"}

LEMMA PlainFollows ==
  ASSUME NEW o, Begun(o, TRUE), Clean(o), NEW c, PlainChunk(c)
  PROVE  Begun(Append(o, c), TRUE) /\ Clean(Append(o, c))
<1> DEFINE t == Append(o, c)
<1>1. /\ Chunked(t) /\ Len(o) \in Nat /\ Len(t) = Len(o) + 1
      /\ DOMAIN o = 1 .. Len(o) /\ DOMAIN t = 1 .. (Len(o) + 1)
      /\ t[Len(o) + 1] = c /\ \A k \in 1 .. Len(o) : t[k] = o[k]
  BY ChunkAppended DEF Begun
<1> HIDE DEF t
<1>2. Len(o) > 0 /\ Opened(o, TRUE)
  BY DEF Begun
<1>3. ASSUME NEW k \in DOMAIN t
      PROVE  t[k].type \notin LastTypes /\ (t[k].type = "role" <=> k = 1)
  <2>1. CASE k \in 1 .. Len(o)
    <3>1. t[k] = o[k] /\ k \in DOMAIN o
      BY <1>1, <2>1
    <3>2. QED BY <1>2, <3>1 DEF Opened, Clean
  <2>2. CASE k \notin 1 .. Len(o)
    <3>1. k = Len(o) + 1 /\ k # 1
      BY <1>1, <1>2, <2>2
    <3>2. t[k] = c
      BY <1>1, <3>1
    <3>3. QED BY <3>1, <3>2 DEF PlainChunk
  <2>3. QED BY <2>1, <2>2
<1>4. Len(t) > 0
  BY <1>1
<1>5. QED BY <1>1, <1>3, <1>4 DEF t, Begun, Opened, Clean

LEMMA LastEnds ==
  ASSUME NEW o, NEW has, Begun(o, has), Clean(o), NEW c, c.type \in LastTypes
  PROVE  /\ Opened(Append(o, c), has) /\ EndedBy(Append(o, c), c.type)
         /\ Chunked(Append(o, c))
<1> DEFINE t == Append(o, c)
<1>1. /\ Chunked(t) /\ Len(o) \in Nat /\ Len(t) = Len(o) + 1
      /\ DOMAIN o = 1 .. Len(o) /\ DOMAIN t = 1 .. (Len(o) + 1)
      /\ t[Len(o) + 1] = c /\ \A k \in 1 .. Len(o) : t[k] = o[k]
  BY ChunkAppended DEF Begun
<1> HIDE DEF t
<1>2. /\ Opened(o, has) /\ has \in BOOLEAN
      /\ has => Len(o) > 0
  BY DEF Begun
<1>3. c.type # "role"
  BY DEF LastTypes
<1>4. ASSUME NEW k \in DOMAIN t
      PROVE  /\ t[k].type \in LastTypes => k = Len(t)
             /\ t[k].type = "role" <=> (k = 1 /\ has)
  <2>1. CASE k \in 1 .. Len(o)
    <3>1. t[k] = o[k] /\ k \in DOMAIN o
      BY <1>1, <2>1
    <3>2. QED BY <1>2, <3>1 DEF Opened, Clean
  <2>2. CASE k \notin 1 .. Len(o)
    <3>1. k = Len(o) + 1 /\ (has => k # 1) /\ k = Len(t)
      BY <1>1, <1>2, <2>2
    <3>2. t[k] = c
      BY <1>1, <3>1
    <3>3. QED BY <1>3, <3>1, <3>2
  <2>3. QED BY <2>1, <2>2
<1>5. Len(t) > 0 /\ t[Len(t)].type = c.type
  BY <1>1
<1>6. QED BY <1>1, <1>4, <1>5 DEF t, Opened, EndedBy

(* What one handler adds.                                                  *)
LEMMA PlainAdds ==
  ASSUME NEW o, NEW has, Begun(o, has), Clean(o), NEW c, PlainChunk(c),
         NEW p, Led(o, has, p)
  PROVE  /\ Begun(p \o <<>>, TRUE) /\ Clean(p \o <<>>)
         /\ Begun(p \o <<c>>, TRUE) /\ Clean(p \o <<c>>)
<1>1. Begun(p, TRUE) /\ Clean(p)
  BY RoleComesFirst
<1>2. p \o <<>> = p /\ p \o <<c>> = Append(p, c)
  BY <1>1, ChunksTogether DEF Begun
<1>3. Begun(Append(p, c), TRUE) /\ Clean(Append(p, c))
  BY <1>1, PlainFollows
<1>4. QED BY <1>1, <1>2, <1>3

LEMMA PlainWritten ==
  ASSUME Begun(out, started), Clean(out), NEW c, PlainChunk(c),
         C!Write(<<>>) \/ C!Write(<<c>>)
  PROVE  started' = TRUE /\ Begun(out', TRUE) /\ Clean(out')
<1>1. PICK p : Led(out, started, p)
  BY DEF Led
<1>2. started' = TRUE /\ (out' = p \o <<>> \/ out' = p \o <<c>>)
  BY <1>1 DEF C!Write, Led
<1>3. /\ Begun(p \o <<>>, TRUE) /\ Clean(p \o <<>>)
      /\ Begun(p \o <<c>>, TRUE) /\ Clean(p \o <<c>>)
  BY <1>1, PlainAdds
<1>4. QED BY <1>2, <1>3

LEMMA PlainChunks ==
  ASSUME NEW i, NEW parts
  PROVE  /\ PlainChunk(C!Content(parts)) /\ PlainChunk(C!ToolHead(i, parts))
         /\ PlainChunk(C!Arguments(i, parts)) /\ PlainChunk(C!Final) /\ PlainChunk(C!Usage)
         /\ C!DoneMark.type = "[DONE]" /\ C!ErrorChunk.type = "error"
  BY DEF PlainChunk, LastTypes, C!Content, C!ToolHead, C!Arguments, C!Final, C!Usage,
    C!DoneMark, C!ErrorChunk

(* A chunk is written while the stream is open only after the role, and    *)
(* arguments only of a call that was announced.                            *)
OpenChat == /\ Begun(out, started) /\ Clean(out)
            /\ DOMAIN toolIndex # {} => started

LEMMA ChatGoesOn ==
  ASSUME OpenChat, NEW e,
         \/ C!StartMessage(e) \/ C!StartBlock(e) \/ C!SendText(e) \/ C!SendArguments(e)
         \/ C!StopBlock(e)
  PROVE  OpenChat' /\ finished' = finished
<1>0. Begun(out, started) /\ Clean(out) /\ (DOMAIN toolIndex # {} => started)
  BY DEF OpenChat
<1>1. ASSUME NEW c, PlainChunk(c), C!Write(<<>>) \/ C!Write(<<c>>)
      PROVE  OpenChat'
  <2>1. started' = TRUE /\ Begun(out', TRUE) /\ Clean(out')
    BY <1>0, <1>1, PlainWritten
  <2>2. QED BY <2>1 DEF OpenChat
<1>2. CASE C!StartMessage(e)
  BY <1>1, <1>2, PlainChunks DEF C!StartMessage
<1>3. CASE C!StartBlock(e)
  <2>1. PICK i : i = C!Cardinality(DOMAIN toolIndex)
    OBVIOUS
  <2>2. C!Write(<<C!ToolHead(i, e.input)>>) \/ C!Write(<<>>)
    BY <1>3, <2>1 DEF C!StartBlock
  <2>3. OpenChat'
    BY <1>1, <2>2, PlainChunks
  <2>4. QED BY <1>3, <2>3 DEF C!StartBlock
<1>4. CASE C!SendText(e)
  <2>1. C!Write(<<C!Content(e.parts)>>) \/ C!Write(<<>>)
    BY <1>4 DEF C!SendText
  <2>2. OpenChat'
    BY <1>1, <2>1, PlainChunks
  <2>3. QED BY <1>4, <2>2 DEF C!SendText
<1>5. CASE C!SendArguments(e)
  <2>1. C!Write(<<C!Arguments(toolIndex[e.index].index, e.parts)>>) \/ C!Write(<<>>)
    BY <1>5 DEF C!SendArguments
  <2>2. OpenChat'
    BY <1>1, <2>1, PlainChunks
  <2>3. QED BY <1>5, <2>2 DEF C!SendArguments
<1>6. CASE C!StopBlock(e)
  <2>1. started' = started /\ finished' = finished
    BY <1>6 DEF C!StopBlock
  <2>2. CASE e.index \in DOMAIN toolIndex /\ ~toolIndex[e.index].hasArguments
    <3>1. PICK c : c = C!Arguments(toolIndex[e.index].index, C!EmptyObject)
      OBVIOUS
    <3>2. PlainChunk(c)
      BY <3>1, PlainChunks
    <3>3. out' = Append(out, c)
      BY <1>6, <2>2, <3>1 DEF C!StopBlock
    <3>4. started = TRUE
      BY <1>0, <2>2 DEF Begun
    <3>5. Begun(out, TRUE)
      BY <1>0, <3>4
    <3>6. Begun(out', TRUE) /\ Clean(out')
      BY <1>0, <3>2, <3>3, <3>5, PlainFollows
    <3>7. started' = TRUE
      BY <2>1, <3>4
    <3>8. QED BY <2>1, <3>6, <3>7 DEF OpenChat
  <2>3. CASE ~(e.index \in DOMAIN toolIndex /\ ~toolIndex[e.index].hasArguments)
    <3>1. toolIndex' = toolIndex /\ out' = out
      BY <1>6, <2>3 DEF C!StopBlock
    <3>2. QED BY <1>0, <2>1, <3>1 DEF OpenChat
  <2>4. QED BY <2>2, <2>3
<1>7. QED BY <1>2, <1>3, <1>4, <1>5, <1>6

LEMMA ChatFinishes ==
  ASSUME OpenChat, ~finished, C!Finish
  PROVE  finished' = TRUE /\ Opened(out', started') /\ EndedBy(out', "[DONE]")
<1>0. Begun(out, started) /\ Clean(out)
  BY DEF OpenChat
<1>1. PICK o : Led(out, started, o)
  BY DEF Led
<1>2. Begun(o, TRUE) /\ Clean(o) /\ Chunked(o)
  BY <1>0, <1>1, RoleComesFirst DEF Begun
<1>3. PICK f : f = C!Final /\ PlainChunk(f)
  BY PlainChunks
<1>4. PICK u : u = C!Usage /\ PlainChunk(u)
  BY PlainChunks
<1>5. PICK d : d = C!DoneMark /\ d.type = "[DONE]"
  BY PlainChunks
<1>6. /\ finished' = TRUE /\ started' = TRUE
      /\ out' = o \o ((<<f>> \o (IF includeUsage THEN <<u>> ELSE <<>>)) \o <<d>>)
  BY <1>1, <1>3, <1>4, <1>5 DEF C!Finish, C!Write, Led
<1>7. /\ o \o ((<<f>> \o <<>>) \o <<d>>) = Append(Append(o, f), d)
      /\ o \o ((<<f>> \o <<u>>) \o <<d>>) = Append(Append(Append(o, f), u), d)
  BY <1>2, ThreeTogether
<1>8. \/ out' = Append(Append(o, f), d)
      \/ out' = Append(Append(Append(o, f), u), d)
  <2>1. CASE includeUsage
    BY <1>6, <1>7, <2>1
  <2>2. CASE ~includeUsage
    BY <1>6, <1>7, <2>2
  <2>3. QED BY <2>1, <2>2
<1>9. Begun(Append(o, f), TRUE) /\ Clean(Append(o, f))
  BY <1>2, <1>3, PlainFollows
<1>10. Begun(Append(Append(o, f), u), TRUE) /\ Clean(Append(Append(o, f), u))
  BY <1>4, <1>9, PlainFollows
<1>11. PICK t : Begun(t, TRUE) /\ Clean(t) /\ out' = Append(t, d)
  BY <1>8, <1>9, <1>10
<1>12. Opened(out', TRUE) /\ EndedBy(out', d.type)
  <2>1. d.type \in LastTypes
    BY <1>5 DEF LastTypes
  <2>2. Opened(Append(t, d), TRUE) /\ EndedBy(Append(t, d), d.type)
    BY <1>11, <2>1, LastEnds
  <2>3. QED BY <1>11, <2>2
<1>13. QED BY <1>5, <1>6, <1>12

LEMMA ChatFails ==
  ASSUME OpenChat, ~finished, C!Fail
  PROVE  finished' = TRUE /\ Opened(out', started') /\ EndedBy(out', "error")
<1>0. Begun(out, started) /\ Clean(out)
  BY DEF OpenChat
<1>1. PICK d : d = C!ErrorChunk /\ d.type = "error"
  BY PlainChunks
<1>2. finished' = TRUE /\ started' = started /\ out' = Append(out, d)
  BY <1>1 DEF C!Fail
<1>3. Opened(out', started) /\ EndedBy(out', d.type)
  BY <1>0, <1>1, <1>2, LastEnds DEF LastTypes
<1>4. QED BY <1>1, <1>2, <1>3

(* Nothing follows the event that ends the upstream.                       *)
EndsStream(es, p) ==
  /\ C!Upstream!Has(es, "message_stop") => p.phase = "done"
  /\ C!Upstream!Has(es, "error") => p.phase = "failed"

LEMMA HasNext ==
  ASSUME NEW es, Events(es), NEW e, NEW type
  PROVE  C!Upstream!Has(Append(es, e), type) <=> C!Upstream!Has(es, type) \/ e.type = type
<1>1. PICK E : es \in Seq(E)
  BY DEF Events
<1>2. PICK t : t = Append(es, e)
  OBVIOUS
<1>3. /\ Len(es) \in Nat /\ DOMAIN es = 1..Len(es) /\ DOMAIN t = 1..(Len(es) + 1)
      /\ t[Len(es) + 1] = e /\ \A k \in 1..Len(es) : t[k] = es[k]
  BY <1>1, <1>2
<1>4. \A k \in 1..(Len(es) + 1) : k \in 1..Len(es) \/ k = Len(es) + 1
  BY <1>3
<1>5. \A k \in 1..Len(es) : k \in 1..(Len(es) + 1)
  BY <1>3
<1>6. Len(es) + 1 \in 1..(Len(es) + 1)
  BY <1>3
<1>7. (\E k \in DOMAIN t : t[k].type = type) <=> (\E k \in DOMAIN es : es[k].type = type) \/ e.type = type
  BY <1>3, <1>4, <1>5, <1>6, Zenon
<1>8. QED BY <1>2, <1>7 DEF C!Upstream!Has

LEMMA UpstreamRuns ==
  ASSUME NEW p \in Places, NEW e, C!Upstream!Allowed(p, e),
         e.type = "content_block_delta" => e.kind \in {"text", "tool_use"}
  PROVE  /\ p.phase \notin {"done", "failed"}
         /\ e.type = "message_stop" => Follow(p, e).phase = "done"
         /\ e.type = "error" => Follow(p, e).phase = "failed"
<1>1. p.phase \notin {"done", "failed"}
  BY DEF C!Upstream!Allowed, C!Upstream!BlockKinds
<1>2. M!Stream!Allowed(p, e)
  BY DEF C!Upstream!Allowed, M!Stream!Allowed, C!Upstream!BlockKinds, M!Stream!BlockKinds
<1>3. e.type = "message_stop" => Follow(p, e).phase = "done"
  BY <1>2 DEF Follow, M!Stream!After, Places
<1>4. e.type = "error" => Follow(p, e).phase = "failed"
  BY <1>2 DEF Follow, M!Stream!After, Places
<1>5. QED BY <1>1, <1>3, <1>4

LEMMA EventOfUpstream ==
  ASSUME NEW e \in C!Upstream!Candidates
  PROVE  /\ Kinded(e)
         /\ e.type = "content_block_delta" => e.kind \in {"text", "tool_use"}
  BY DEF C!Upstream!Candidates, Kinded, C!Upstream!MessageStart, C!Upstream!MessageDelta,
    C!Upstream!MessageStop, C!Upstream!UpstreamError, C!Upstream!BlockStop,
    C!Upstream!BlockStart, C!Upstream!BlockDelta, C!Upstream!BlockKinds

(* One more event: none has ended the upstream before.                     *)
LEMMA UpstreamGoesOn ==
  ASSUME Events(received), EndsStream(received, PlaceAfter(received)),
         NEW e \in C!Upstream!Candidates, C!Upstream!Extend(e)
  PROVE  /\ ~C!Upstream!Has(received, "message_stop") /\ ~C!Upstream!Has(received, "error")
         /\ EndsStream(received', PlaceAfter(received'))
         /\ C!Upstream!Has(received', "message_stop") <=> e.type = "message_stop"
         /\ C!Upstream!Has(received', "error") <=> e.type = "error"
<1>1. PICK p \in Places : p = PlaceAfter(received)
  <2>1. PICK n \in Nat : n = Len(received)
    BY DEF Events
  <2>2. QED BY <2>1, PlaceIsPlace
<1>2. /\ Kinded(e)
      /\ e.type = "content_block_delta" => e.kind \in {"text", "tool_use"}
  BY EventOfUpstream
<1>3. received' = Append(received, e) /\ C!Upstream!Allowed(p, e)
  BY <1>1, PositionsAgree DEF C!Upstream!Extend
<1>4. PlaceAfter(received') = Follow(p, e)
  BY <1>1, <1>2, <1>3, PlaceOfNext
<1>5. /\ p.phase \notin {"done", "failed"}
      /\ e.type = "message_stop" => Follow(p, e).phase = "done"
      /\ e.type = "error" => Follow(p, e).phase = "failed"
  BY <1>2, <1>3, UpstreamRuns
<1>6. ~C!Upstream!Has(received, "message_stop") /\ ~C!Upstream!Has(received, "error")
  BY <1>1, <1>5 DEF EndsStream
<1>7. /\ C!Upstream!Has(received', "message_stop") <=> e.type = "message_stop"
      /\ C!Upstream!Has(received', "error") <=> e.type = "error"
  BY <1>3, <1>6, HasNext
<1>8. EndsStream(received', PlaceAfter(received'))
  BY <1>4, <1>5, <1>7 DEF EndsStream
<1>9. QED BY <1>6, <1>7, <1>8

(* Where the stream to the client is.                                      *)
ChatEnd(stopped) ==
  /\ Opened(out, started) /\ EndedBy(out, IF stopped THEN "[DONE]" ELSE "error")
ChatInv ==
  /\ EndsStream(received, PlaceAfter(received))
  /\ finished <=> \/ body # "open"
                  \/ C!Upstream!Has(received, "message_stop")
                  \/ C!Upstream!Has(received, "error")
  /\ IF finished THEN ChatEnd(C!Upstream!Has(received, "message_stop")) ELSE OpenChat

LEMMA ChatInvInit == Init => ChatInv
<1> SUFFICES ASSUME Init PROVE ChatInv
  OBVIOUS
<1>1. /\ received = <<>> /\ body = "open" /\ finished = FALSE /\ started = FALSE
      /\ out = <<>> /\ toolIndex = <<>>
  BY DEF Init, C!Init
<1>2. ~C!Upstream!Has(received, "message_stop") /\ ~C!Upstream!Has(received, "error")
  BY <1>1 DEF C!Upstream!Has
<1>3. Chunked(out)
  <2>1. <<>> \in Seq({})
    OBVIOUS
  <2>2. QED BY <1>1, <2>1 DEF Chunked
<1>4. DOMAIN out = {} /\ DOMAIN toolIndex = {}
  BY <1>1
<1>5. OpenChat
  BY <1>1, <1>3, <1>4 DEF OpenChat, Begun, Clean, Opened
<1>6. QED BY <1>1, <1>2, <1>5 DEF ChatInv, EndsStream

LEMMA ChatInvReceives ==
  ASSUME Events(received), ChatInv, NEW e \in C!Upstream!Candidates, C!Receive(e)
  PROVE  ChatInv'
<1>1. /\ EndsStream(received, PlaceAfter(received)) /\ C!Upstream!Extend(e)
      /\ body = "open" /\ body' = body
  BY DEF ChatInv, C!Receive
<1>2. /\ ~C!Upstream!Has(received, "message_stop") /\ ~C!Upstream!Has(received, "error")
      /\ EndsStream(received', PlaceAfter(received'))
      /\ C!Upstream!Has(received', "message_stop") <=> e.type = "message_stop"
      /\ C!Upstream!Has(received', "error") <=> e.type = "error"
  BY <1>1, UpstreamGoesOn
<1>3. ~finished /\ OpenChat
  BY <1>1, <1>2 DEF ChatInv
<1>4. \/ C!StartMessage(e) \/ C!StartBlock(e) \/ C!SendText(e) \/ C!SendArguments(e)
      \/ C!StopBlock(e)
      \/ e.type = "message_delta" /\ UNCHANGED <<toolIndex, started, finished, out>>
      \/ e.type = "message_stop" /\ C!Finish
      \/ e.type = "error" /\ C!Fail
  BY <1>3, Zenon DEF C!Receive
<1>5. CASE \/ C!StartMessage(e) \/ C!StartBlock(e) \/ C!SendText(e) \/ C!SendArguments(e)
           \/ C!StopBlock(e)
  <2>1. OpenChat' /\ finished' = finished
    BY <1>3, <1>5, ChatGoesOn
  <2>2. e.type \notin {"message_stop", "error"}
    BY <1>5 DEF C!StartMessage, C!StartBlock, C!SendText, C!SendArguments, C!StopBlock
  <2>3. QED BY <1>1, <1>2, <1>3, <2>1, <2>2 DEF ChatInv
<1>6. CASE e.type = "message_delta" /\ UNCHANGED <<toolIndex, started, finished, out>>
  <2>1. OpenChat' /\ finished' = finished
    BY <1>3, <1>6 DEF OpenChat
  <2>2. QED BY <1>1, <1>2, <1>3, <1>6, <2>1 DEF ChatInv
<1>7. CASE e.type = "message_stop" /\ C!Finish
  <2>1. finished' = TRUE /\ Opened(out', started') /\ EndedBy(out', "[DONE]")
    BY <1>3, <1>7, ChatFinishes
  <2>2. QED BY <1>2, <1>7, <2>1 DEF ChatInv, ChatEnd
<1>8. CASE e.type = "error" /\ C!Fail
  <2>1. finished' = TRUE /\ Opened(out', started') /\ EndedBy(out', "error")
    BY <1>3, <1>8, ChatFails
  <2>2. QED BY <1>2, <1>8, <2>1 DEF ChatInv, ChatEnd
<1>9. QED BY <1>4, <1>5, <1>6, <1>7, <1>8

LEMMA ChatInvCloses ==
  ASSUME ChatInv, C!UpstreamEnds \/ C!UpstreamFails
  PROVE  ChatInv'
<1>1. received' = received /\ body = "open" /\ body' \in {"ended", "failed"} /\ C!Fail
  BY DEF C!UpstreamEnds, C!UpstreamFails, C!UpstreamCloses
<1>2. finished' = TRUE
  BY <1>1 DEF C!Fail
<1>3. CASE finished
  <2>1. out' = out /\ started' = started
    BY <1>1, <1>3 DEF C!Fail
  <2>2. QED BY <1>1, <1>2, <1>3, <2>1 DEF ChatInv, ChatEnd
<1>4. CASE ~finished
  <2>1. Opened(out', started') /\ EndedBy(out', "error")
    BY <1>1, <1>4, ChatFails DEF ChatInv
  <2>2. ~C!Upstream!Has(received', "message_stop")
    BY <1>1, <1>4 DEF ChatInv
  <2>3. QED BY <1>1, <1>2, <2>1, <2>2 DEF ChatInv, ChatEnd
<1>5. QED BY <1>3, <1>4

LEMMA ChatInvSays ==
  ASSUME ChatInv
  PROVE  C!DoneMeansComplete
<1>1. CASE finished
  <2>1. Opened(out, started)
        /\ EndedBy(out, IF C!Upstream!Has(received, "message_stop") THEN "[DONE]" ELSE "error")
    BY <1>1 DEF ChatInv, ChatEnd
  <2>2. QED BY <1>1, <2>1 DEF ChatInv, EndedBy, Opened, LastTypes, C!DoneMeansComplete
<1>2. CASE ~finished
  <2>1. Opened(out, started) /\ Clean(out)
    BY <1>2 DEF ChatInv, OpenChat, Begun
  <2>2. QED BY <1>2, <2>1 DEF ChatInv, Clean, Opened, LastTypes, C!DoneMeansComplete
<1>3. QED BY <1>1, <1>2

(* A Chat client can tell a whole answer from one that was cut off: [DONE] *)
(* if and only if the endpoint reached message_stop, an error chunk after  *)
(* any other end, either is the last chunk, and the role is the first.     *)
THEOREM DoneIsComplete == Spec => []DoneMeansComplete
<1> DEFINE IInv == path = "chat via messages" => ChatInv
<1>1. Init => IInv
  BY ChatInvInit
<1>2. TypeInv /\ IInv /\ [Next]_vars => IInv'
  <2> SUFFICES ASSUME TypeInv, IInv, [Next]_vars, path' = "chat via messages" PROVE ChatInv'
    OBVIOUS
  <2>1. CASE MessagesStep \/ ResponsesStep
    BY <2>1 DEF MessagesStep, ResponsesStep
  <2>2. CASE ChatStep
    <3>1. C!Next /\ ChatInv /\ Events(received)
      BY <2>2 DEF ChatStep, TypeInv
    <3>2. QED BY <3>1, ChatInvReceives, ChatInvCloses DEF C!Next
  <2>3. CASE UNCHANGED vars
    <3>1. /\ path' = path /\ received' = received /\ body' = body /\ started' = started
          /\ finished' = finished /\ out' = out /\ toolIndex' = toolIndex
      BY <2>3 DEF vars, toChat
    <3>2. ChatInv
      BY <3>1
    <3>3. QED BY <3>1, <3>2 DEF ChatInv, ChatEnd, OpenChat
  <2>4. QED BY <2>1, <2>2, <2>3 DEF Next
<1>3. IInv => DoneMeansComplete
  BY ChatInvSays DEF DoneMeansComplete
<1>4. Init => TypeInv
  BY TypeInvInit
<1>5. TypeInv /\ [Next]_vars => TypeInv'
  BY TypeInvStep
<1> HIDE DEF IInv
<1>6. QED BY <1>1, <1>2, <1>3, <1>4, <1>5, PTL DEF Spec

-----------------------------------------------------------------------------
(* AnthropicToResponses: the events of an item.                            *)
Is(ev, k, type, i) == k \in DOMAIN ev /\ ev[k].type = type /\ ev[k].index = i
OneAdded(ev, i) ==
  \E a : /\ Is(ev, a, "added", i)
         /\ \A k : Is(ev, k, "added", i) => k = a
         /\ \A d : Is(ev, d, "delta", i) => a < d
Unadded(ev, i) == \A k : ~Is(ev, k, "added", i) /\ ~Is(ev, k, "delta", i)
Undone(ev, i) == \A k : ~Is(ev, k, "done", i)
DoneOnce(ev, i, item) ==
  \E z : /\ Is(ev, z, "done", i) /\ ev[z].item = item
         /\ \A k : Is(ev, k, "done", i) => k = z
         /\ \A d : Is(ev, d, "added", i) \/ Is(ev, d, "delta", i) => d < z
OpenAt(ev, i) == OneAdded(ev, i) /\ Undone(ev, i)
ClosedAt(ev, i, item, silent) ==
  /\ IF silent THEN Unadded(ev, i) ELSE OneAdded(ev, i)
  /\ DoneOnce(ev, i, item)

LEMMA IsAppended ==
  ASSUME NEW ev, Chunked(ev), NEW x, NEW n, n = Len(ev)
  PROVE  /\ n \in Nat
         /\ \A k, type, i : Is(ev, k, type, i) => k \in 1 .. n
         /\ \A k, type, i :
              Is(Append(ev, x), k, type, i) <=>
                \/ Is(ev, k, type, i)
                \/ k = n + 1 /\ x.type = type /\ x.index = i
         /\ \A k \in 1 .. n : Append(ev, x)[k] = ev[k]
         /\ Append(ev, x)[n + 1] = x
<1>1. PICK t : t = Append(ev, x)
  OBVIOUS
<1>2. /\ n \in Nat /\ DOMAIN ev = 1 .. n /\ DOMAIN t = 1 .. (n + 1)
      /\ t[n + 1] = x /\ \A k \in 1 .. n : t[k] = ev[k]
  BY <1>1, ChunkAppended
<1>3. \A k : k \in DOMAIN t <=> k \in DOMAIN ev \/ k = n + 1
  BY <1>2
<1>4. n + 1 \notin DOMAIN ev
  BY <1>2
<1>5. \A k, type, i : Is(t, k, type, i) <=>
                        Is(ev, k, type, i) \/ (k = n + 1 /\ x.type = type /\ x.index = i)
  BY <1>2, <1>3, <1>4, Zenon DEF Is
<1>6. \A k, type, i : Is(ev, k, type, i) => k \in 1 .. n
  BY <1>2 DEF Is
<1>7. QED BY <1>1, <1>2, <1>5, <1>6

(* The events of another item change nothing.                              *)
LEMMA OthersKeep ==
  ASSUME NEW ev, Chunked(ev), NEW x, NEW i,
         x.type \notin {"added", "delta", "done"} \/ x.index # i
  PROVE  /\ OpenAt(ev, i) => OpenAt(Append(ev, x), i)
         /\ \A item, silent : ClosedAt(ev, i, item, silent) => ClosedAt(Append(ev, x), i, item, silent)
<1>1. PICK t : t = Append(ev, x)
  OBVIOUS
<1>2. PICK n : n = Len(ev)
  OBVIOUS
<1>3. /\ \A k, type : Is(ev, k, type, i) => k \in 1 .. n
      /\ \A k, type : Is(t, k, type, i) <=>
                         Is(ev, k, type, i) \/ (k = n + 1 /\ x.type = type /\ x.index = i)
      /\ \A k \in 1 .. n : t[k] = ev[k]
  BY <1>1, <1>2, IsAppended
<1>4. \A k, type : type \in {"added", "delta", "done"} => (Is(t, k, type, i) <=> Is(ev, k, type, i))
  BY <1>3, Zenon
<1>5. /\ \A k : Is(t, k, "added", i) <=> Is(ev, k, "added", i)
      /\ \A k : Is(t, k, "delta", i) <=> Is(ev, k, "delta", i)
      /\ \A k : Is(t, k, "done", i) <=> Is(ev, k, "done", i)
  BY <1>4, Zenon
<1>6. OneAdded(ev, i) => OneAdded(t, i)
  BY <1>5, Zenon DEF OneAdded
<1>7. (Undone(ev, i) => Undone(t, i)) /\ (Unadded(ev, i) => Unadded(t, i))
  BY <1>5, Zenon DEF Undone, Unadded
<1>8. \A k : Is(ev, k, "done", i) => t[k] = ev[k]
  BY <1>3, Zenon
<1>9. \A item : DoneOnce(ev, i, item) => DoneOnce(t, i, item)
  BY <1>5, <1>8, Zenon DEF DoneOnce
<1>10. QED BY <1>1, <1>6, <1>7, <1>9, Zenon DEF OpenAt, ClosedAt

LEMMA ItemOpens ==
  ASSUME NEW ev, Chunked(ev), NEW i, Unadded(ev, i), Undone(ev, i),
         NEW x, x.type = "added", x.index = i
  PROVE  OpenAt(Append(ev, x), i)
<1>1. PICK t : t = Append(ev, x)
  OBVIOUS
<1>2. PICK n : n = Len(ev)
  OBVIOUS
<1>3. \A k, type : Is(t, k, type, i) <=>
                     Is(ev, k, type, i) \/ (k = n + 1 /\ x.type = type /\ x.index = i)
  BY <1>1, <1>2, IsAppended
<1>4. /\ \A k : Is(t, k, "added", i) <=> k = n + 1
      /\ \A k : ~Is(t, k, "delta", i) /\ ~Is(t, k, "done", i)
  BY <1>3 DEF Unadded, Undone
<1>5. QED BY <1>1, <1>4, Zenon DEF OpenAt, OneAdded, Undone

LEMMA ItemGrows ==
  ASSUME NEW ev, Chunked(ev), NEW i, OpenAt(ev, i),
         NEW x, x.type = "delta", x.index = i
  PROVE  OpenAt(Append(ev, x), i)
<1>1. PICK t : t = Append(ev, x)
  OBVIOUS
<1>2. PICK n : n = Len(ev)
  OBVIOUS
<1>3. /\ n \in Nat
      /\ \A k, type : Is(ev, k, type, i) => k \in 1 .. n
      /\ \A k, type : Is(t, k, type, i) <=>
                        Is(ev, k, type, i) \/ (k = n + 1 /\ x.type = type /\ x.index = i)
  BY <1>1, <1>2, IsAppended
<1>4. /\ \A k : Is(t, k, "added", i) <=> Is(ev, k, "added", i)
      /\ \A k : Is(t, k, "done", i) <=> Is(ev, k, "done", i)
      /\ \A k : Is(t, k, "delta", i) <=> Is(ev, k, "delta", i) \/ k = n + 1
  BY <1>3
<1>5. PICK a : /\ Is(ev, a, "added", i)
               /\ \A k : Is(ev, k, "added", i) => k = a
               /\ \A d : Is(ev, d, "delta", i) => a < d
  BY DEF OpenAt, OneAdded
<1>6. a < n + 1
  <2>1. a \in 1 .. n
    BY <1>3, <1>5
  <2>2. QED BY <1>3, <2>1
<1>7. OneAdded(t, i)
  BY <1>4, <1>5, <1>6, Zenon DEF OneAdded
<1>8. Undone(t, i)
  BY <1>4, Zenon DEF OpenAt, Undone
<1>9. QED BY <1>1, <1>7, <1>8 DEF OpenAt

LEMMA ItemDone ==
  ASSUME NEW ev, Chunked(ev), NEW i, Undone(ev, i), NEW silent \in BOOLEAN,
         IF silent THEN Unadded(ev, i) ELSE OneAdded(ev, i),
         NEW x, x.type = "done", x.index = i
  PROVE  ClosedAt(Append(ev, x), i, x.item, silent)
<1>1. PICK t : t = Append(ev, x)
  OBVIOUS
<1>2. PICK n : n = Len(ev)
  OBVIOUS
<1>3. /\ n \in Nat
      /\ \A k, type : Is(ev, k, type, i) => k \in 1 .. n
      /\ \A k, type : Is(t, k, type, i) <=>
                        Is(ev, k, type, i) \/ (k = n + 1 /\ x.type = type /\ x.index = i)
      /\ t[n + 1] = x
  BY <1>1, <1>2, IsAppended
<1>4. /\ \A k : Is(t, k, "added", i) <=> Is(ev, k, "added", i)
      /\ \A k : Is(t, k, "delta", i) <=> Is(ev, k, "delta", i)
      /\ \A k : Is(t, k, "done", i) <=> k = n + 1
  BY <1>3 DEF Undone
<1>5. /\ OneAdded(ev, i) => OneAdded(t, i)
      /\ Unadded(ev, i) => Unadded(t, i)
  BY <1>4, Zenon DEF OneAdded, Unadded
<1>6. \A d : Is(ev, d, "added", i) \/ Is(ev, d, "delta", i) => d < n + 1
  <2>1. ASSUME NEW d, Is(ev, d, "added", i) \/ Is(ev, d, "delta", i) PROVE d < n + 1
    <3>1. d \in 1 .. n
      BY <1>3, <2>1, Zenon
    <3>2. QED BY <1>3, <3>1
  <2>2. QED BY <2>1
<1>7. t[n + 1].item = x.item
  BY <1>3
<1>8. DoneOnce(t, i, x.item)
  BY <1>4, <1>6, <1>7, Zenon DEF DoneOnce
<1>9. QED BY <1>1, <1>5, <1>8, Zenon DEF ClosedAt

(* The list of the items and their events, while the response is written   *)
(* and once it is completed.                                               *)
ItemEvents == {"added", "delta", "done"}
Within(ev, n) ==
  \A k \in DOMAIN ev : ev[k].type \in ItemEvents => ev[k].index \in 0 .. (n - 1)
Writes(ev, o, slot) ==
  /\ Chunked(ev) /\ Chunked(o) /\ SlotOK(o, slot) /\ Within(ev, Len(o))
  /\ \A k \in DOMAIN ev : ev[k].type # "completed"
  /\ \A i \in 0 .. (Len(o) - 1) :
       /\ o[i + 1].kind # "compaction"
       /\ IF i \in slot THEN OpenAt(ev, i) ELSE ClosedAt(ev, i, o[i + 1], FALSE)
Wrote(kd, ev, o) ==
  /\ Chunked(ev) /\ Chunked(o) /\ Within(ev, Len(o))
  /\ \A k \in DOMAIN ev : ev[k].type = "completed" => k = Len(ev) /\ ev[k].output = o
  /\ \A i \in 0 .. (Len(o) - 1) :
       ClosedAt(ev, i, o[i + 1], kd = "compaction" /\ o[i + 1].kind = kd)

LEMMA NothingThere ==
  ASSUME NEW ev, NEW o, Chunked(ev), Chunked(o), Within(ev, Len(o))
  PROVE  Unadded(ev, Len(o)) /\ Undone(ev, Len(o))
<1>1. Len(o) \in Nat
  BY ChunkAppended
<1>2. PICK n \in Nat : n = Len(o)
  BY <1>1
<1>3. n \notin 0 .. (n - 1)
  OBVIOUS
<1>4. QED BY <1>2, <1>3, Zenon DEF Within, Unadded, Undone, Is, ItemEvents

LEMMA WithinNext ==
  ASSUME NEW ev, Chunked(ev), NEW n \in Nat, Within(ev, n), NEW m \in Nat, n <= m, NEW x,
         x.type \in ItemEvents => x.index \in 0 .. (m - 1)
  PROVE  Within(Append(ev, x), m)
<1>1. PICK t : t = Append(ev, x)
  OBVIOUS
<1>2. /\ DOMAIN ev = 1 .. Len(ev) /\ DOMAIN t = 1 .. (Len(ev) + 1) /\ Len(ev) \in Nat
      /\ t[Len(ev) + 1] = x /\ \A k \in 1 .. Len(ev) : t[k] = ev[k]
  BY <1>1, ChunkAppended
<1>3. \A k \in DOMAIN t : k \in DOMAIN ev \/ k = Len(ev) + 1
  BY <1>2
<1>4. \A j \in 0 .. (n - 1) : j \in 0 .. (m - 1)
  OBVIOUS
<1>5. \A k \in DOMAIN t : t[k].type \in ItemEvents => t[k].index \in 0 .. (m - 1)
  BY <1>2, <1>3, <1>4, Zenon DEF Within
<1>6. QED BY <1>1, <1>5 DEF Within

LEMMA NotCompletedNext ==
  ASSUME NEW ev, Chunked(ev), NEW x, \A k \in DOMAIN ev : ev[k].type # "completed"
  PROVE  /\ x.type # "completed" => \A k \in DOMAIN Append(ev, x) : Append(ev, x)[k].type # "completed"
         /\ \A k \in DOMAIN Append(ev, x) :
              Append(ev, x)[k].type = "completed" =>
                k = Len(Append(ev, x)) /\ Append(ev, x)[k] = x
<1>1. PICK t : t = Append(ev, x)
  OBVIOUS
<1>2. /\ DOMAIN ev = 1 .. Len(ev) /\ DOMAIN t = 1 .. (Len(ev) + 1) /\ Len(ev) \in Nat
      /\ t[Len(ev) + 1] = x /\ \A k \in 1 .. Len(ev) : t[k] = ev[k]
      /\ Len(t) = Len(ev) + 1
  BY <1>1, ChunkAppended
<1>3. \A k \in DOMAIN t : k \in DOMAIN ev \/ k = Len(ev) + 1
  BY <1>2
<1>4. \A k \in DOMAIN t : k \in DOMAIN ev => t[k].type # "completed"
  BY <1>2
<1>5. QED BY <1>1, <1>2, <1>3, <1>4, Zenon

(* A delta of the text, the first of which reserves the slot.              *)
LEMMA DeltaWrites ==
  ASSUME NEW ev, NEW o, NEW slot, Writes(ev, o, slot), NEW i, slot = {i},
         NEW x, x.type = "delta", x.index = i
  PROVE  Writes(Append(ev, x), o, slot)
<1>1. /\ Chunked(ev) /\ Chunked(o) /\ SlotOK(o, slot) /\ Within(ev, Len(o))
      /\ \A k \in DOMAIN ev : ev[k].type # "completed"
      /\ \A j \in 0 .. (Len(o) - 1) :
           /\ o[j + 1].kind # "compaction"
           /\ IF j \in slot THEN OpenAt(ev, j) ELSE ClosedAt(ev, j, o[j + 1], FALSE)
  BY DEF Writes
<1>2. Len(o) \in Nat /\ i \in 0 .. (Len(o) - 1)
  BY <1>1, ChunkAppended DEF SlotOK
<1>3. x.type # "completed" /\ x.type \in ItemEvents
  BY DEF ItemEvents
<1>4. PICK t : t = Append(ev, x) /\ Chunked(t)
  BY <1>1, ChunkAppended
<1>5. Within(t, Len(o))
  BY <1>1, <1>2, <1>4, WithinNext
<1>6. \A k \in DOMAIN t : t[k].type # "completed"
  BY <1>1, <1>3, <1>4, NotCompletedNext
<1>7. ASSUME NEW j \in 0 .. (Len(o) - 1)
      PROVE  IF j \in slot THEN OpenAt(t, j) ELSE ClosedAt(t, j, o[j + 1], FALSE)
  <2>1. CASE j = i
    <3>1. OpenAt(ev, i)
      BY <1>1, <2>1
    <3>2. OpenAt(t, i)
      BY <1>1, <1>4, <3>1, ItemGrows
    <3>3. QED BY <2>1, <3>2
  <2>2. CASE j # i
    <3>1. ClosedAt(ev, j, o[j + 1], FALSE)
      BY <1>1, <2>2
    <3>2. ClosedAt(t, j, o[j + 1], FALSE)
      BY <1>1, <1>4, <2>2, <3>1, OthersKeep
    <3>3. QED BY <2>2, <3>2
  <2>3. QED BY <2>1, <2>2
<1>8. QED BY <1>1, <1>4, <1>5, <1>6, <1>7 DEF Writes

(* A new place, announced: open for the text, and on its way for a tool.   *)
Announced(t, p, n, slot, item) ==
  /\ Chunked(t) /\ Chunked(p) /\ n \in Nat /\ Len(p) = n + 1 /\ Within(t, n + 1)
  /\ \A k \in DOMAIN t : t[k].type # "completed"
  /\ \A i \in 0 .. n : p[i + 1].kind # "compaction"
  /\ \A i \in 0 .. (n - 1) :
       IF i \in slot THEN OpenAt(t, i) ELSE ClosedAt(t, i, p[i + 1], FALSE)
  /\ OpenAt(t, n) /\ p[n + 1] = item

LEMMA PlaceAdded ==
  ASSUME NEW ev, NEW o, NEW slot, Writes(ev, o, slot),
         NEW item, item.kind # "compaction",
         NEW x, x.type = "added", x.index = Len(o)
  PROVE  Announced(Append(ev, x), Append(o, item), Len(o), slot, item)
<1>1. /\ Chunked(ev) /\ Chunked(o) /\ SlotOK(o, slot) /\ Within(ev, Len(o))
      /\ \A k \in DOMAIN ev : ev[k].type # "completed"
      /\ \A j \in 0 .. (Len(o) - 1) :
           /\ o[j + 1].kind # "compaction"
           /\ IF j \in slot THEN OpenAt(ev, j) ELSE ClosedAt(ev, j, o[j + 1], FALSE)
  BY DEF Writes
<1>2. PICK t : t = Append(ev, x) /\ Chunked(t)
  BY <1>1, ChunkAppended
<1>3. PICK p : p = Append(o, item) /\ Chunked(p)
  BY <1>1, ChunkAppended
<1>4. /\ Len(o) \in Nat /\ Len(p) = Len(o) + 1
      /\ p[Len(o) + 1] = item /\ \A k \in 1 .. Len(o) : p[k] = o[k]
  BY <1>1, <1>3, ChunkAppended
<1>5. PICK n \in Nat : n = Len(o)
  BY <1>4
<1>6. Within(t, n + 1)
  <2>1. n <= n + 1 /\ n \in 0 .. ((n + 1) - 1) /\ n + 1 \in Nat
    BY <1>5
  <2>2. QED BY <1>1, <1>2, <1>5, <2>1, WithinNext
<1>7. \A k \in DOMAIN t : t[k].type # "completed"
  <2>1. x.type # "completed"
    OBVIOUS
  <2>2. QED BY <1>1, <1>2, <2>1, NotCompletedNext
<1>8. OpenAt(t, n)
  <2>1. Unadded(ev, n) /\ Undone(ev, n)
    BY <1>1, <1>5, NothingThere
  <2>2. QED BY <1>1, <1>2, <1>5, <2>1, ItemOpens
<1>9. ASSUME NEW i \in 0 .. (n - 1)
      PROVE  /\ p[i + 1].kind # "compaction"
             /\ IF i \in slot THEN OpenAt(t, i) ELSE ClosedAt(t, i, p[i + 1], FALSE)
  <2>1. i # n /\ i + 1 \in 1 .. n
    BY <1>5
  <2>2. p[i + 1] = o[i + 1]
    BY <1>4, <1>5, <2>1
  <2>3. /\ o[i + 1].kind # "compaction"
        /\ IF i \in slot THEN OpenAt(ev, i) ELSE ClosedAt(ev, i, o[i + 1], FALSE)
    BY <1>1, <1>5
  <2>4. /\ OpenAt(ev, i) => OpenAt(t, i)
        /\ ClosedAt(ev, i, o[i + 1], FALSE) => ClosedAt(t, i, o[i + 1], FALSE)
    BY <1>1, <1>2, <1>5, <2>1, OthersKeep
  <2>5. QED BY <2>2, <2>3, <2>4
<1>10. \A i \in 0 .. n : p[i + 1].kind # "compaction"
  <2>1. \A i \in 0 .. n : i \in 0 .. (n - 1) \/ i = n
    BY <1>5
  <2>2. p[n + 1].kind # "compaction"
    BY <1>4, <1>5
  <2>3. QED BY <1>9, <2>1, <2>2
<1>11. Announced(t, p, n, slot, item)
  BY <1>2, <1>3, <1>4, <1>5, <1>6, <1>7, <1>8, <1>9, <1>10 DEF Announced
<1>12. QED BY <1>2, <1>3, <1>5, <1>11

LEMMA TextStarts ==
  ASSUME NEW ev, NEW o, Writes(ev, o, {}), NEW item, item.kind # "compaction",
         NEW x, x.type = "added", x.index = Len(o),
         NEW y, y.type = "delta", y.index = Len(o)
  PROVE  Writes(Append(Append(ev, x), y), Append(o, item), {Len(o)})
<1>1. PICK t : t = Append(ev, x)
  OBVIOUS
<1>2. PICK p : p = Append(o, item)
  OBVIOUS
<1>3. PICK n : n = Len(o)
  OBVIOUS
<1>4. /\ Chunked(t) /\ Chunked(p) /\ n \in Nat /\ Len(p) = n + 1 /\ Within(t, n + 1)
      /\ \A k \in DOMAIN t : t[k].type # "completed"
      /\ \A i \in 0 .. n : p[i + 1].kind # "compaction"
      /\ \A i \in 0 .. (n - 1) : ClosedAt(t, i, p[i + 1], FALSE)
      /\ OpenAt(t, n)
  <2>1. Announced(t, p, n, {}, item)
    BY <1>1, <1>2, <1>3, PlaceAdded
  <2>2. QED BY <2>1 DEF Announced
<1>5. SlotOK(p, {n})
  BY <1>4 DEF SlotOK
<1>6. (n + 1) - 1 = n /\ \A i \in 0 .. n : i \in {n} \/ (i \notin {n} /\ i \in 0 .. (n - 1))
  BY <1>4
<1>7. Writes(t, p, {n})
  BY <1>4, <1>5, <1>6 DEF Writes
<1>8. Writes(Append(t, y), p, {n})
  BY <1>3, <1>7, DeltaWrites
<1>9. QED BY <1>1, <1>2, <1>3, <1>8

LEMMA ToolCloses ==
  ASSUME NEW ev, NEW o, NEW slot, Writes(ev, o, slot), NEW item, item.kind # "compaction",
         NEW x, x.type = "added", x.index = Len(o),
         NEW y, y.type = "done", y.index = Len(o), y.item = item
  PROVE  Writes(Append(Append(ev, x), y), Append(o, item), slot)
<1>1. PICK t : t = Append(ev, x)
  OBVIOUS
<1>2. PICK p : p = Append(o, item)
  OBVIOUS
<1>3. PICK n : n = Len(o)
  OBVIOUS
<1>4. /\ Chunked(t) /\ Chunked(p) /\ n \in Nat /\ Len(p) = n + 1 /\ Within(t, n + 1)
      /\ \A k \in DOMAIN t : t[k].type # "completed"
      /\ \A i \in 0 .. n : p[i + 1].kind # "compaction"
      /\ \A i \in 0 .. (n - 1) :
           IF i \in slot THEN OpenAt(t, i) ELSE ClosedAt(t, i, p[i + 1], FALSE)
      /\ OpenAt(t, n) /\ p[n + 1] = item
  <2>1. Announced(t, p, n, slot, item)
    BY <1>1, <1>2, <1>3, PlaceAdded
  <2>2. QED BY <2>1 DEF Announced
<1>5. SlotOK(p, slot) /\ n \notin slot
  <2>1. SlotOK(o, slot)
    BY DEF Writes
  <2>2. \A i \in 0 .. (n - 1) : i \in 0 .. ((n + 1) - 1) /\ i # n
    BY <1>4
  <2>3. QED BY <1>3, <1>4, <2>1, <2>2 DEF SlotOK
<1>6. PICK u : u = Append(t, y) /\ Chunked(u)
  BY <1>4, ChunkAppended
<1>7. y.type # "completed" /\ y.type \in ItemEvents
  BY DEF ItemEvents
<1>8. Within(u, n + 1)
  <2>1. n + 1 \in Nat /\ n + 1 <= n + 1 /\ n \in 0 .. ((n + 1) - 1)
    BY <1>4
  <2>2. QED BY <1>3, <1>4, <1>6, <2>1, WithinNext
<1>9. \A k \in DOMAIN u : u[k].type # "completed"
  BY <1>4, <1>6, <1>7, NotCompletedNext
<1>10. ClosedAt(u, n, p[n + 1], FALSE)
  <2>1. Undone(t, n) /\ OneAdded(t, n)
    BY <1>4 DEF OpenAt
  <2>2. ClosedAt(Append(t, y), n, y.item, FALSE)
    BY <1>3, <1>4, <2>1, ItemDone
  <2>3. QED BY <1>4, <1>6, <2>2
<1>11. ASSUME NEW i \in 0 .. (n - 1)
       PROVE  IF i \in slot THEN OpenAt(u, i) ELSE ClosedAt(u, i, p[i + 1], FALSE)
  <2>1. y.index # i
    BY <1>3, <1>4
  <2>2. /\ OpenAt(t, i) => OpenAt(u, i)
        /\ ClosedAt(t, i, p[i + 1], FALSE) => ClosedAt(u, i, p[i + 1], FALSE)
    BY <1>4, <1>6, <2>1, OthersKeep
  <2>3. QED BY <1>4, <2>2
<1>12. (n + 1) - 1 = n /\ \A i \in 0 .. n : i = n \/ i \in 0 .. (n - 1)
  BY <1>4
<1>13. Writes(u, p, slot)
  BY <1>4, <1>5, <1>6, <1>8, <1>9, <1>10, <1>11, <1>12 DEF Writes
<1>14. QED BY <1>1, <1>2, <1>6, <1>13

(* The end: the text takes its slot, and the list is sent.                 *)
LEMMA ListSent ==
  ASSUME NEW kd, NEW ev, NEW o, Chunked(ev), Chunked(o), Within(ev, Len(o)),
         \A k \in DOMAIN ev : ev[k].type # "completed",
         \A i \in 0 .. (Len(o) - 1) :
           ClosedAt(ev, i, o[i + 1], kd = "compaction" /\ o[i + 1].kind = kd),
         NEW x, x.type = "completed", x.output = o
  PROVE  Wrote(kd, Append(ev, x), o)
<1>1. PICK t : t = Append(ev, x) /\ Chunked(t)
  BY ChunkAppended
<1>2. Len(o) \in Nat /\ Len(o) <= Len(o) /\ x.type \notin ItemEvents
  BY ChunkAppended DEF ItemEvents
<1>3. Within(t, Len(o))
  BY <1>1, <1>2, WithinNext
<1>4. \A k \in DOMAIN t : t[k].type = "completed" => k = Len(t) /\ t[k].output = o
  <2>1. \A k \in DOMAIN t : t[k].type = "completed" => k = Len(t) /\ t[k] = x
    BY <1>1, NotCompletedNext
  <2>2. QED BY <2>1
<1>5. ASSUME NEW i \in 0 .. (Len(o) - 1)
      PROVE  ClosedAt(t, i, o[i + 1], kd = "compaction" /\ o[i + 1].kind = kd)
  <2>1. x.type \notin {"added", "delta", "done"}
    BY <1>2 DEF ItemEvents
  <2>2. \A item, silent : ClosedAt(ev, i, item, silent) => ClosedAt(t, i, item, silent)
    BY <1>1, <2>1, OthersKeep
  <2>3. QED BY <2>2
<1>6. QED BY <1>1, <1>3, <1>4, <1>5 DEF Wrote

LEMMA NoTextEnds ==
  ASSUME NEW kd, NEW ev, NEW o, Writes(ev, o, {}),
         NEW x, x.type = "completed", x.output = o
  PROVE  Wrote(kd, Append(ev, x), o)
<1>1. /\ Chunked(ev) /\ Chunked(o) /\ Within(ev, Len(o))
      /\ \A k \in DOMAIN ev : ev[k].type # "completed"
  BY DEF Writes
<1>2. ASSUME NEW i \in 0 .. (Len(o) - 1)
      PROVE  ClosedAt(ev, i, o[i + 1], kd = "compaction" /\ o[i + 1].kind = kd)
  <2>1. o[i + 1].kind # "compaction" /\ ClosedAt(ev, i, o[i + 1], FALSE)
    BY DEF Writes
  <2>2. (kd = "compaction" /\ o[i + 1].kind = kd) = FALSE
    BY <2>1
  <2>3. QED BY <2>1, <2>2
<1>3. QED BY <1>1, <1>2, ListSent

LEMMA TextTakesSlot ==
  ASSUME NEW ev, NEW o, NEW slot, Writes(ev, o, slot), NEW i, slot = {i},
         NEW item, NEW x, x.type = "done", x.index = i, x.item = item,
         NEW p, p = [o EXCEPT ![i + 1] = item],
         NEW y, y.type = "completed", y.output = p
  PROVE  Wrote("message", Append(Append(ev, x), y), p)
<1>1. /\ Chunked(ev) /\ Chunked(o) /\ SlotOK(o, slot) /\ Within(ev, Len(o))
      /\ \A k \in DOMAIN ev : ev[k].type # "completed"
      /\ \A j \in 0 .. (Len(o) - 1) :
           IF j \in slot THEN OpenAt(ev, j) ELSE ClosedAt(ev, j, o[j + 1], FALSE)
  BY DEF Writes
<1>2. PICK n \in Nat : n = Len(o)
  BY <1>1, ChunkAppended
<1>3. i \in 0 .. (n - 1)
  BY <1>1, <1>2 DEF SlotOK
<1>4. /\ Chunked(p) /\ Len(p) = n /\ p[i + 1] = item
      /\ \A k \in 1 .. n : k # i + 1 => p[k] = o[k]
  <2>1. PICK S : o \in Seq(S)
    BY <1>1 DEF Chunked
  <2>2. PICK m \in 1 .. Len(o) : m = i + 1
    BY <1>2, <1>3
  <2>3. p = [o EXCEPT ![m] = item]
    BY <2>2
  <2>4. PICK H : o \in Seq(H) /\ item \in H
    <3>1. o \in Seq(S \cup {item}) /\ item \in S \cup {item}
      BY <2>1
    <3>2. QED BY <3>1
  <2>9. [o EXCEPT ![m] = item] \in Seq(H) /\ Len([o EXCEPT ![m] = item]) = Len(o)
    BY <2>4
  <2>6. p \in Seq(H) /\ Len(p) = n
    BY <1>2, <2>3, <2>9
  <2>7. DOMAIN o = 1 .. n
    BY <1>2, <2>4
  <2>8. p[m] = item /\ \A k \in 1 .. n : k # m => p[k] = o[k]
    BY <1>2, <2>3, <2>7
  <2>5. QED BY <2>2, <2>6, <2>8 DEF Chunked
<1>5. PICK t : t = Append(ev, x) /\ Chunked(t)
  BY <1>1, ChunkAppended
<1>6. x.type # "completed"
  OBVIOUS
<1>7. Within(t, n)
  <2>1. n <= n
    BY <1>2
  <2>2. QED BY <1>1, <1>2, <1>3, <1>5, <2>1, WithinNext
<1>8. \A k \in DOMAIN t : t[k].type # "completed"
  BY <1>1, <1>5, <1>6, NotCompletedNext
<1>9. ASSUME NEW j \in 0 .. (n - 1)
      PROVE  ClosedAt(t, j, p[j + 1], FALSE)
  <2>1. CASE j = i
    <3>1. Undone(ev, i) /\ OneAdded(ev, i)
      BY <1>1, <1>2, <1>3 DEF OpenAt
    <3>2. ClosedAt(Append(ev, x), i, x.item, FALSE)
      BY <1>1, <3>1, ItemDone
    <3>3. QED BY <1>4, <1>5, <2>1, <3>2
  <2>2. CASE j # i
    <3>1. j + 1 \in 1 .. n /\ j + 1 # i + 1
      BY <1>3, <2>2
    <3>2. p[j + 1] = o[j + 1]
      BY <1>4, <3>1
    <3>3. ClosedAt(ev, j, o[j + 1], FALSE)
      BY <1>1, <1>2, <2>2
    <3>4. ClosedAt(t, j, o[j + 1], FALSE)
      BY <1>1, <1>5, <2>2, <3>3, OthersKeep
    <3>5. QED BY <3>2, <3>4
  <2>3. QED BY <2>1, <2>2
<1>10. \A j \in 0 .. (Len(p) - 1) :
         ClosedAt(t, j, p[j + 1], "message" = "compaction" /\ p[j + 1].kind = "message")
  <2>1. \A j : ("message" = "compaction" /\ p[j + 1].kind = "message") = FALSE
    OBVIOUS
  <2>2. QED BY <1>4, <1>9, <2>1
<1>11. Wrote("message", Append(t, y), p)
  <2>1. Within(t, Len(p)) /\ Chunked(p)
    BY <1>4, <1>7
  <2>2. QED BY <1>5, <1>8, <1>10, <2>1, ListSent
<1>12. QED BY <1>5, <1>11

LEMMA CompactionEnds ==
  ASSUME NEW ev, NEW o, Writes(ev, o, {}),
         NEW item, item.kind = "compaction",
         NEW x, x.type = "done", x.index = Len(o), x.item = item,
         NEW p, p = Append(o, item),
         NEW y, y.type = "completed", y.output = p
  PROVE  Wrote("compaction", Append(Append(ev, x), y), p)
<1>1. /\ Chunked(ev) /\ Chunked(o) /\ Within(ev, Len(o))
      /\ \A k \in DOMAIN ev : ev[k].type # "completed"
      /\ \A j \in 0 .. (Len(o) - 1) :
           o[j + 1].kind # "compaction" /\ ClosedAt(ev, j, o[j + 1], FALSE)
  BY DEF Writes
<1>2. PICK n \in Nat : n = Len(o)
  BY <1>1, ChunkAppended
<1>3. Chunked(p) /\ Len(p) = n + 1 /\ p[n + 1] = item /\ \A k \in 1 .. n : p[k] = o[k]
  BY <1>1, <1>2, ChunkAppended
<1>4. PICK t : t = Append(ev, x) /\ Chunked(t)
  BY <1>1, ChunkAppended
<1>5. x.type # "completed"
  OBVIOUS
<1>6. Within(t, n + 1)
  <2>1. n + 1 \in Nat /\ n <= n + 1 /\ n \in 0 .. ((n + 1) - 1)
    BY <1>2
  <2>2. QED BY <1>1, <1>2, <1>4, <2>1, WithinNext
<1>7. \A k \in DOMAIN t : t[k].type # "completed"
  BY <1>1, <1>4, <1>5, NotCompletedNext
<1>8. ClosedAt(t, n, p[n + 1], TRUE) /\ p[n + 1].kind = "compaction"
  <2>1. Unadded(ev, n) /\ Undone(ev, n)
    BY <1>1, <1>2, NothingThere
  <2>2. ClosedAt(Append(ev, x), n, x.item, TRUE)
    BY <1>1, <1>2, <2>1, ItemDone
  <2>3. QED BY <1>3, <1>4, <2>2
<1>9. ASSUME NEW j \in 0 .. (n - 1)
      PROVE  ClosedAt(t, j, p[j + 1], FALSE) /\ p[j + 1].kind # "compaction"
  <2>1. j + 1 \in 1 .. n /\ j # n
    OBVIOUS
  <2>2. p[j + 1] = o[j + 1] /\ o[j + 1].kind # "compaction" /\ ClosedAt(ev, j, o[j + 1], FALSE)
    BY <1>1, <1>2, <1>3, <2>1
  <2>3. x.index # j
    BY <1>2, <2>1
  <2>4. ClosedAt(t, j, o[j + 1], FALSE)
    BY <1>1, <1>4, <2>2, <2>3, OthersKeep
  <2>5. QED BY <2>2, <2>4
<1>10. ASSUME NEW j \in 0 .. n
       PROVE  ClosedAt(t, j, p[j + 1], "compaction" = "compaction" /\ p[j + 1].kind = "compaction")
  <2>1. CASE j = n
    <3>1. ("compaction" = "compaction" /\ p[n + 1].kind = "compaction") = TRUE
      BY <1>8
    <3>2. QED BY <1>8, <2>1, <3>1
  <2>2. CASE j # n
    <3>1. j \in 0 .. (n - 1)
      BY <2>2
    <3>2. ("compaction" = "compaction" /\ p[j + 1].kind = "compaction") = FALSE
      BY <1>9, <3>1
    <3>3. QED BY <1>9, <3>1, <3>2
  <2>3. QED BY <2>1, <2>2
<1>11. Wrote("compaction", Append(t, y), p)
  <2>1. (n + 1) - 1 = n
    BY <1>2
  <2>2. Within(t, Len(p)) /\ Chunked(p) /\ Len(p) - 1 = n
    BY <1>3, <1>6, <2>1
  <2>3. QED BY <1>4, <1>7, <1>10, <2>2, ListSent
<1>12. QED BY <1>4, <1>11

(* A response's invariant.  The upstream says nothing after message_stop.  *)
ResponseInv ==
  /\ kind \in {"message", "compaction"}
  /\ Chunked(text)
  /\ kind = "compaction" => textSlot = {}
  /\ kind = "message" => (text = <<>> <=> textSlot = {})
  /\ completed /\ body = "open" => PlaceAfter(received).phase = "done"
  /\ IF completed THEN Wrote(kind, events, output) ELSE Writes(events, output, textSlot)

LEMMA ResponseInit == Init => ResponseInv
<1> SUFFICES ASSUME Init PROVE ResponseInv
  OBVIOUS
<1>1. PICK x : x = [type |-> "created"]
  OBVIOUS
<1>2. /\ kind \in {"message", "compaction"} /\ text = <<>> /\ textSlot = {}
      /\ completed = FALSE /\ output = <<>> /\ events = <<x>>
  BY <1>1 DEF Init, R!Init, R!Kinds
<1>3. Chunked(<<>>) /\ Len(<<>>) = 0
  <2>1. <<>> \in Seq({}) /\ Len(<<>>) = 0
    OBVIOUS
  <2>2. QED BY <2>1 DEF Chunked
<1>4. Chunked(<<x>>) /\ DOMAIN <<x>> = {1} /\ <<x>>[1] = x
  <2>1. <<x>> \in Seq({x}) /\ DOMAIN <<x>> = {1} /\ <<x>>[1] = x
    OBVIOUS
  <2>2. QED BY <2>1 DEF Chunked
<1>5. x.type \notin ItemEvents \cup {"completed"}
  BY <1>1 DEF ItemEvents
<1>6. Within(<<x>>, 0) /\ \A k \in DOMAIN <<x>> : <<x>>[k].type # "completed"
  BY <1>4, <1>5 DEF Within
<1>7. 0 .. (0 - 1) = {}
  OBVIOUS
<1>8. Writes(<<x>>, <<>>, {})
  BY <1>3, <1>4, <1>6, <1>7 DEF Writes, SlotOK
<1>9. Writes(events, output, textSlot)
  BY <1>2, <1>8
<1>10. QED BY <1>2, <1>3, <1>9 DEF ResponseInv

LEMMA TwoTogether ==
  ASSUME NEW o, Chunked(o), NEW a, NEW b
  PROVE  o \o <<a, b>> = Append(Append(o, a), b)
<1>1. PICK S : o \in Seq(S)
  BY DEF Chunked
<1>2. QED BY <1>1

(* AddText and CloseTool.                                                  *)
LEMMA TextAdds ==
  ASSUME ResponseInv, ~completed, NEW parts, NEW j, parts = <<j>>,
         text' = text \o parts, R!StartTextItem(parts),
         UNCHANGED <<kind, completed>>
  PROVE  /\ Chunked(text') /\ Writes(events', output', textSlot')
         /\ kind = "compaction" => textSlot' = {}
         /\ kind = "message" => (text' = <<>> <=> textSlot' = {})
<1>0. /\ kind \in {"message", "compaction"} /\ Chunked(text)
      /\ Writes(events, output, textSlot)
      /\ kind = "compaction" => textSlot = {}
  BY DEF ResponseInv
<1>1. Chunked(text') /\ text' # <<>>
  <2>1. text' = Append(text, j)
    BY <1>0, ChunksTogether
  <2>2. /\ Chunked(Append(text, j)) /\ Len(Append(text, j)) = Len(text) + 1
        /\ Len(text) \in Nat
    BY <1>0, ChunkAppended
  <2>3. Len(Append(text, j)) # 0
    BY <2>2
  <2>4. Len(<<>>) = 0
    OBVIOUS
  <2>5. QED BY <2>1, <2>2, <2>3, <2>4
<1>2. CASE kind = "compaction"
  <2>1. events' = events /\ output' = output /\ textSlot' = textSlot
    BY <1>2 DEF R!StartTextItem
  <2>2. QED BY <1>0, <1>1, <1>2, <2>1
<1>3. CASE kind # "compaction" /\ textSlot = {}
  <2>1. PICK n : n = Len(output)
    OBVIOUS
  <2>2. PICK x : x = R!Added(n, R!Item(kind, <<>>)) /\ x.type = "added" /\ x.index = n
    <3>1. R!Added(n, R!Item(kind, <<>>)).type = "added" /\ R!Added(n, R!Item(kind, <<>>)).index = n
      BY DEF R!Added
    <3>2. QED BY <3>1
  <2>3. PICK y : y = R!TextDelta(n, parts) /\ y.type = "delta" /\ y.index = n
    <3>1. R!TextDelta(n, parts).type = "delta" /\ R!TextDelta(n, parts).index = n
      BY DEF R!TextDelta
    <3>2. QED BY <3>1
  <2>4. PICK item : item = R!Reserved /\ item.kind # "compaction"
    <3>1. R!Reserved.kind # "compaction"
      BY DEF R!Reserved, R!Item
    <3>2. QED BY <3>1
  <2>5. output' = Append(output, item) /\ textSlot' = {n} /\ events' = (events \o <<x>>) \o <<y>>
    BY <1>3, <2>1, <2>2, <2>3, <2>4 DEF R!StartTextItem
  <2>6. events' = Append(Append(events, x), y)
    <3>1. Chunked(events) /\ Chunked(Append(events, x))
      BY <1>0, ChunkAppended DEF Writes
    <3>2. events \o <<x>> = Append(events, x)
      BY <3>1, ChunksTogether
    <3>3. Append(events, x) \o <<y>> = Append(Append(events, x), y)
      BY <3>1, ChunksTogether
    <3>4. QED BY <2>5, <3>2, <3>3
  <2>7. Writes(Append(Append(events, x), y), Append(output, item), {n})
    <3>1. Writes(events, output, {})
      BY <1>0, <1>3
    <3>2. QED BY <2>1, <2>2, <2>3, <2>4, <3>1, TextStarts
  <2>8. QED BY <1>0, <1>1, <1>3, <2>5, <2>6, <2>7
<1>4. CASE kind # "compaction" /\ textSlot # {}
  <2>1. PICK i : textSlot = {i}
    BY <1>0, <1>4 DEF Writes, SlotOK
  <2>2. (CHOOSE k \in textSlot : TRUE) = i
    BY <2>1
  <2>3. PICK y : y = R!TextDelta(i, parts) /\ y.type = "delta" /\ y.index = i
    <3>1. R!TextDelta(i, parts).type = "delta" /\ R!TextDelta(i, parts).index = i
      BY DEF R!TextDelta
    <3>2. QED BY <3>1
  <2>4. output' = output /\ textSlot' = {i} /\ events' = (events \o <<>>) \o <<y>>
    BY <1>4, <2>2, <2>3 DEF R!StartTextItem
  <2>5. events' = Append(events, y)
    <3>1. Chunked(events)
      BY <1>0 DEF Writes
    <3>2. events \o <<>> = events /\ events \o <<y>> = Append(events, y)
      BY <3>1, ChunksTogether
    <3>3. QED BY <2>4, <3>2
  <2>6. Writes(Append(events, y), output, textSlot)
    BY <1>0, <2>1, <2>3, DeltaWrites
  <2>7. QED BY <1>0, <1>1, <1>4, <2>1, <2>4, <2>5, <2>6
<1>5. QED BY <1>2, <1>3, <1>4

LEMMA ToolAdds ==
  ASSUME Writes(events, output, textSlot), NEW e, R!CloseTool(e)
  PROVE  Writes(events', output', textSlot') /\ text' = text /\ textSlot' = textSlot
<1>1. PICK item : item = R!Item("function_call", toolBlocks[e.index]) /\ item.kind # "compaction"
  <2>1. R!Item("function_call", toolBlocks[e.index]).kind # "compaction"
    BY DEF R!Item
  <2>2. QED BY <2>1
<1>2. PICK n : n = Len(output)
  OBVIOUS
<1>3. PICK x : x = R!Added(n, item) /\ x.type = "added" /\ x.index = n
  <2>1. R!Added(n, item).type = "added" /\ R!Added(n, item).index = n
    BY DEF R!Added
  <2>2. QED BY <2>1
<1>4. PICK y : y = R!Done(n, item) /\ y.type = "done" /\ y.index = n /\ y.item = item
  <2>1. R!Done(n, item).type = "done" /\ R!Done(n, item).index = n /\ R!Done(n, item).item = item
    BY DEF R!Done
  <2>2. QED BY <2>1
<1>5. /\ output' = Append(output, item) /\ events' = events \o <<x, y>>
      /\ text' = text /\ textSlot' = textSlot
  BY <1>1, <1>2, <1>3, <1>4 DEF R!CloseTool
<1>6. events' = Append(Append(events, x), y)
  BY <1>5, TwoTogether DEF Writes
<1>7. Writes(Append(Append(events, x), y), Append(output, item), textSlot)
  BY <1>1, <1>2, <1>3, <1>4, ToolCloses
<1>8. QED BY <1>5, <1>6, <1>7

LEMMA ResponseCompletes ==
  ASSUME ResponseInv, ~completed, R!Finish
  PROVE  Wrote(kind, events', output') /\ completed' = TRUE /\ text' = text /\ textSlot' = textSlot
<1>0. /\ kind \in {"message", "compaction"} /\ Chunked(events)
      /\ Writes(events, output, textSlot)
      /\ kind = "compaction" => textSlot = {}
      /\ kind = "message" => (text = <<>> <=> textSlot = {})
  BY DEF ResponseInv, Writes
<1>1. PICK item : item = R!Item(kind, text) /\ item.kind = kind
  <2>1. R!Item(kind, text).kind = kind
    BY DEF R!Item
  <2>2. QED BY <2>1
<1>2. completed' = TRUE /\ text' = text /\ textSlot' = textSlot
  BY DEF R!Finish
<1>3. PICK o : o = output'
  OBVIOUS
<1>4. PICK y : y = R!Completed(o) /\ y.type = "completed" /\ y.output = o
  <2>1. R!Completed(o).type = "completed" /\ R!Completed(o).output = o
    BY DEF R!Completed
  <2>2. QED BY <2>1
<1>5. \A s : Chunked(s) => s \o <<>> = s /\ s \o <<y>> = Append(s, y)
  BY ChunksTogether
<1>6. CASE text = <<>>
  <2>1. o = output /\ events' = (events \o <<>>) \o <<y>>
    BY <1>3, <1>4, <1>6 DEF R!Finish
  <2>2. events' = Append(events, y)
    BY <1>0, <1>5, <2>1
  <2>3. Writes(events, output, {})
    BY <1>0, <1>6
  <2>4. Wrote(kind, Append(events, y), output)
    BY <1>4, <2>1, <2>3, NoTextEnds
  <2>5. QED BY <1>2, <1>3, <2>1, <2>2, <2>4
<1>7. ASSUME text # <<>>, NEW slot,
             slot = IF textSlot = {} THEN Len(output) ELSE CHOOSE i \in textSlot : TRUE
      PROVE  \E x : /\ x.type = "done" /\ x.index = slot /\ x.item = item
                    /\ events' = Append(Append(events, x), y)
                    /\ o = IF textSlot = {} THEN Append(output, item)
                             ELSE [output EXCEPT ![slot + 1] = item]
  <2>1. PICK x : x = R!Done(slot, item) /\ x.type = "done" /\ x.index = slot /\ x.item = item
    <3>1. /\ R!Done(slot, item).type = "done" /\ R!Done(slot, item).index = slot
          /\ R!Done(slot, item).item = item
      BY DEF R!Done
    <3>2. QED BY <3>1
  <2>2. o = IF textSlot = {} THEN Append(output, item) ELSE [output EXCEPT ![slot + 1] = item]
    BY <1>1, <1>3, <1>7 DEF R!Finish
  <2>3. events' = (events \o <<x>>) \o <<y>>
    BY <1>1, <1>3, <1>4, <1>7, <2>1 DEF R!Finish
  <2>4. events \o <<x>> = Append(events, x) /\ Chunked(Append(events, x))
    BY <1>0, ChunksTogether, ChunkAppended
  <2>5. events' = Append(Append(events, x), y)
    BY <1>5, <2>3, <2>4
  <2>6. QED BY <2>1, <2>2, <2>5
<1>8. CASE text # <<>> /\ kind = "compaction"
  <2>1. textSlot = {} /\ Writes(events, output, {})
    BY <1>0, <1>8
  <2>2. PICK slot : slot = Len(output) /\ slot = IF textSlot = {} THEN Len(output)
                                                   ELSE CHOOSE i \in textSlot : TRUE
    BY <2>1
  <2>3. PICK x : /\ x.type = "done" /\ x.index = slot /\ x.item = item
                 /\ events' = Append(Append(events, x), y)
                 /\ o = Append(output, item)
    BY <1>7, <1>8, <2>1, <2>2
  <2>4. Wrote("compaction", Append(Append(events, x), y), o)
    BY <1>1, <1>4, <1>8, <2>1, <2>2, <2>3, CompactionEnds
  <2>5. QED BY <1>2, <1>3, <1>8, <2>3, <2>4
<1>9. CASE text # <<>> /\ kind = "message"
  <2>1. textSlot # {}
    BY <1>0, <1>9
  <2>2. PICK i : textSlot = {i}
    BY <1>0, <2>1 DEF Writes, SlotOK
  <2>3. (CHOOSE k \in textSlot : TRUE) = i
    BY <2>2
  <2>4. PICK slot : slot = i /\ slot = IF textSlot = {} THEN Len(output)
                                        ELSE CHOOSE k \in textSlot : TRUE
    BY <2>1, <2>3
  <2>5. PICK x : /\ x.type = "done" /\ x.index = i /\ x.item = item
                 /\ events' = Append(Append(events, x), y)
                 /\ o = [output EXCEPT ![i + 1] = item]
    BY <1>7, <1>9, <2>1, <2>4
  <2>6. Wrote("message", Append(Append(events, x), y), o)
    BY <1>0, <1>4, <2>2, <2>5, TextTakesSlot
  <2>7. QED BY <1>2, <1>3, <1>9, <2>5, <2>6
<1>10. QED BY <1>0, <1>6, <1>8, <1>9

(* One more event of the upstream, and the end of its body.                *)
LEMMA TextParts ==
  ASSUME NEW e \in R!Upstream!Candidates, NEW heard \in R!Decoded(e),
         heard.type = "content_block_delta", heard.parts # <<>>
  PROVE  \E j : heard.parts = <<j>>
<1>1. e.type = "content_block_delta"
  BY CutKeeps
<1>2. PICK i, kd, j : e = R!Upstream!BlockDelta(i, kd, <<>>) \/ e = R!Upstream!BlockDelta(i, kd, <<j>>)
  BY <1>1 DEF R!Upstream!Candidates, R!Upstream!MessageStart, R!Upstream!MessageDelta,
    R!Upstream!MessageStop, R!Upstream!UpstreamError, R!Upstream!BlockStop,
    R!Upstream!BlockStart, R!Upstream!BlockDelta
<1>3. e.parts = <<>> \/ e.parts = <<j>>
  BY <1>2 DEF R!Upstream!BlockDelta
<1>4. CASE heard = R!Cut(e)
  <2>1. heard = [e EXCEPT !.parts = R!Lossy(e.parts)]
    BY <1>1, <1>4 DEF R!Cut
  <2>2. heard.parts = R!Lossy(e.parts)
    BY <1>2, <2>1 DEF R!Upstream!BlockDelta
  <2>3. R!Lossy(<<>>) = <<>> /\ R!Lossy(<<j>>) = <<R!Broken>>
    BY DEF R!Lossy
  <2>4. QED BY <1>3, <2>2, <2>3
<1>5. QED BY <1>3, <1>4 DEF R!Decoded

LEMMA ResponseUpstream ==
  ASSUME Events(received), NEW e \in R!Upstream!Candidates, R!Upstream!Extend(e)
  PROVE  /\ PlaceAfter(received).phase # "done"
         /\ e.type = "message_stop" => PlaceAfter(received').phase = "done"
<1>1. PICK p \in Places : p = PlaceAfter(received)
  <2>1. PICK n \in Nat : n = Len(received)
    BY DEF Events
  <2>2. QED BY <2>1, PlaceIsPlace
<1>2. /\ Kinded(e)
      /\ e.type = "content_block_delta" => e.kind \in {"text", "tool_use"}
  BY DEF R!Upstream!Candidates, Kinded, R!Upstream!MessageStart, R!Upstream!MessageDelta,
    R!Upstream!MessageStop, R!Upstream!UpstreamError, R!Upstream!BlockStop,
    R!Upstream!BlockStart, R!Upstream!BlockDelta, R!Upstream!BlockKinds
<1>3. received' = Append(received, e) /\ R!Upstream!Allowed(p, e)
  BY <1>1, PositionsAgree DEF R!Upstream!Extend
<1>4. C!Upstream!Allowed(p, e)
  BY <1>3 DEF C!Upstream!Allowed, R!Upstream!Allowed, C!Upstream!BlockKinds, R!Upstream!BlockKinds
<1>5. PlaceAfter(received') = Follow(p, e)
  BY <1>1, <1>2, <1>3, PlaceOfNext
<1>6. /\ p.phase \notin {"done", "failed"}
      /\ e.type = "message_stop" => Follow(p, e).phase = "done"
  BY <1>2, <1>4, UpstreamRuns
<1>7. QED BY <1>1, <1>5, <1>6

LEMMA ResponseReceives ==
  ASSUME ResponseInv, Events(received), NEW e \in R!Upstream!Candidates, R!Receive(e)
  PROVE  ResponseInv'
<1>0. /\ kind \in {"message", "compaction"} /\ Chunked(text)
      /\ kind = "compaction" => textSlot = {}
      /\ kind = "message" => (text = <<>> <=> textSlot = {})
      /\ completed /\ body = "open" => PlaceAfter(received).phase = "done"
  BY DEF ResponseInv
<1>1. /\ body = "open" /\ body' = body /\ kind' = kind /\ R!Upstream!Extend(e)
      /\ \E heard \in R!Decoded(e) : R!Process(heard)
  BY Zenon DEF R!Receive
<1>a. PICK heard \in R!Decoded(e) : R!Process(heard)
  BY <1>1
<1>b. \/ R!OpenTool(heard) \/ R!AddText(heard) \/ R!AddArguments(heard) \/ R!CloseTool(heard)
      \/ heard.type = "message_stop" /\ R!Finish
      \/ UNCHANGED <<toolBlocks, text, output, textSlot, completed, events>>
  BY <1>a, Zenon DEF R!Process
<1>c. heard.type = e.type
  BY <1>a, CutKeeps
<1>2. /\ PlaceAfter(received).phase # "done"
      /\ e.type = "message_stop" => PlaceAfter(received').phase = "done"
  BY <1>1, ResponseUpstream
<1>3. ~completed
  BY <1>0, <1>1, <1>2
<1>4. Writes(events, output, textSlot)
  BY <1>3 DEF ResponseInv
<1>5. CASE \/ R!OpenTool(heard) \/ R!AddArguments(heard)
           \/ UNCHANGED <<toolBlocks, text, output, textSlot, completed, events>>
  <2>1. /\ text' = text /\ output' = output /\ textSlot' = textSlot
        /\ completed' = completed /\ events' = events
    BY <1>5 DEF R!OpenTool, R!AddArguments
  <2>2. QED BY <1>0, <1>1, <1>3, <1>4, <2>1 DEF ResponseInv
<1>6. CASE R!AddText(heard)
  <2>1. PICK j : heard.parts = <<j>>
    BY <1>a, <1>6, TextParts DEF R!AddText
  <2>2. text' = text \o heard.parts /\ R!StartTextItem(heard.parts) /\ UNCHANGED <<kind, completed>>
    BY <1>1, <1>6 DEF R!AddText
  <2>3. /\ Chunked(text') /\ Writes(events', output', textSlot')
        /\ kind = "compaction" => textSlot' = {}
        /\ kind = "message" => (text' = <<>> <=> textSlot' = {})
    BY <1>3, <2>1, <2>2, TextAdds
  <2>4. QED BY <1>0, <1>1, <1>3, <2>2, <2>3 DEF ResponseInv
<1>7. CASE R!CloseTool(heard)
  <2>1. Writes(events', output', textSlot') /\ text' = text /\ textSlot' = textSlot
    BY <1>4, <1>7, ToolAdds
  <2>2. completed' = completed
    BY <1>7 DEF R!CloseTool
  <2>3. QED BY <1>0, <1>1, <1>3, <2>1, <2>2 DEF ResponseInv
<1>8. CASE heard.type = "message_stop" /\ R!Finish
  <2>1. Wrote(kind, events', output') /\ completed' = TRUE /\ text' = text /\ textSlot' = textSlot
    BY <1>3, <1>8, ResponseCompletes
  <2>2. QED BY <1>0, <1>1, <1>2, <1>8, <1>c, <2>1 DEF ResponseInv
<1>9. QED BY <1>b, <1>5, <1>6, <1>7, <1>8

LEMMA ResponseEnds ==
  ASSUME ResponseInv, R!UpstreamEnds \/ R!UpstreamFails
  PROVE  ResponseInv'
<1>0. /\ kind \in {"message", "compaction"} /\ Chunked(text)
      /\ kind = "compaction" => textSlot = {}
      /\ kind = "message" => (text = <<>> <=> textSlot = {})
      /\ IF completed THEN Wrote(kind, events, output) ELSE Writes(events, output, textSlot)
  BY DEF ResponseInv
<1>1. /\ kind' = kind /\ body' # "open"
      /\ \/ ~completed /\ R!Finish
         \/ UNCHANGED <<toolBlocks, text, output, textSlot, completed, events>>
  BY DEF R!UpstreamEnds, R!UpstreamFails, R!Finish
<1>2. CASE ~completed /\ R!Finish
  <2>1. Wrote(kind, events', output') /\ completed' = TRUE /\ text' = text /\ textSlot' = textSlot
    BY <1>2, ResponseCompletes
  <2>2. QED BY <1>0, <1>1, <2>1 DEF ResponseInv
<1>3. CASE UNCHANGED <<toolBlocks, text, output, textSlot, completed, events>>
  BY <1>0, <1>1, <1>3 DEF ResponseInv
<1>4. QED BY <1>1, <1>2, <1>3

(* What the invariant says in the words of ItemsPaired.                    *)
LEMMA AtIs ==
  /\ \A type, i, k : k \in R!At(type, i) <=> Is(events, k, type, i)
  /\ \A i : i \in R!Indexes <=> \E k \in DOMAIN events :
                                  events[k].type \in ItemEvents /\ events[k].index = i
  BY DEF R!At, R!Indexes, Is, ItemEvents

LEMMA SizesOfFew ==
  /\ \A S, a : S = {a} => R!Cardinality(S) = 1
  /\ R!Cardinality({}) = 0
<1>1. \A S : R!Cardinality(S) = Cardinality(S)
  BY DEF R!Cardinality, Cardinality
<1>2. QED BY <1>1, FS_Singleton, FS_EmptySet

(* One place.                                                              *)
PlaceFine(i, silent) ==
  /\ R!Cardinality(R!At("added", i)) = IF silent THEN 0 ELSE 1
  /\ R!Cardinality(R!At("done", i)) <= 1
  /\ \A a \in R!At("added", i), d \in R!At("delta", i) : a < d
  /\ \A d \in R!At("added", i) \cup R!At("delta", i), z \in R!At("done", i) : d < z

LEMMA AddedFine ==
  ASSUME NEW i, OneAdded(events, i)
  PROVE  /\ R!Cardinality(R!At("added", i)) = 1
         /\ \A a \in R!At("added", i), d \in R!At("delta", i) : a < d
<1>1. PICK a : /\ Is(events, a, "added", i)
               /\ \A k : Is(events, k, "added", i) => k = a
               /\ \A d : Is(events, d, "delta", i) => a < d
  BY DEF OneAdded
<1>2. \A k : k \in R!At("added", i) <=> k = a
  BY <1>1, AtIs, Zenon
<1>3. R!At("added", i) = {a}
  BY <1>2
<1>4. \A d \in R!At("delta", i) : a < d
  BY <1>1, AtIs, Zenon
<1>5. R!Cardinality(R!At("added", i)) = 1
  BY <1>3, SizesOfFew, Zenon
<1>6. QED BY <1>3, <1>4, <1>5

LEMMA OpenFine ==
  ASSUME NEW i, OpenAt(events, i)
  PROVE  PlaceFine(i, FALSE)
<1>1. OneAdded(events, i) /\ Undone(events, i)
  BY DEF OpenAt
<1>2. R!At("done", i) = {}
  <2>1. \A k : k \notin R!At("done", i)
    BY <1>1, AtIs, Zenon DEF Undone
  <2>2. QED BY <2>1
<1>3. R!Cardinality(R!At("done", i)) <= 1
  BY <1>2, SizesOfFew
<1>4. QED BY <1>1, <1>2, <1>3, AddedFine DEF PlaceFine

LEMMA ClosedFine ==
  ASSUME NEW i, NEW item, NEW silent \in BOOLEAN, ClosedAt(events, i, item, silent)
  PROVE  PlaceFine(i, silent) /\ \E z \in R!At("done", i) : events[z].item = item
<1>1. PICK z : /\ Is(events, z, "done", i) /\ events[z].item = item
               /\ \A k : Is(events, k, "done", i) => k = z
               /\ \A d : Is(events, d, "added", i) \/ Is(events, d, "delta", i) => d < z
  BY DEF ClosedAt, DoneOnce
<1>2. R!At("done", i) = {z}
  <2>1. \A k : k \in R!At("done", i) <=> k = z
    BY <1>1, AtIs, Zenon
  <2>2. QED BY <2>1
<1>3. R!Cardinality(R!At("done", i)) <= 1
  <2>1. R!Cardinality(R!At("done", i)) = 1
    BY <1>2, SizesOfFew, Zenon
  <2>2. QED BY <2>1
<1>4. \A d \in R!At("added", i) \cup R!At("delta", i) : d < z
  <2>1. \A d : d \in R!At("added", i) \/ d \in R!At("delta", i) => d < z
    BY <1>1, AtIs, Zenon
  <2>2. QED BY <2>1
<1>5. /\ R!Cardinality(R!At("added", i)) = IF silent THEN 0 ELSE 1
      /\ \A a \in R!At("added", i), d \in R!At("delta", i) : a < d
  <2>1. CASE silent
    <3>1. Unadded(events, i)
      BY <2>1 DEF ClosedAt
    <3>2. \A k : k \notin R!At("added", i)
      BY <3>1, AtIs, Zenon DEF Unadded
    <3>3. R!At("added", i) = {}
      BY <3>2
    <3>4. R!Cardinality(R!At("added", i)) = 0
      BY <3>3, SizesOfFew
    <3>5. QED BY <2>1, <3>3, <3>4
  <2>2. CASE ~silent
    <3>1. OneAdded(events, i)
      BY <2>2 DEF ClosedAt
    <3>2. QED BY <2>2, <3>1, AddedFine
  <2>3. QED BY <2>1, <2>2
<1>6. QED BY <1>1, <1>2, <1>3, <1>4, <1>5 DEF PlaceFine

LEMMA ResponseSays ==
  ASSUME ResponseInv
  PROVE  R!ItemsPaired
<1>1. Within(events, Len(output)) /\ Chunked(output)
  BY DEF ResponseInv, Writes, Wrote
<1>2. \A i \in R!Indexes : i \in 0 .. (Len(output) - 1)
  BY <1>1, AtIs, Zenon DEF Within
<1>3. ASSUME NEW i \in 0 .. (Len(output) - 1), NEW silent,
             silent = (kind = "compaction" /\ output[i + 1].kind = kind)
      PROVE  PlaceFine(i, silent)
  <2>0. silent \in BOOLEAN
    BY <1>3
  <2>1. CASE completed
    <3>1. ClosedAt(events, i, output[i + 1], silent)
      BY <1>3, <2>1 DEF ResponseInv, Wrote
    <3>2. QED BY <2>0, <3>1, ClosedFine
  <2>2. CASE ~completed
    <3>1. /\ output[i + 1].kind # "compaction"
          /\ OpenAt(events, i) \/ ClosedAt(events, i, output[i + 1], FALSE)
      BY <2>2 DEF ResponseInv, Writes
    <3>2. silent = FALSE
      BY <1>3, <3>1
    <3>3. PlaceFine(i, FALSE)
      BY <3>1, OpenFine, ClosedFine
    <3>4. QED BY <3>2, <3>3
  <2>3. QED BY <2>1, <2>2
<1>4. ASSUME NEW i \in R!Indexes
      PROVE  /\ R!Cardinality(R!At("added", i)) =
                  (IF kind = "compaction" /\ output[i + 1].kind = kind THEN 0 ELSE 1)
             /\ R!Cardinality(R!At("done", i)) <= 1
             /\ \A a \in R!At("added", i), d \in R!At("delta", i) : a < d
             /\ \A d \in R!At("added", i) \cup R!At("delta", i), z \in R!At("done", i) : d < z
  <2>1. i \in 0 .. (Len(output) - 1)
    BY <1>2
  <2>2. PICK silent : silent = (kind = "compaction" /\ output[i + 1].kind = kind)
    OBVIOUS
  <2>3. PlaceFine(i, silent)
    BY <1>3, <2>1, <2>2
  <2>4. QED BY <2>2, <2>3, Zenon DEF PlaceFine
<1>5. ASSUME NEW k \in DOMAIN events, events[k].type = "completed"
      PROVE  /\ k = Len(events)
             /\ R!Indexes = {i - 1 : i \in DOMAIN events[k].output}
             /\ \A i \in R!Indexes :
                  \E z \in R!At("done", i) : events[z].item = events[k].output[i + 1]
  <2>1. completed
    BY <1>5 DEF ResponseInv, Writes
  <2>2. /\ k = Len(events) /\ events[k].output = output
        /\ \A i \in 0 .. (Len(output) - 1) :
             ClosedAt(events, i, output[i + 1], kind = "compaction" /\ output[i + 1].kind = kind)
    BY <1>5, <2>1 DEF ResponseInv, Wrote
  <2>3. ASSUME NEW i \in 0 .. (Len(output) - 1)
        PROVE  \E z \in R!At("done", i) : events[z].item = output[i + 1]
    <3>1. PICK silent \in BOOLEAN : silent = (kind = "compaction" /\ output[i + 1].kind = kind)
      OBVIOUS
    <3>2. ClosedAt(events, i, output[i + 1], silent)
      BY <2>2, <3>1
    <3>3. QED BY <3>2, ClosedFine
  <2>4. \A i \in 0 .. (Len(output) - 1) : i \in R!Indexes
    <3>1. ASSUME NEW i \in 0 .. (Len(output) - 1) PROVE i \in R!Indexes
      <4>1. PICK z : Is(events, z, "done", i)
        BY <2>3, AtIs
      <4>2. z \in DOMAIN events /\ events[z].type \in ItemEvents /\ events[z].index = i
        BY <4>1 DEF Is, ItemEvents
      <4>3. QED BY <4>2, AtIs
    <3>2. QED BY <3>1
  <2>5. DOMAIN output = 1 .. Len(output) /\ Len(output) \in Nat
    BY <1>1, ChunkAppended
  <2>6. {i - 1 : i \in DOMAIN output} = 0 .. (Len(output) - 1)
    <3>1. ASSUME NEW j \in 0 .. (Len(output) - 1)
          PROVE  \E i \in DOMAIN output : j = i - 1
      <4>1. j + 1 \in DOMAIN output /\ j = (j + 1) - 1
        BY <2>5
      <4>2. QED BY <4>1
    <3>2. \A i \in DOMAIN output : i - 1 \in 0 .. (Len(output) - 1)
      BY <2>5
    <3>3. QED BY <3>1, <3>2
  <2>7. R!Indexes = 0 .. (Len(output) - 1)
    BY <1>2, <2>4
  <2>8. QED BY <2>2, <2>3, <2>6, <2>7
<1>6. QED BY <1>4, <1>5, Zenon DEF R!ItemsPaired

(* A Responses client can put the answer together: every item has one      *)
(* place, is added before its deltas and these come before its done event, *)
(* and the completed response lists, in the order of the places, just the  *)
(* items that were done, though the text is done after later tools         *)
(* (start_text_item, finish).                                              *)
THEOREM ItemsArePaired == Spec => []ItemsPaired
<1> DEFINE IInv == path = "responses via messages" => ResponseInv
<1>1. Init => IInv
  BY ResponseInit
<1>2. TypeInv /\ IInv /\ [Next]_vars => IInv'
  <2> SUFFICES ASSUME TypeInv, IInv, [Next]_vars, path' = "responses via messages"
               PROVE  ResponseInv'
    OBVIOUS
  <2>1. CASE MessagesStep \/ ChatStep
    BY <2>1 DEF MessagesStep, ChatStep
  <2>2. CASE ResponsesStep
    <3>1. R!Next /\ ResponseInv /\ Events(received)
      BY <2>2 DEF ResponsesStep, TypeInv
    <3>2. QED BY <3>1, ResponseReceives, ResponseEnds DEF R!Next
  <2>3. CASE UNCHANGED vars
    <3>1. /\ path' = path /\ received' = received /\ body' = body /\ kind' = kind
          /\ text' = text /\ output' = output /\ textSlot' = textSlot
          /\ completed' = completed /\ events' = events
      BY <2>3 DEF vars, toResponses
    <3>2. ResponseInv
      BY <3>1
    <3>3. QED BY <3>1, <3>2 DEF ResponseInv
  <2>4. QED BY <2>1, <2>2, <2>3 DEF Next
<1>3. IInv => ItemsPaired
  BY ResponseSays DEF ItemsPaired
<1>4. Init => TypeInv
  BY TypeInvInit
<1>5. TypeInv /\ [Next]_vars => TypeInv'
  BY TypeInvStep
<1> HIDE DEF IInv
<1>6. QED BY <1>1, <1>2, <1>3, <1>4, <1>5, PTL DEF Spec
=============================================================================
