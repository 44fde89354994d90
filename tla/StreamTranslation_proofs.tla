----------------------- MODULE StreamTranslation_proofs -----------------------
(***************************************************************************)
(* What the translated streams keep, for any indexes of tool calls and any *)
(* chunks of the endpoint: each translator its types (TypeInv), and the    *)
(* writer of Messages events the grammar of MessageStream (WriterInv).     *)
(***************************************************************************)
EXTENDS StreamTranslation, FiniteSetTheorems, NaturalsInduction, SequenceTheorems, TLAPS

-----------------------------------------------------------------------------
(* Induction, for a set of numbers.                                        *)
LEMMA SmallestNumber ==
  ASSUME NEW S \in SUBSET Nat, S # {}
  PROVE  \E m \in S : \A j \in S : m <= j
<1>1. PICK m \in S : \A j \in S : ~(<<j, m>> \in OpToRel(<, Nat))
  BY NatLessThanWellFounded, WFMin
<1>2. \A j \in S : ~(j < m)
  BY <1>1 DEF OpToRel
<1>3. QED BY <1>2

LEMMA AllNumbers ==
  ASSUME NEW S, 0 \in S, \A n \in Nat : n \in S => n + 1 \in S
  PROVE  \A n \in Nat : n \in S
<1>1. SUFFICES ASSUME NEW n \in Nat, n \notin S PROVE FALSE
  OBVIOUS
<1> DEFINE Out == {k \in Nat : k \notin S}
<1>2. PICK m \in Out : \A j \in Out : m <= j
  <2>1. Out \in SUBSET Nat /\ Out # {}  BY <1>1
  <2>2. QED BY <2>1, SmallestNumber
<1>3. m - 1 \in Nat /\ m - 1 \notin Out
  BY <1>2
<1>4. QED BY <1>2, <1>3

(* A fold from the left over the places 1 .. n: the function that the      *)
(* community module folds with exists, whatever the step is.               *)
TopOf(s) == CHOOSE x \in s : \A y \in s : x >= y
FoldOver(base, step, n, g) ==
  \A s \in SUBSET (1..n) :
     g[s] = IF s = {} THEN base ELSE step[<<g[s \ {TopOf(s)}], TopOf(s)>>]

LEMMA LastIsMax ==
  ASSUME NEW n \in Nat, NEW s \in SUBSET (1..(n + 1)), n + 1 \in s
  PROVE  TopOf(s) = n + 1
<1>1. \A y \in s : n + 1 >= y
  OBVIOUS
<1>2. TopOf(s) \in s /\ TopOf(s) >= n + 1
  <2> DEFINE Most(x) == \A y \in s : x >= y
  <2>1. Most(n + 1)  BY <1>1
  <2>2. TopOf(s) = CHOOSE x \in s : Most(x)  BY DEF TopOf
  <2>3. TopOf(s) \in s /\ Most(TopOf(s))
    <3> HIDE DEF Most
    <3> QED BY <2>1, <2>2
  <2>4. QED BY <2>3
<1>3. \A x \in s : x \in 1..(n + 1)  OBVIOUS
<1>4. PICK x \in 1..(n + 1) : x = TopOf(s) /\ x \in s /\ x >= n + 1
  BY <1>2, <1>3
<1>5. QED BY <1>4

LEMMA FoldExists ==
  ASSUME NEW A, NEW base \in A, NEW m \in Nat, NEW step \in [A \X (1..m) -> A]
  PROVE  \A n \in Nat : n <= m => \E g \in [SUBSET (1..n) -> A] : FoldOver(base, step, n, g)
<1> DEFINE P(n) == \E g \in [SUBSET (1..n) -> A] : FoldOver(base, step, n, g)
           S == {n \in Nat : n <= m => P(n)}
<1>1. 0 \in S
  <2> DEFINE g == [s \in SUBSET (1..0) |-> base]
  <2>1. \A s \in SUBSET (1..0) : s = {}  OBVIOUS
  <2>2. g \in [SUBSET (1..0) -> A] /\ FoldOver(base, step, 0, g)
    BY <2>1 DEF FoldOver
  <2>3. QED BY <2>2
<1>2. ASSUME NEW n \in Nat, n \in S PROVE n + 1 \in S
  <2>1. SUFFICES ASSUME n + 1 <= m
                 PROVE  P(n + 1)
    <3> HIDE DEF P
    <3> QED BY n + 1 \in Nat
  <2>2. PICK f \in [SUBSET (1..n) -> A] : FoldOver(base, step, n, f)
    <3>1. P(n)
      <4> HIDE DEF P
      <4> QED BY <1>2, <2>1
    <3>2. QED BY <3>1
  <2> DEFINE g == [s \in SUBSET (1..(n + 1)) |->
                     IF n + 1 \notin s THEN f[s] ELSE step[<<f[s \ {n + 1}], n + 1>>]]
  <2>3. \A s \in SUBSET (1..(n + 1)) : s \ {n + 1} \in SUBSET (1..n)
    OBVIOUS
  <2>4. \A s \in SUBSET (1..(n + 1)) : n + 1 \notin s => s \in SUBSET (1..n)
    OBVIOUS
  <2>5. g \in [SUBSET (1..(n + 1)) -> A]
    BY <2>1, <2>3, <2>4
  <2>6. ASSUME NEW s \in SUBSET (1..(n + 1))
        PROVE  g[s] = IF s = {} THEN base ELSE step[<<g[s \ {TopOf(s)}], TopOf(s)>>]
    <3>1. CASE n + 1 \notin s
      <4>1. s \in SUBSET (1..n) /\ g[s] = f[s]  BY <3>1, <2>4
      <4>2. s \ {TopOf(s)} \in SUBSET (1..n)  BY <4>1
      <4>3. g[s \ {TopOf(s)}] = f[s \ {TopOf(s)}]  BY <4>2
      <4>4. QED BY <4>1, <4>3, <2>2 DEF FoldOver
    <3>2. CASE n + 1 \in s
      <4>1. TopOf(s) = n + 1  BY <3>2, LastIsMax
      <4>2. g[s \ {n + 1}] = f[s \ {n + 1}]  BY <2>3
      <4>3. g[s] = step[<<f[s \ {n + 1}], n + 1>>]  BY <3>2
      <4>4. QED BY <4>1, <4>2, <4>3, <3>2
    <3>3. QED BY <3>1, <3>2
  <2>7. FoldOver(base, step, n + 1, g)
    <3> HIDE DEF g
    <3> QED BY <2>6 DEF FoldOver
  <2>8. QED BY <2>5, <2>7
<1>3. QED
  <2> HIDE DEF S
  <2>1. \A n \in Nat : n \in S  BY <1>1, <1>2, AllNumbers
  <2>2. QED BY <2>1 DEF S

LEMMA TopIsIn ==
  ASSUME NEW n \in Nat, NEW s \in SUBSET (1..n), s # {}
  PROVE  TopOf(s) \in s /\ \A y \in s : TopOf(s) >= y
<1> DEFINE Away == {k \in Nat : n - k \in s}
<1>1. \A y \in s : y \in 1..n /\ n - y \in Nat /\ n - (n - y) = y
  OBVIOUS
<1>2. \A y \in s : n - y \in Away
  BY <1>1
<1>3. Away \in SUBSET Nat /\ Away # {}
  BY <1>2
<1>4. PICK a \in Away : \A b \in Away : a <= b
  <2> HIDE DEF Away
  <2> QED BY <1>3, SmallestNumber
<1>5. n - a \in s /\ \A y \in s : n - a >= y
  BY <1>1, <1>2, <1>4
<1>6. QED BY <1>5 DEF TopOf

-----------------------------------------------------------------------------
(* Where a reader is after some events.  The events of a stream: only text *)
(* and tool blocks are opened.                                             *)
Kinded(e) == e.type = "content_block_start" => e.kind \in {"text", "tool_use"}
Events(s) == \E E : s \in Seq(E) /\ \A e \in E : Kinded(e)
Places == [phase : {"before", "between", "text", "tool_use", "closing", "done", "failed",
                    "illegal"}, next : Nat]
Follow(p, e) == M!Stream!After(p, e)

LEMMA FollowIsPlace ==
  ASSUME NEW p \in Places, NEW e, Kinded(e)
  PROVE  Follow(p, e) \in Places
<1> USE DEF Places, Follow, M!Stream!After
<1>0. /\ M!Stream!Beginning \in Places
      /\ [p EXCEPT !.phase = "illegal"] \in Places
      /\ [p EXCEPT !.phase = "closing"] \in Places
      /\ [p EXCEPT !.phase = "done"] \in Places
      /\ [p EXCEPT !.phase = "failed"] \in Places
      /\ [p EXCEPT !.phase = "between"] \in Places
  BY DEF M!Stream!Beginning
<1>1. CASE ~M!Stream!Allowed(p, e)
  BY <1>0, <1>1
<1>2. CASE M!Stream!Allowed(p, e)
  <2>1. CASE e.type = "content_block_start"
    <3>1. Follow(p, e) = [phase |-> e.kind, next |-> p.next + 1]
      BY <1>2, <2>1
    <3>2. e.kind \in {"text", "tool_use"}  BY <2>1 DEF Kinded
    <3>3. QED BY <3>1, <3>2
  <2>2. CASE e.type = "content_block_delta"
    BY <1>2, <2>2
  <2>3. CASE e.type = "message_delta"
    BY <1>0, <1>2, <2>3
  <2>4. CASE e.type = "message_stop"
    BY <1>0, <1>2, <2>4
  <2>5. CASE e.type = "error"
    BY <1>0, <1>2, <2>5
  <2>6. CASE e.type \notin {"content_block_start", "content_block_delta", "message_delta",
                           "message_stop", "error"}
    BY <1>0, <1>2, <2>6
  <2>7. QED BY <2>1, <2>2, <2>3, <2>4, <2>5, <2>6
<1>3. QED BY <1>1, <1>2

PlaceStep(g, es, s) ==
  IF s = {} THEN M!Stream!Beginning ELSE Follow(g[s \ {TopOf(s)}], es[TopOf(s)])
PlaceIter(es) == CHOOSE g : g = [s \in SUBSET DOMAIN es |-> PlaceStep(g, es, s)]
PlaceAfter(es) == PlaceIter(es)[DOMAIN es]

LEMMA PositionsAgree ==
  /\ \A s : M!Stream!Position(s) = PlaceAfter(s)
  /\ \A s : R!Upstream!Position(s) = PlaceAfter(s)
  /\ \A s : C!Upstream!Position(s) = PlaceAfter(s)
<1>1. \A s : M!Stream!Position(s) = PlaceAfter(s)
  BY Zenon DEF M!Stream!Position, PlaceAfter, PlaceIter, PlaceStep, Follow,
    M!Stream!FoldLeft, M!Stream!MapThenFoldSet, M!Stream!Max, TopOf
<1>2. \A s : R!Upstream!Position(s) = PlaceAfter(s)
  BY Zenon DEF R!Upstream!Position, PlaceAfter, PlaceIter, PlaceStep, Follow,
    R!Upstream!FoldLeft, R!Upstream!MapThenFoldSet, R!Upstream!Max, TopOf,
    R!Upstream!After, M!Stream!After, R!Upstream!Allowed, M!Stream!Allowed,
    R!Upstream!BlockKinds, M!Stream!BlockKinds, R!Upstream!Beginning, M!Stream!Beginning
<1>3. \A s : C!Upstream!Position(s) = PlaceAfter(s)
  BY Zenon DEF C!Upstream!Position, PlaceAfter, PlaceIter, PlaceStep, Follow,
    C!Upstream!FoldLeft, C!Upstream!MapThenFoldSet, C!Upstream!Max, TopOf,
    C!Upstream!After, M!Stream!After, C!Upstream!Allowed, M!Stream!Allowed,
    C!Upstream!BlockKinds, M!Stream!BlockKinds, C!Upstream!Beginning, M!Stream!Beginning
<1>4. QED BY <1>1, <1>2, <1>3

LEMMA EventsOver ==
  ASSUME NEW E, NEW s \in Seq(E), \A e \in E : Kinded(e)
  PROVE  Events(s)
  BY DEF Events

LEMMA PlaceSteps ==
  ASSUME NEW es, Events(es), NEW n \in Nat, n = Len(es)
  PROVE  LET g == PlaceIter(es) IN
         /\ PlaceAfter(es) = g[1..n]
         /\ g[1..0] = M!Stream!Beginning
         /\ \A k \in Nat : k < n => g[1..(k + 1)] = Follow(g[1..k], es[k + 1])
<1> DEFINE g == PlaceIter(es)
<1>1. PICK E : es \in Seq(E) /\ \A e \in E : Kinded(e)
  BY DEF Events
<1>2. DOMAIN es = 1..n /\ \A k \in 1..n : Kinded(es[k])
  BY <1>1
<1>3. \A s \in SUBSET (1..n) : g[s] = PlaceStep(g, es, s)
  <2> DEFINE step == [p \in Places \X (1..n) |-> Follow(p[1], es[p[2]])]
  <2>1. step \in [Places \X (1..n) -> Places]
    BY <1>2, FollowIsPlace
  <2>2. PICK f \in [SUBSET (1..n) -> Places] : FoldOver(M!Stream!Beginning, step, n, f)
    <3> HIDE DEF step
    <3>1. M!Stream!Beginning \in Places
      BY DEF M!Stream!Beginning, Places
    <3>2. \A k \in Nat : k <= n =>
            \E f \in [SUBSET (1..k) -> Places] : FoldOver(M!Stream!Beginning, step, k, f)
      BY <2>1, <3>1, FoldExists
    <3>3. n <= n  OBVIOUS
    <3>4. QED BY <3>2, <3>3
  <2>3. f = [s \in SUBSET DOMAIN es |-> PlaceStep(f, es, s)]
    <3>1. ASSUME NEW s \in SUBSET (1..n) PROVE f[s] = PlaceStep(f, es, s)
      <4>1. CASE s = {}
        BY <4>1, <2>2 DEF FoldOver, PlaceStep
      <4>2. CASE s # {}
        <5>1. TopOf(s) \in 1..n
          BY <4>2, TopIsIn
        <5>2. f[s \ {TopOf(s)}] \in Places
          BY <2>2
        <5>3. f[s] = step[<<f[s \ {TopOf(s)}], TopOf(s)>>]
          BY <4>2, <2>2 DEF FoldOver
        <5>4. QED BY <5>1, <5>2, <5>3, <4>2 DEF PlaceStep
      <4>3. QED BY <4>1, <4>2
    <3>2. QED BY <3>1, <1>2, <2>2
  <2>4. g = [s \in SUBSET DOMAIN es |-> PlaceStep(g, es, s)]
    BY <2>3 DEF PlaceIter
  <2>5. QED BY <2>4, <1>2
<1>4. PlaceAfter(es) = g[1..n]
  BY <1>2 DEF PlaceAfter
<1> HIDE DEF g
<1>5. g[1..0] = M!Stream!Beginning
  <2>1. 1..0 = {} /\ {} \in SUBSET (1..n)  OBVIOUS
  <2>2. QED BY <2>1, <1>3 DEF PlaceStep
<1>6. ASSUME NEW k \in Nat, k < n
      PROVE  g[1..(k + 1)] = Follow(g[1..k], es[k + 1])
  <2>1. TopOf(1..(k + 1)) = k + 1
    BY LastIsMax
  <2>2. /\ (1..(k + 1)) \ {k + 1} = 1..k
        /\ 1..(k + 1) # {}
        /\ 1..(k + 1) \in SUBSET (1..n)
    <3>1. (1..(k + 1)) \ {k + 1} = 1..k  OBVIOUS
    <3>2. k + 1 \in 1..(k + 1)  OBVIOUS
    <3>3. 1..(k + 1) \in SUBSET (1..n)  BY <1>6
    <3>4. QED BY <3>1, <3>2, <3>3
  <2>3. QED BY <1>3, <2>1, <2>2 DEF PlaceStep
<1>7. QED BY <1>4, <1>5, <1>6 DEF g

LEMMA PlaceIsPlace ==
  ASSUME NEW es, Events(es), NEW n \in Nat, n = Len(es)
  PROVE  /\ PlaceAfter(es) \in Places
         /\ \A k \in Nat : k <= n => PlaceIter(es)[1..k] \in Places
<1> DEFINE g == PlaceIter(es)
           S == {k \in Nat : k <= n => g[1..k] \in Places}
<1>1. /\ PlaceAfter(es) = g[1..n]
      /\ g[1..0] = M!Stream!Beginning
      /\ \A k \in Nat : k < n => g[1..(k + 1)] = Follow(g[1..k], es[k + 1])
  BY PlaceSteps
<1> HIDE DEF g
<1>2. \A k \in 1..n : Kinded(es[k])
  <2>1. PICK E : es \in Seq(E) /\ \A e \in E : Kinded(e)
    BY DEF Events
  <2>2. QED BY <2>1
<1>3. 0 \in S
  BY <1>1 DEF M!Stream!Beginning, Places
<1>4. ASSUME NEW k \in Nat, k \in S PROVE k + 1 \in S
  <2>1. SUFFICES ASSUME k + 1 <= n PROVE g[1..(k + 1)] \in Places
    OBVIOUS
  <2>2. k < n /\ k <= n /\ k + 1 \in 1..n  BY <2>1
  <2>3. g[1..k] \in Places  BY <1>4, <2>2
  <2>4. QED BY <1>1, <1>2, <2>2, <2>3, FollowIsPlace
<1>5. \A k \in Nat : k \in S
  <2> HIDE DEF S
  <2> QED BY <1>3, <1>4, AllNumbers
<1>6. QED BY <1>1, <1>5 DEF g

LEMMA NoEvents == Events(<<>>)
<1> DEFINE none == {}
<1>1. <<>> \in Seq(none) /\ \A e \in none : Kinded(e)  OBVIOUS
<1> HIDE DEF none
<1>2. QED BY <1>1, EventsOver

LEMMA PlaceAtStart == PlaceAfter(<<>>) = M!Stream!Beginning
<1>1. Events(<<>>) /\ Len(<<>>) = 0 /\ 0 \in Nat
  BY NoEvents
<1>2. PlaceAfter(<<>>) = PlaceIter(<<>>)[1..0] /\ PlaceIter(<<>>)[1..0] = M!Stream!Beginning
  BY <1>1, PlaceSteps
<1>3. QED BY <1>2

LEMMA PlaceOfNext ==
  ASSUME NEW s, Events(s), NEW e, Kinded(e)
  PROVE  /\ Events(Append(s, e))
         /\ PlaceAfter(Append(s, e)) = Follow(PlaceAfter(s), e)
<1>1. PICK E : s \in Seq(E) /\ \A x \in E : Kinded(x)
  BY DEF Events
<1> DEFINE t == Append(s, e)
           n == Len(s)
<1>2. t \in Seq(E \cup {e}) /\ \A x \in E \cup {e} : Kinded(x)
  BY <1>1
<1>3. Events(t)
  BY <1>2 DEF Events
<1>4. /\ n \in Nat /\ n + 1 \in Nat /\ Len(t) = n + 1
      /\ t[n + 1] = e /\ \A k \in 1..n : t[k] = s[k]
  BY <1>1
<1> DEFINE f == PlaceIter(s)
           g == PlaceIter(t)
           S == {k \in Nat : k <= n => g[1..k] = f[1..k]}
<1> HIDE DEF t, n
<1>5. /\ PlaceAfter(s) = f[1..n] /\ f[1..0] = M!Stream!Beginning
      /\ \A k \in Nat : k < n => f[1..(k + 1)] = Follow(f[1..k], s[k + 1])
  BY <1>4, PlaceSteps DEF n
<1>6. /\ PlaceAfter(t) = g[1..(n + 1)] /\ g[1..0] = M!Stream!Beginning
      /\ \A k \in Nat : k < n + 1 => g[1..(k + 1)] = Follow(g[1..k], t[k + 1])
  BY <1>3, <1>4, PlaceSteps
<1> HIDE DEF f, g
<1>7. 0 \in S
  BY <1>5, <1>6
<1>8. ASSUME NEW k \in Nat, k \in S PROVE k + 1 \in S
  <2>1. SUFFICES ASSUME k + 1 <= n PROVE g[1..(k + 1)] = f[1..(k + 1)]
    OBVIOUS
  <2>2. k < n /\ k < n + 1 /\ k <= n /\ k + 1 \in 1..n  BY <2>1, <1>4
  <2>3. QED BY <1>4, <1>5, <1>6, <1>8, <2>2
<1>9. \A k \in Nat : k \in S
  <2> HIDE DEF S
  <2> QED BY <1>7, <1>8, AllNumbers
<1>10. g[1..n] = f[1..n] /\ n < n + 1
  BY <1>4, <1>9
<1>11. PlaceAfter(t) = Follow(PlaceAfter(s), e)
  BY <1>4, <1>5, <1>6, <1>10
<1>12. QED BY <1>3, <1>11 DEF t

-----------------------------------------------------------------------------
(* What a writer adds to a stream, event by event: s0 is the stream before *)
(* the step, s what it has become, p where its reader is.                  *)
At(phase_, next_) == [phase |-> phase_, next |-> next_]
Leads(s0, s, p) == Events(s) /\ PlaceAfter(s) = p /\ M!Stream!IsPrefix(s0, s)

LEMMA LeadsFrom ==
  ASSUME NEW s, Events(s)
  PROVE  Leads(s, s, PlaceAfter(s))
  BY DEF Leads, M!Stream!IsPrefix, Events

LEMMA AddNothing ==
  ASSUME NEW s, Events(s)
  PROVE  s \o <<>> = s
<1>1. PICK E : s \in Seq(E) /\ \A e \in E : Kinded(e)
  BY DEF Events
<1>2. QED BY <1>1

LEMMA AddOne ==
  ASSUME NEW s0, NEW n0 \in Nat, Len(s0) = n0,
         NEW s, NEW p, Leads(s0, s, p), NEW e, Kinded(e), M!Stream!Allowed(p, e)
  PROVE  Leads(s0, s \o <<e>>, M!Stream!After(p, e))
<1>1. Events(s) /\ PlaceAfter(s) = p /\ M!Stream!IsPrefix(s0, s)
  BY DEF Leads
<1>2. PICK E : s \in Seq(E) /\ \A x \in E : Kinded(x)
  BY <1>1 DEF Events
<1>3. s \o <<e>> = Append(s, e)
  BY <1>2
<1>4. Events(Append(s, e)) /\ PlaceAfter(Append(s, e)) = M!Stream!After(p, e)
  BY <1>1, PlaceOfNext DEF Follow
<1>5. M!Stream!IsPrefix(s0, Append(s, e))
  <2>1. n0 <= Len(s) /\ SubSeq(s0, 1, n0) = SubSeq(s, 1, n0)
    BY <1>1 DEF M!Stream!IsPrefix
  <2>2. SubSeq(Append(s, e), 1, n0) = SubSeq(s, 1, n0)
    BY <1>2, <2>1
  <2>3. n0 <= Len(Append(s, e))
    BY <1>2, <2>1
  <2>4. QED BY <2>1, <2>2, <2>3 DEF M!Stream!IsPrefix
<1>6. QED BY <1>3, <1>4, <1>5 DEF Leads

LEMMA Adds ==
  ASSUME NEW s0, NEW n0 \in Nat, Len(s0) = n0, NEW s, NEW n \in Nat
  PROVE  /\ Leads(s0, s, At("before", n)) =>
              Leads(s0, s \o <<M!Stream!MessageStart>>, At("between", n))
         /\ \A input : \A k \in {"text", "tool_use"} :
              Leads(s0, s, At("between", n)) =>
                Leads(s0, s \o <<M!Stream!BlockStart(n, k, input)>>, At(k, n + 1))
         /\ \A parts : \A k \in {"text", "tool_use"} :
              Leads(s0, s, At(k, n + 1)) =>
                Leads(s0, s \o <<M!Stream!BlockDelta(n, k, parts)>>, At(k, n + 1))
         /\ \A k \in {"text", "tool_use"} :
              Leads(s0, s, At(k, n + 1)) =>
                Leads(s0, s \o <<M!Stream!BlockStop(n)>>, At("between", n + 1))
         /\ \A why :
              Leads(s0, s, At("between", n)) =>
                Leads(s0, s \o <<M!Stream!MessageDelta(why)>>, At("closing", n))
         /\ Leads(s0, s, At("closing", n)) =>
              Leads(s0, s \o <<M!Stream!MessageStop>>, At("done", n))
<1> USE DEF At, Kinded, M!Stream!Allowed, M!Stream!After, M!Stream!BlockKinds
<1>1. ASSUME Leads(s0, s, At("before", n))
      PROVE  Leads(s0, s \o <<M!Stream!MessageStart>>, At("between", n))
  <2> DEFINE e == M!Stream!MessageStart
  <2>1. Kinded(e) /\ M!Stream!Allowed(At("before", n), e)
        /\ M!Stream!After(At("before", n), e) = At("between", n)
    BY DEF M!Stream!MessageStart
  <2>2. QED
    <3> HIDE DEF e, At, Kinded, M!Stream!Allowed, M!Stream!After
    <3>1. Leads(s0, s \o <<e>>, M!Stream!After(At("before", n), e))
      BY <1>1, <2>1, AddOne
    <3>2. QED BY <2>1, <3>1 DEF e
<1>2. ASSUME NEW k \in {"text", "tool_use"}, NEW input, Leads(s0, s, At("between", n))
      PROVE  Leads(s0, s \o <<M!Stream!BlockStart(n, k, input)>>, At(k, n + 1))
  <2> DEFINE e == M!Stream!BlockStart(n, k, input)
  <2>1. Kinded(e) /\ M!Stream!Allowed(At("between", n), e)
        /\ M!Stream!After(At("between", n), e) = At(k, n + 1)
    BY DEF M!Stream!BlockStart
  <2>2. QED
    <3> HIDE DEF e, At, Kinded, M!Stream!Allowed, M!Stream!After
    <3>1. Leads(s0, s \o <<e>>, M!Stream!After(At("between", n), e))
      BY <1>2, <2>1, AddOne
    <3>2. QED BY <2>1, <3>1 DEF e
<1>3. ASSUME NEW k \in {"text", "tool_use"}, NEW parts, Leads(s0, s, At(k, n + 1))
      PROVE  Leads(s0, s \o <<M!Stream!BlockDelta(n, k, parts)>>, At(k, n + 1))
  <2> DEFINE e == M!Stream!BlockDelta(n, k, parts)
  <2>1. Kinded(e) /\ M!Stream!Allowed(At(k, n + 1), e)
        /\ M!Stream!After(At(k, n + 1), e) = At(k, n + 1)
    BY DEF M!Stream!BlockDelta
  <2>2. QED
    <3> HIDE DEF e, At, Kinded, M!Stream!Allowed, M!Stream!After
    <3>1. Leads(s0, s \o <<e>>, M!Stream!After(At(k, n + 1), e))
      BY <1>3, <2>1, AddOne
    <3>2. QED BY <2>1, <3>1 DEF e
<1>4. ASSUME NEW k \in {"text", "tool_use"}, Leads(s0, s, At(k, n + 1))
      PROVE  Leads(s0, s \o <<M!Stream!BlockStop(n)>>, At("between", n + 1))
  <2> DEFINE e == M!Stream!BlockStop(n)
  <2>1. Kinded(e) /\ M!Stream!Allowed(At(k, n + 1), e)
        /\ M!Stream!After(At(k, n + 1), e) = At("between", n + 1)
    BY DEF M!Stream!BlockStop
  <2>2. QED
    <3> HIDE DEF e, At, Kinded, M!Stream!Allowed, M!Stream!After
    <3>1. Leads(s0, s \o <<e>>, M!Stream!After(At(k, n + 1), e))
      BY <1>4, <2>1, AddOne
    <3>2. QED BY <2>1, <3>1 DEF e
<1>5. ASSUME NEW why, Leads(s0, s, At("between", n))
      PROVE  Leads(s0, s \o <<M!Stream!MessageDelta(why)>>, At("closing", n))
  <2> DEFINE e == M!Stream!MessageDelta(why)
  <2>1. Kinded(e) /\ M!Stream!Allowed(At("between", n), e)
        /\ M!Stream!After(At("between", n), e) = At("closing", n)
    BY DEF M!Stream!MessageDelta
  <2>2. QED
    <3> HIDE DEF e, At, Kinded, M!Stream!Allowed, M!Stream!After
    <3>1. Leads(s0, s \o <<e>>, M!Stream!After(At("between", n), e))
      BY <1>5, <2>1, AddOne
    <3>2. QED BY <2>1, <3>1 DEF e
<1>6. ASSUME Leads(s0, s, At("closing", n))
      PROVE  Leads(s0, s \o <<M!Stream!MessageStop>>, At("done", n))
  <2> DEFINE e == M!Stream!MessageStop
  <2>1. Kinded(e) /\ M!Stream!Allowed(At("closing", n), e)
        /\ M!Stream!After(At("closing", n), e) = At("done", n)
    BY DEF M!Stream!MessageStop
  <2>2. QED
    <3> HIDE DEF e, At, Kinded, M!Stream!Allowed, M!Stream!After
    <3>1. Leads(s0, s \o <<e>>, M!Stream!After(At("closing", n), e))
      BY <1>6, <2>1, AddOne
    <3>2. QED BY <2>1, <3>1 DEF e
<1>7. QED BY <1>1, <1>2, <1>3, <1>4, <1>5, <1>6

-----------------------------------------------------------------------------
(* Blocks one after the other.                                             *)
FlatStep(h, seqs, i) == IF i = 1 THEN seqs[i] ELSE h[i-1] \o seqs[i]
FlatIter(seqs) == CHOOSE h : h = [i \in 1..Len(seqs) |-> FlatStep(h, seqs, i)]
Chained(h, seqs, n) ==
  /\ h[1] = seqs[1]
  /\ \A k \in Nat : k # 0 /\ k < n => h[k + 1] = h[k] \o seqs[k + 1]

LEMMA FlatSteps ==
  ASSUME NEW E, NEW n \in Nat, n # 0, NEW seqs, Len(seqs) = n,
         \A k \in 1..n : seqs[k] \in Seq(E)
  PROVE  /\ M!FlattenSeq(seqs) = FlatIter(seqs)[n]
         /\ Chained(FlatIter(seqs), seqs, n)
<1> DEFINE h == FlatIter(seqs)
           step == [p \in Seq(E) \X (1..n) |-> p[1] \o seqs[p[2]]]
<1>1. step \in [Seq(E) \X (1..n) -> Seq(E)]
  OBVIOUS
<1>2. PICK f \in [SUBSET (1..n) -> Seq(E)] : FoldOver(<<>>, step, n, f)
  <2> HIDE DEF step
  <2>1. <<>> \in Seq(E)  OBVIOUS
  <2>2. \A k \in Nat : k <= n =>
          \E f \in [SUBSET (1..k) -> Seq(E)] : FoldOver(<<>>, step, k, f)
    BY <1>1, <2>1, FoldExists
  <2>3. n <= n  OBVIOUS
  <2>4. QED BY <2>2, <2>3
<1>3. f[1..0] = <<>>
  <2>1. 1..0 = {} /\ {} \in SUBSET (1..n)  OBVIOUS
  <2>2. QED BY <2>1, <1>2 DEF FoldOver
<1>4. ASSUME NEW k \in 1..n PROVE f[1..k] = f[1..(k - 1)] \o seqs[k]
  <2>1. TopOf(1..k) = k
    <3>1. k - 1 \in Nat /\ (k - 1) + 1 = k  OBVIOUS
    <3>2. 1..k \in SUBSET (1..((k - 1) + 1)) /\ (k - 1) + 1 \in 1..k  OBVIOUS
    <3>3. TopOf(1..k) = (k - 1) + 1  BY <3>1, <3>2, LastIsMax
    <3>4. QED BY <3>1, <3>3
  <2>2. /\ (1..k) \ {k} = 1..(k - 1)
        /\ 1..k # {}
        /\ 1..k \in SUBSET (1..n)
        /\ 1..(k - 1) \in SUBSET (1..n)
    <3>1. (1..k) \ {k} = 1..(k - 1)  OBVIOUS
    <3>2. k \in 1..k  OBVIOUS
    <3>3. 1..k \in SUBSET (1..n) /\ 1..(k - 1) \in SUBSET (1..n)  OBVIOUS
    <3>4. QED BY <3>1, <3>2, <3>3
  <2>3. f[1..k] = step[<<f[1..(k - 1)], k>>]
    <3> HIDE DEF step
    <3> QED BY <1>2, <2>1, <2>2 DEF FoldOver
  <2>4. f[1..(k - 1)] \in Seq(E)
    BY <1>2, <2>2
  <2>5. QED BY <2>3, <2>4
<1> DEFINE g == [i \in 1..n |-> f[1..i]]
<1>5. g = [i \in 1..Len(seqs) |-> FlatStep(g, seqs, i)]
  <2>1. ASSUME NEW i \in 1..n PROVE g[i] = FlatStep(g, seqs, i)
    <3>1. CASE i = 1
      <4> HIDE DEF g, step
      <4>1. 1 \in 1..n /\ 1 - 1 = 0  OBVIOUS
      <4>4. f[1..1] = f[1..(1 - 1)] \o seqs[1]
        BY <1>4, <4>1
      <4>2. f[1..1] = seqs[1]
        BY <1>3, <4>1, <4>4
      <4>3. QED BY <3>1, <4>2 DEF FlatStep, g
    <3>2. CASE i # 1
      <4>1. i - 1 \in 1..n  BY <3>2
      <4>2. QED BY <1>4, <3>2, <4>1 DEF FlatStep
    <3>3. QED BY <3>1, <3>2
  <2>2. QED BY <2>1
<1>6. h = [i \in 1..Len(seqs) |-> FlatStep(h, seqs, i)]
  <2> HIDE DEF g
  <2> QED BY <1>5 DEF FlatIter
<1>7. M!FlattenSeq(seqs) = h[n]
  <2>1. Len(seqs) # 0  OBVIOUS
  <2>2. M!FlattenSeq(seqs) = h[Len(seqs)]
    BY <2>1, Zenon DEF M!FlattenSeq, FlatIter, FlatStep
  <2>3. QED BY <2>2
<1> HIDE DEF h
<1>8. \A k \in 1..n : h[k] = FlatStep(h, seqs, k)
  BY <1>6
<1>9. h[1] = seqs[1]
  <2>1. 1 \in 1..n  OBVIOUS
  <2>2. QED BY <2>1, <1>8 DEF FlatStep
<1>10. ASSUME NEW k \in Nat, k # 0 /\ k < n PROVE h[k + 1] = h[k] \o seqs[k + 1]
  <2>1. k + 1 \in 1..n /\ k + 1 # 1 /\ (k + 1) - 1 = k  BY <1>10
  <2>2. QED BY <1>8, <2>1 DEF FlatStep
<1>11. Chained(h, seqs, n)
  BY <1>9, <1>10 DEF Chained
<1>12. QED BY <1>7, <1>11 DEF h

LEMMA EventsTogether ==
  ASSUME NEW s, Events(s), NEW t, Events(t)
  PROVE  Events(s \o t)
<1>1. PICK E : s \in Seq(E) /\ \A e \in E : Kinded(e)
  BY DEF Events
<1>2. PICK G : t \in Seq(G) /\ \A e \in G : Kinded(e)
  BY DEF Events
<1> DEFINE H == E \cup G
<1>3. s \in Seq(H) /\ t \in Seq(H) /\ \A e \in H : Kinded(e)
  BY <1>1, <1>2
<1> HIDE DEF H
<1>4. s \o t \in Seq(H)
  BY <1>3
<1>5. QED BY <1>3, <1>4, EventsOver

LEMMA JoinsApart ==
  ASSUME NEW s, Events(s), NEW t, Events(t), NEW u, Events(u),
         NEW st, st = s \o t, NEW tu, tu = t \o u
  PROVE  st \o u = s \o tu
<1>1. PICK E : s \in Seq(E) /\ \A e \in E : Kinded(e)
  BY DEF Events
<1>2. PICK F_ : t \in Seq(F_) /\ \A e \in F_ : Kinded(e)
  BY DEF Events
<1>3. PICK G : u \in Seq(G) /\ \A e \in G : Kinded(e)
  BY DEF Events
<1> DEFINE H == E \cup F_ \cup G
<1>4. s \in Seq(H) /\ t \in Seq(H) /\ u \in Seq(H)
  BY <1>1, <1>2, <1>3
<1> HIDE DEF H
<1>5. st \in Seq(H) /\ tu \in Seq(H)
  BY <1>4
<1>6. st \o u \in Seq(H) /\ s \o tu \in Seq(H)
  BY <1>4, <1>5
<1>7. Len(st \o u) = Len(s \o tu)
  BY <1>4, <1>5, <1>6
<1>8. \A i \in 1..Len(st \o u) : (st \o u)[i] = (s \o tu)[i]
  BY <1>4, <1>5, <1>6, <1>7
<1>9. QED BY <1>6, <1>7, <1>8, SeqEqual

Joined(s, t, st) == st = s \o t

LEMMA Regroup ==
  ASSUME NEW s, Events(s), NEW t, Events(t), NEW u, Events(u),
         NEW st, Joined(s, t, st), NEW tu, Joined(t, u, tu), NEW x, Joined(st, u, x)
  PROVE  Joined(s, tu, x)
<1>1. st = s \o t /\ tu = t \o u
  BY DEF Joined
<1>2. st \o u = s \o tu
  BY <1>1, JoinsApart
<1>3. QED BY <1>2 DEF Joined

LEMMA OneEvent ==
  ASSUME NEW e, Kinded(e)
  PROVE  Events(<<e>>)
<1> DEFINE E == {e}
<1>1. <<e>> \in Seq(E) /\ \A x \in E : Kinded(x)  OBVIOUS
<1>2. QED
  <2> HIDE DEF E
  <2> QED BY <1>1, EventsOver

LEMMA ToolEvents ==
  ASSUME NEW i, NEW args
  PROVE  /\ Events(<<M!Stream!BlockStart(i, "tool_use", <<>>)>>)
         /\ Events(<<M!Stream!BlockDelta(i, "tool_use", args)>>)
         /\ Events(<<M!Stream!BlockStop(i)>>)
         /\ Events(M!ToolBlock(i, args))
<1>1. /\ Kinded(M!Stream!BlockStart(i, "tool_use", <<>>))
      /\ Kinded(M!Stream!BlockDelta(i, "tool_use", args))
      /\ Kinded(M!Stream!BlockStop(i))
  BY DEF Kinded, M!Stream!BlockStart, M!Stream!BlockDelta, M!Stream!BlockStop
<1> DEFINE a == <<M!Stream!BlockStart(i, "tool_use", <<>>)>>
           b == <<M!Stream!BlockDelta(i, "tool_use", args)>>
           c == <<M!Stream!BlockStop(i)>>
           m == IF args = <<>> THEN <<>> ELSE b
<1>2. Events(a) /\ Events(b) /\ Events(c)
  BY <1>1, OneEvent
<1>3. Events(<<>>)
  BY NoEvents
<1> HIDE DEF a, b, c
<1>4. Events(m)
  BY <1>2, <1>3
<1> HIDE DEF m
<1>5. Events((a \o m) \o c)
  BY <1>2, <1>4, EventsTogether
<1>6. M!ToolBlock(i, args) = (a \o m) \o c
  BY DEF M!ToolBlock, a, b, c, m
<1>7. QED BY <1>2, <1>5, <1>6 DEF a, b, c

LEMMA AddTool ==
  ASSUME NEW s0, NEW n0 \in Nat, Len(s0) = n0, NEW s, NEW n \in Nat,
         Leads(s0, s, At("between", n)), NEW args
  PROVE  Leads(s0, s \o M!ToolBlock(n, args), At("between", n + 1))
<1> DEFINE a == <<M!Stream!BlockStart(n, "tool_use", <<>>)>>
           b == <<M!Stream!BlockDelta(n, "tool_use", args)>>
           c == <<M!Stream!BlockStop(n)>>
           m == IF args = <<>> THEN <<>> ELSE b
<1>1. Leads(s0, s \o a, At("tool_use", n + 1))
  BY Adds
<1>2. Leads(s0, (s \o a) \o b, At("tool_use", n + 1))
  BY <1>1, Adds
<1>3. Leads(s0, (s \o a) \o m, At("tool_use", n + 1))
  <2>1. CASE args = <<>>
    <3>1. (s \o a) \o <<>> = s \o a
      <4> HIDE DEF a
      <4> QED BY <1>1, AddNothing DEF Leads
    <3>2. QED
      <4> HIDE DEF a, b
      <4> QED BY <1>1, <2>1, <3>1
  <2>2. CASE args # <<>>
    <3> HIDE DEF a, b
    <3> QED BY <1>2, <2>2
  <2>3. QED BY <2>1, <2>2
<1>4. Events(s) /\ Events(a) /\ Events(b) /\ Events(c) /\ Events(<<>>)
  BY ToolEvents, NoEvents DEF Leads
<1>5. Leads(s0, ((s \o a) \o m) \o c, At("between", n + 1))
  <2> HIDE DEF a, m
  <2>1. PICK u : u = (s \o a) \o m  OBVIOUS
  <2>2. Leads(s0, u, At("tool_use", n + 1))  BY <1>3, <2>1
  <2>3. Leads(s0, u \o c, At("between", n + 1))
    BY <2>2, Adds
  <2>4. QED BY <2>1, <2>3
<1>6. M!ToolBlock(n, args) = (a \o m) \o c
  BY DEF M!ToolBlock
<1>7. ((s \o a) \o m) \o c = s \o ((a \o m) \o c)
  <2> HIDE DEF a, b, c
  <2>1. Events(m)
    BY <1>4
  <2> HIDE DEF m
  <2>2. (s \o a) \o m = s \o (a \o m)
    <3>1. PICK st : st = s \o a  OBVIOUS
    <3>2. PICK tu : tu = a \o m  OBVIOUS
    <3>3. st \o m = s \o tu
      BY <1>4, <2>1, <3>1, <3>2, JoinsApart
    <3>4. QED BY <3>1, <3>2, <3>3
  <2>5. Events(a \o m)
    BY <1>4, <2>1, EventsTogether
  <2>3. (s \o (a \o m)) \o c = s \o ((a \o m) \o c)
    <3>1. PICK am : am = a \o m  OBVIOUS
    <3>2. PICK st : st = s \o am  OBVIOUS
    <3>3. PICK tu : tu = am \o c  OBVIOUS
    <3>4. Events(am)
      BY <2>5, <3>1
    <3>5. st \o c = s \o tu
      BY <1>4, <3>2, <3>3, <3>4, JoinsApart
    <3>6. QED BY <3>1, <3>2, <3>3, <3>5
  <2>4. QED BY <2>2, <2>3
<1>8. QED
  <2> HIDE DEF a, m, c
  <2> QED BY <1>5, <1>6, <1>7

LEMMA AddTools ==
  ASSUME NEW s0, NEW n0 \in Nat, Len(s0) = n0, NEW s, NEW first \in Nat,
         Leads(s0, s, At("between", first)), IsFiniteSet(DOMAIN calls)
  PROVE  \E n \in Nat : /\ n = Len(M!ToolOrder)
                        /\ Leads(s0, s \o M!ToolBlocks(first), At("between", first + n))
                        /\ Events(M!ToolBlocks(first))
<1> DEFINE n == Len(M!ToolOrder)
           Args(k) == calls[M!ToolOrder[k]]
           Block(k) == M!ToolBlock(first + k - 1, Args(k))
           seqs == [k \in 1..n |-> Block(k)]
<1>1. n \in Nat /\ DOMAIN M!ToolOrder = 1..n
  <2>1. M!Cardinality(DOMAIN calls) = Cardinality(DOMAIN calls)
    BY DEF M!Cardinality, Cardinality
  <2>2. Cardinality(DOMAIN calls) \in Nat
    BY FS_CardinalityType
  <2>3. PICK c \in Nat : c = M!Cardinality(DOMAIN calls)
    BY <2>1, <2>2
  <2> DEFINE Which(k) == CHOOSE i \in DOMAIN calls :
                           M!Cardinality({j \in DOMAIN calls : j < i}) = k - 1
  <2>4. M!ToolOrder = [k \in 1..c |-> Which(k)]
    BY <2>3 DEF M!ToolOrder
  <2>5. QED
    <3> HIDE DEF Which
    <3> QED BY <2>4
<1>2. M!ToolBlocks(first) = M!FlattenSeq(seqs)
  BY <1>1 DEF M!ToolBlocks
<1>3. Len(seqs) = n /\ \A k \in 1..n : seqs[k] = Block(k)
  <2> HIDE DEF n, Block
  <2> QED BY <1>1
<1>4. Events(s) /\ \A k : Events(Block(k))
  BY ToolEvents DEF Leads
<1>5. CASE n = 0
  <2> HIDE DEF n, Block
  <2>1. seqs = <<>>
    BY <1>5
  <2>2. M!FlattenSeq(seqs) = <<>>
    BY <1>3, <1>5, <2>1 DEF M!FlattenSeq
  <2>3. s \o <<>> = s
    BY <1>4, AddNothing
  <2>4. first + 0 = first  OBVIOUS
  <2>5. QED BY <1>1, <1>2, <1>5, <2>2, <2>3, <2>4, NoEvents DEF n
<1>6. CASE n # 0
  <2> DEFINE E == {M!Stream!BlockStart(i, "tool_use", <<>>) : i \in Int}
                    \cup {M!Stream!BlockStop(i) : i \in Int}
                    \cup {M!Stream!BlockDelta(i, "tool_use", Args(k)) : i \in Int, k \in 1..n}
  <2>1. ASSUME NEW k \in 1..n PROVE Block(k) \in Seq(E)
    <3>1. PICK i \in Int : i = first + k - 1
      BY <1>1
    <3> DEFINE x == M!Stream!BlockStart(i, "tool_use", <<>>)
               y == M!Stream!BlockDelta(i, "tool_use", Args(k))
               z == M!Stream!BlockStop(i)
    <3>2. x \in E /\ y \in E /\ z \in E
      <4> HIDE DEF n, Args
      <4> QED BY <2>1
    <3>3. Block(k) = <<x>> \o (IF Args(k) = <<>> THEN <<>> ELSE <<y>>) \o <<z>>
      BY <3>1 DEF M!ToolBlock
    <3> HIDE DEF E, x, y, z, Args, Block
    <3>4. <<x>> \in Seq(E) /\ <<y>> \in Seq(E) /\ <<z>> \in Seq(E) /\ <<>> \in Seq(E)
      BY <3>2
    <3>5. CASE Args(k) = <<>>
      BY <3>3, <3>4, <3>5
    <3>6. CASE Args(k) # <<>>
      BY <3>3, <3>4, <3>6
    <3>7. QED BY <3>5, <3>6
  <2> DEFINE h == FlatIter(seqs)
  <2>2. /\ M!FlattenSeq(seqs) = h[n]
        /\ h[1] = seqs[1]
        /\ \A k \in Nat : k # 0 /\ k < n => h[k + 1] = h[k] \o seqs[k + 1]
    <3> HIDE DEF n, seqs, E
    <3>1. \A k \in 1..n : seqs[k] \in Seq(E)
      BY <1>3, <2>1
    <3>2. Len(seqs) = n /\ n \in Nat /\ n # 0
      BY <1>1, <1>3, <1>6
    <3>3. M!FlattenSeq(seqs) = FlatIter(seqs)[n] /\ Chained(FlatIter(seqs), seqs, n)
      BY <3>1, <3>2, FlatSteps
    <3>4. QED BY <3>3 DEF Chained
  <2> HIDE DEF h, seqs, Block
  <2> DEFINE S == {k \in Nat : k # 0 /\ k <= n =>
                     Events(h[k]) /\ Leads(s0, s \o h[k], At("between", first + k))}
  <2>3. 0 \in S
    OBVIOUS
  <2>4. ASSUME NEW k \in Nat, k \in S PROVE k + 1 \in S
    <3>1. SUFFICES ASSUME k + 1 <= n
                   PROVE  /\ Events(h[k + 1])
                          /\ Leads(s0, s \o h[k + 1], At("between", first + (k + 1)))
      OBVIOUS
    <3> HIDE DEF n
    <3>2. PICK i \in Nat : i = first + k
      OBVIOUS
    <3>3. k + 1 \in 1..n /\ first + (k + 1) = i + 1 /\ first + (k + 1) - 1 = i
      BY <3>1, <3>2, <1>1
    <3>4. seqs[k + 1] = M!ToolBlock(i, Args(k + 1)) /\ Events(seqs[k + 1])
      BY <1>3, <1>4, <3>3 DEF Block
    <3>5. CASE k = 0
      <4>1. i = first /\ h[k + 1] = seqs[k + 1]  BY <2>2, <3>2, <3>5
      <4>2. Leads(s0, s \o M!ToolBlock(i, Args(k + 1)), At("between", i + 1))
        <5> HIDE DEF Args
        <5> QED BY <4>1, AddTool
      <4>3. QED BY <3>3, <3>4, <4>1, <4>2
    <3>6. CASE k # 0
      <4>1. k < n /\ k <= n  BY <3>1, <1>1
      <4>2. h[k + 1] = h[k] \o seqs[k + 1]  BY <2>2, <3>6, <4>1
      <4>3. Events(h[k]) /\ Leads(s0, s \o h[k], At("between", i))
        BY <2>4, <3>2, <3>6, <4>1
      <4>4. PICK u : u = s \o h[k]  OBVIOUS
      <4>5. Leads(s0, u, At("between", i))  BY <4>3, <4>4
      <4>6. Leads(s0, u \o M!ToolBlock(i, Args(k + 1)), At("between", i + 1))
        <5> HIDE DEF Args
        <5> QED BY <4>5, AddTool
      <4>10. PICK v : v = h[k] \o seqs[k + 1]  OBVIOUS
      <4>7. u \o seqs[k + 1] = s \o v
        <5>1. PICK x : x = h[k]  OBVIOUS
        <5>2. PICK y : y = seqs[k + 1]  OBVIOUS
        <5>3. Events(s) /\ Events(x) /\ Events(y)
          BY <1>4, <3>4, <4>3, <5>1, <5>2
        <5>4. u = s \o x /\ v = x \o y
          BY <4>4, <4>10, <5>1, <5>2
        <5>5. u \o y = s \o v
          BY <5>3, <5>4, JoinsApart
        <5>6. QED BY <5>2, <5>5
      <4>8. Events(h[k] \o seqs[k + 1])
        BY <3>4, <4>3, EventsTogether
      <4>9. QED BY <3>3, <3>4, <4>2, <4>6, <4>7, <4>8, <4>10
    <3>7. QED BY <3>5, <3>6
  <2>5. n \in S
    <3> HIDE DEF S
    <3> QED BY <1>1, <2>3, <2>4, AllNumbers
  <2>6. Events(h[n]) /\ Leads(s0, s \o h[n], At("between", first + n))
    <3>1. n <= n  BY <1>1
    <3>2. QED BY <1>6, <2>5, <3>1
  <2>7. QED BY <1>1, <1>2, <2>2, <2>6
<1>7. QED BY <1>5, <1>6

-----------------------------------------------------------------------------
(* The stream of a Messages client is at each step the beginning of a      *)
(* legal one: nothing before its start, and then the text block that is    *)
(* open, if any, is the last one.                                          *)
Writing ==
  \/ started = FALSE /\ sent = <<>> /\ openText = {} /\ next = 0
  \/ started = TRUE /\ openText = {} /\ PlaceAfter(sent) = At("between", next)
  \/ started = TRUE /\ \E m \in Nat : /\ openText = {m} /\ next = m + 1
                                      /\ PlaceAfter(sent) = At("text", next)
WriterInv ==
  /\ Events(sent)
  /\ path # "messages via chat" => sent = <<>>
  /\ path = "messages via chat" /\ body = "open" =>
       next \in Nat /\ DOMAIN calls \subseteq CallIndexes /\ Writing

LEMMA WriterInit == Init => WriterInv
<1> SUFFICES ASSUME Init PROVE WriterInv
  OBVIOUS
<1>1. started = FALSE /\ sent = <<>> /\ openText = {} /\ next = 0 /\ calls = <<>>
  BY DEF Init, M!Init
<1>2. DOMAIN calls \subseteq CallIndexes
  BY <1>1
<1>3. Writing
  BY <1>1, Zenon DEF Writing
<1>4. Events(sent)
  BY <1>1, NoEvents
<1>5. QED BY <1>1, <1>2, <1>3, <1>4 DEF WriterInv

(* Streams grow by what is written.                                        *)
LEMMA LegalGrowth ==
  ASSUME NEW s, NEW p, Leads(sent, s, p), p.phase # "illegal", sent' = s
  PROVE  Events(sent') /\ PlaceAfter(sent') = p /\ [M!Stream!Grow]_sent
<1>1. Events(s) /\ PlaceAfter(s) = p /\ M!Stream!IsPrefix(sent, s)
  BY DEF Leads
<1>2. M!Stream!Legal(s)
  BY <1>1, PositionsAgree DEF M!Stream!Legal
<1>3. CASE s = sent
  BY <1>1, <1>3
<1>4. CASE s # sent
  <2>1. M!Stream!IsStrictPrefix(sent, s)
    BY <1>1, <1>4 DEF M!Stream!IsStrictPrefix
  <2>2. QED BY <1>1, <1>2, <2>1 DEF M!Stream!Grow
<1>5. QED BY <1>3, <1>4

(* The text block that is open, if any, is the last one of a stream.       *)
Holds(s0, s, n, open) ==
  \/ open = {} /\ Leads(s0, s, At("between", n))
  \/ \E m \in Nat : open = {m} /\ n = m + 1 /\ Leads(s0, s, At("text", n))

LEMMA StartsOnce ==
  ASSUME WriterInv, path = "messages via chat", body = "open"
  PROVE  /\ Holds(sent, sent \o M!EmitMessageStart, next, openText)
         /\ Events(M!EmitMessageStart)
<1>1. next \in Nat /\ Writing /\ Events(sent)
  BY DEF WriterInv
<1>2. Leads(sent, sent, PlaceAfter(sent)) /\ sent \o <<>> = sent
  BY <1>1, LeadsFrom, AddNothing
<1>3. CASE started = FALSE
  <2>1. sent = <<>> /\ openText = {} /\ next = 0
    BY <1>1, <1>3 DEF Writing
  <2>2. PlaceAfter(sent) = At("before", 0)
    BY <2>1, PlaceAtStart DEF M!Stream!Beginning, At
  <2>3. Len(sent) = 0 /\ 0 \in Nat
    BY <2>1
  <2>4. Leads(sent, sent \o <<M!Stream!MessageStart>>, At("between", 0))
    BY <1>2, <2>2, <2>3, Adds
  <2>5. M!EmitMessageStart = <<M!Stream!MessageStart>>
    BY <1>3 DEF M!EmitMessageStart
  <2>6. Kinded(M!Stream!MessageStart)
    BY DEF Kinded, M!Stream!MessageStart
  <2>7. Events(M!EmitMessageStart)
    BY <2>5, <2>6, OneEvent
  <2>8. QED BY <2>1, <2>4, <2>5, <2>7 DEF Holds
<1>4. CASE started = TRUE
  <2>1. M!EmitMessageStart = <<>>
    BY <1>4 DEF M!EmitMessageStart
  <2>2. Leads(sent, sent \o M!EmitMessageStart, PlaceAfter(sent)) /\ Events(M!EmitMessageStart)
    BY <1>2, <2>1, NoEvents
  <2>3. QED BY <1>1, <1>4, <2>2 DEF Writing, Holds
<1>5. QED BY <1>1, <1>3, <1>4 DEF Writing

(* The events of one chunk, from what is open when it comes.               *)
ChunkEnds(s2, isText, hasCalls, block, parts, delta, closes, closing, left, s3) ==
  /\ delta = IF isText = TRUE
             THEN <<M!Stream!BlockDelta(CHOOSE i \in block : TRUE, "text", parts)>> ELSE <<>>
  /\ closes = (hasCalls = TRUE /\ block # {})
  /\ closing = IF closes THEN <<M!Stream!BlockStop(CHOOSE i \in block : TRUE)>> ELSE <<>>
  /\ left = IF closes THEN {} ELSE block
  /\ s3 = (s2 \o delta) \o closing

LEMMA ChunkAdds ==
  ASSUME NEW s0, NEW n0 \in Nat, Len(s0) = n0, NEW s1, NEW n \in Nat, NEW parts,
         NEW isText \in BOOLEAN, NEW hasCalls \in BOOLEAN, NEW block,
         Holds(s0, s1, n, block), block = {} => isText = FALSE,
         NEW delta, NEW closes, NEW closing, NEW left, NEW s3,
         ChunkEnds(s1, isText, hasCalls, block, parts, delta, closes, closing, left, s3)
  PROVE  Holds(s0, s3, n, left)
<1> USE DEF ChunkEnds
<1>0. block = {} \/ \E m \in Nat : block = {m} /\ n = m + 1 /\ Leads(s0, s1, At("text", n))
  BY DEF Holds
<1>1. Events(s1) /\ s1 \o <<>> = s1
  BY AddNothing DEF Leads, Holds
<1>2. CASE block = {}
  <2>1. delta = <<>> /\ closing = <<>> /\ left = {}
    BY <1>2
  <2>2. Leads(s0, s1, At("between", n))
    BY <1>2 DEF Holds
  <2>3. s3 = s1
    BY <1>1, <2>1
  <2>4. QED BY <2>1, <2>2, <2>3 DEF Holds
<1>3. ASSUME NEW m \in Nat, block = {m}, n = m + 1, Leads(s0, s1, At("text", n))
      PROVE  Holds(s0, s3, n, left)
  <2>1. (CHOOSE i \in block : TRUE) = m
    BY <1>3
  <2>2. PICK s2 : s2 = s1 \o delta
    OBVIOUS
  <2>3. Leads(s0, s2, At("text", n))
    <3>1. CASE isText = TRUE
      <4>1. delta = <<M!Stream!BlockDelta(m, "text", parts)>>
        BY <2>1, <3>1
      <4>2. Leads(s0, s1 \o <<M!Stream!BlockDelta(m, "text", parts)>>, At("text", m + 1))
        BY <1>3, Adds
      <4>3. QED BY <1>3, <2>2, <4>1, <4>2
    <3>2. CASE isText = FALSE
      BY <1>1, <1>3, <2>2, <3>2
    <3>3. QED BY <3>1, <3>2
  <2>4. s2 \o <<>> = s2 /\ s3 = s2 \o closing
    BY <2>2, <2>3, AddNothing DEF Leads
  <2>5. CASE hasCalls = TRUE
    <3>1. closing = <<M!Stream!BlockStop(m)>> /\ left = {}
      BY <1>3, <2>1, <2>5
    <3>2. Leads(s0, s2 \o <<M!Stream!BlockStop(m)>>, At("between", m + 1))
      BY <1>3, <2>3, Adds
    <3>3. QED BY <1>3, <2>4, <3>1, <3>2 DEF Holds
  <2>6. CASE hasCalls = FALSE
    <3>1. closing = <<>> /\ left = {m}
      BY <1>3, <2>6
    <3>2. QED BY <1>3, <2>3, <2>4, <3>1 DEF Holds
  <2>7. QED BY <2>5, <2>6
<1>4. QED BY <1>0, <1>2, <1>3

LEMMA LenOfEvents ==
  ASSUME NEW s, Events(s)
  PROVE  Len(s) \in Nat
<1>1. PICK E : s \in Seq(E) /\ \A e \in E : Kinded(e)
  BY DEF Events
<1>2. QED BY <1>1

ChunkStarts(s1, n, open, isText, fresh, block, after, opening, s2) ==
  /\ fresh = (isText = TRUE /\ open = {})
  /\ block = IF fresh THEN {n} ELSE open
  /\ after = IF fresh THEN n + 1 ELSE n
  /\ opening = IF fresh THEN <<M!Stream!BlockStart(n, "text", <<>>)>> ELSE <<>>
  /\ s2 = s1 \o opening

LEMMA TextOpens ==
  ASSUME NEW s0, NEW n0 \in Nat, Len(s0) = n0, NEW s1, NEW n \in Nat, NEW open,
         Holds(s0, s1, n, open), NEW isText \in BOOLEAN,
         NEW fresh, NEW block, NEW after, NEW opening, NEW s2,
         ChunkStarts(s1, n, open, isText, fresh, block, after, opening, s2)
  PROVE  /\ after \in Nat /\ Holds(s0, s2, after, block)
         /\ block = {} => isText = FALSE
<1> USE DEF ChunkStarts
<1>1. Events(s1) /\ s1 \o <<>> = s1
  BY AddNothing DEF Leads, Holds
<1>2. CASE isText = TRUE /\ open = {}
  <2>1. fresh = TRUE  BY <1>2
  <2>2. block = {n} /\ after = n + 1 /\ after \in Nat
        /\ opening = <<M!Stream!BlockStart(n, "text", <<>>)>>
    BY <2>1
  <2>3. Leads(s0, s1, At("between", n))
    BY <1>2 DEF Holds
  <2>4. Leads(s0, s1 \o <<M!Stream!BlockStart(n, "text", <<>>)>>, At("text", n + 1))
    BY <2>3, Adds
  <2>5. Leads(s0, s2, At("text", after))
    BY <2>2, <2>4
  <2>6. QED BY <1>2, <2>2, <2>5 DEF Holds
<1>3. CASE ~(isText = TRUE /\ open = {})
  <2>1. fresh = FALSE /\ (open = {} => isText = FALSE)
    BY <1>3
  <2>2. block = open /\ after = n /\ opening = <<>>
    BY <2>1
  <2>4. s2 = s1
    BY <1>1, <2>2
  <2>3. QED BY <2>1, <2>2, <2>4
<1>4. QED BY <1>2, <1>3


(* handle_chunk, by the values it reads and writes.                        *)
ChunkWrites(s1, n, open, isText, hasCalls, parts) ==
  \E fresh, block, after, opening, delta, closes, closing, left, s2, s3 :
    /\ ChunkStarts(s1, n, open, isText, fresh, block, after, opening, s2)
    /\ ChunkEnds(s2, isText, hasCalls, block, parts, delta, closes, closing, left, s3)
    /\ sent' = s3 /\ next' = after /\ openText' = left

LEMMA ChunkValues ==
  ASSUME NEW c \in M!Chunks, M!HandleChunk(c),
         NEW s1, s1 = sent \o M!EmitMessageStart, NEW n, n = next, NEW open, open = openText,
         NEW isText \in BOOLEAN, isText = c.text,
         NEW hasCalls \in BOOLEAN, hasCalls = (DOMAIN c.calls # {}),
         NEW parts, parts = <<Len(chunks) + 1>>
  PROVE  ChunkWrites(s1, n, open, isText, hasCalls, parts)
<1> DEFINE fresh == isText = TRUE /\ open = {}
<1>2. PICK block : block = IF fresh THEN {n} ELSE open  OBVIOUS
<1>3. PICK after : after = IF fresh THEN n + 1 ELSE n  OBVIOUS
<1>4. PICK opening : opening = IF fresh THEN <<M!Stream!BlockStart(n, "text", <<>>)>> ELSE <<>>
  OBVIOUS
<1>5. PICK piece :
        piece = <<M!Stream!BlockDelta(CHOOSE i \in block : TRUE, "text", parts)>>
  OBVIOUS
<1>6. PICK delta : delta = IF isText = TRUE THEN piece ELSE <<>>  OBVIOUS
<1> DEFINE closes == hasCalls = TRUE /\ block # {}
<1>7. PICK closing :
        closing = IF closes THEN <<M!Stream!BlockStop(CHOOSE i \in block : TRUE)>> ELSE <<>>
  OBVIOUS
<1>8. PICK left : left = IF closes THEN {} ELSE block  OBVIOUS
<1>9. PICK s2 : s2 = s1 \o opening  OBVIOUS
<1>10. PICK s3 : s3 = (s2 \o delta) \o closing  OBVIOUS
<1>11. sent' = s3 /\ next' = after /\ openText' = left
  <2>1. CASE isText = TRUE
    <3>1. c.text /\ (c.text /\ openText = {} <=> fresh)
      BY <2>1
    <3>2. CASE hasCalls = TRUE
      <4>1. DOMAIN c.calls # {}  BY <3>2
      <4>2. QED BY <1>2, <1>3, <1>4, <1>5, <1>6, <1>7, <1>8, <1>9, <1>10, <2>1, <3>1, <3>2, <4>1
              DEF M!HandleChunk
    <3>3. CASE hasCalls = FALSE
      <4>1. ~(DOMAIN c.calls # {})  BY <3>3
      <4>2. QED BY <1>2, <1>3, <1>4, <1>5, <1>6, <1>7, <1>8, <1>9, <1>10, <2>1, <3>1, <3>3, <4>1
              DEF M!HandleChunk
    <3>4. QED BY <3>2, <3>3
  <2>2. CASE isText = FALSE
    <3>1. ~c.text /\ ~fresh
      BY <2>2
    <3>2. CASE hasCalls = TRUE
      <4>1. DOMAIN c.calls # {}  BY <3>2
      <4>2. QED BY <1>2, <1>3, <1>4, <1>5, <1>6, <1>7, <1>8, <1>9, <1>10, <2>2, <3>1, <3>2, <4>1
              DEF M!HandleChunk
    <3>3. CASE hasCalls = FALSE
      <4>1. ~(DOMAIN c.calls # {})  BY <3>3
      <4>2. QED BY <1>2, <1>3, <1>4, <1>5, <1>6, <1>7, <1>8, <1>9, <1>10, <2>2, <3>1, <3>3, <4>1
              DEF M!HandleChunk
    <3>4. QED BY <3>2, <3>3
  <2>3. QED BY <2>1, <2>2
<1>12. ChunkStarts(s1, n, open, isText, fresh, block, after, opening, s2)
  BY <1>2, <1>3, <1>4, <1>9, Zenon DEF ChunkStarts
<1>13. ChunkEnds(s2, isText, hasCalls, block, parts, delta, closes, closing, left, s3)
  <2>1. delta = IF isText = TRUE
                THEN <<M!Stream!BlockDelta(CHOOSE i \in block : TRUE, "text", parts)>> ELSE <<>>
    BY <1>5, <1>6
  <2>2. QED BY <2>1, <1>7, <1>8, <1>10, Zenon DEF ChunkEnds
<1> HIDE DEF fresh, closes
<1>14. QED BY <1>11, <1>12, <1>13, Zenon DEF ChunkWrites

LEMMA ChunkWritten ==
  ASSUME WriterInv, path = "messages via chat", path' = path,
         NEW c \in M!Chunks, M!HandleChunk(c)
  PROVE  WriterInv' /\ [M!Stream!Grow]_sent
<1>1. /\ body = "open" /\ body' = body
      /\ calls' = M!Accumulate(c.calls, Len(chunks) + 1)
  BY DEF M!HandleChunk
<1>2. next \in Nat /\ Events(sent) /\ DOMAIN calls \subseteq CallIndexes
  BY <1>1 DEF WriterInv
<1>3. DOMAIN calls' \subseteq CallIndexes
  <2>1. DOMAIN c.calls \subseteq CallIndexes
    BY DEF M!Chunks, M!ContentChunks, M!FinalChunks, M!CallSets, M!NoCalls
  <2>2. DOMAIN calls' = DOMAIN calls \cup DOMAIN c.calls
    BY <1>1 DEF M!Accumulate
  <2>3. QED BY <1>2, <2>1, <2>2
<1>4. PICK isText \in BOOLEAN, hasCalls \in BOOLEAN :
        isText = c.text /\ hasCalls = (DOMAIN c.calls # {})
  BY DEF M!Chunks, M!ContentChunks, M!FinalChunks
<1>6. PICK s0, n, open, parts, s1 :
        /\ s0 = sent /\ n = next /\ open = openText /\ parts = <<Len(chunks) + 1>>
        /\ s1 = sent \o M!EmitMessageStart
  OBVIOUS
<1>7. PICK n0 \in Nat : n0 = Len(s0)
  BY <1>2, <1>6, LenOfEvents
<1>8. Holds(s0, s1, n, open) /\ n \in Nat
  BY <1>1, <1>2, <1>6, StartsOnce
<1>9. ChunkWrites(s1, n, open, isText, hasCalls, parts)
  BY <1>4, <1>6, ChunkValues
<1>10. PICK fresh, block, after, opening, delta, closes, closing, left, s2, s3 :
         /\ ChunkStarts(s1, n, open, isText, fresh, block, after, opening, s2)
         /\ ChunkEnds(s2, isText, hasCalls, block, parts, delta, closes, closing, left, s3)
         /\ sent' = s3 /\ next' = after /\ openText' = left
  BY <1>9, Zenon DEF ChunkWrites
<1>11. sent' = s3 /\ next' = after /\ openText' = left /\ started' = TRUE
  BY <1>10 DEF M!HandleChunk
<1>13. /\ after \in Nat /\ Holds(s0, s2, after, block)
       /\ block = {} => isText = FALSE
  BY <1>7, <1>8, <1>10, TextOpens
<1>14. Holds(s0, s3, after, left)
  BY <1>7, <1>10, <1>13, ChunkAdds
<1>15. CASE left = {} /\ Leads(s0, s3, At("between", after))
  <2>1. Events(sent') /\ PlaceAfter(sent') = At("between", after) /\ [M!Stream!Grow]_sent
    <3>1. PICK p : p = At("between", after)  OBVIOUS
    <3>2. p.phase # "illegal" /\ Leads(sent, s3, p)  BY <1>6, <1>15, <3>1 DEF At
    <3>3. QED BY <1>11, <3>1, <3>2, LegalGrowth
  <2>2. Writing'
    BY <1>11, <1>15, <2>1 DEF Writing
  <2>3. QED BY <1>1, <1>3, <1>11, <1>13, <2>1, <2>2 DEF WriterInv
<1>16. ASSUME NEW m \in Nat, left = {m}, after = m + 1, Leads(s0, s3, At("text", after))
       PROVE  WriterInv' /\ [M!Stream!Grow]_sent
  <2>1. Events(sent') /\ PlaceAfter(sent') = At("text", after) /\ [M!Stream!Grow]_sent
    <3>1. PICK p : p = At("text", after)  OBVIOUS
    <3>2. p.phase # "illegal" /\ Leads(sent, s3, p)  BY <1>6, <1>16, <3>1 DEF At
    <3>3. QED BY <1>11, <3>1, <3>2, LegalGrowth
  <2>2. Writing'
    BY <1>11, <1>16, <2>1 DEF Writing
  <2>3. QED BY <1>1, <1>3, <1>11, <1>13, <2>1, <2>2 DEF WriterInv
<1>17. QED BY <1>14, <1>15, <1>16 DEF Holds

(* What finish writes: the rest of the open block, the tools, the end.     *)
LEMMA CloseAdds ==
  ASSUME NEW s0, NEW n0 \in Nat, Len(s0) = n0, NEW s1, NEW n \in Nat, NEW open,
         Holds(s0, s1, n, open),
         NEW closing, closing = IF open = {} THEN <<>>
                                ELSE <<M!Stream!BlockStop(CHOOSE i \in open : TRUE)>>
  PROVE  Leads(s0, s1 \o closing, At("between", n)) /\ Events(closing)
<1>1. CASE open = {}
  <2>1. Leads(s0, s1, At("between", n)) /\ closing = <<>>
    BY <1>1 DEF Holds
  <2>2. s1 \o <<>> = s1
    BY <2>1, AddNothing DEF Leads
  <2>3. QED BY <2>1, <2>2, NoEvents
<1>2. ASSUME NEW m \in Nat, open = {m}, n = m + 1, Leads(s0, s1, At("text", n))
      PROVE  Leads(s0, s1 \o closing, At("between", n)) /\ Events(closing)
  <2>1. closing = <<M!Stream!BlockStop(m)>>
    BY <1>2
  <2>2. Leads(s0, s1 \o <<M!Stream!BlockStop(m)>>, At("between", m + 1))
    BY <1>2, Adds
  <2>3. QED BY <1>2, <2>1, <2>2, ToolEvents
<1>3. QED BY <1>1, <1>2 DEF Holds

LEMMA EndAdds ==
  ASSUME NEW s0, NEW n0 \in Nat, Len(s0) = n0, NEW s, NEW n \in Nat, NEW why,
         Leads(s0, s, At("between", n)),
         NEW end, end = <<M!Stream!MessageDelta(why), M!Stream!MessageStop>>
  PROVE  Leads(s0, s \o end, At("done", n)) /\ Events(end)
<1>1. PICK d : d = M!Stream!MessageDelta(why)  OBVIOUS
<1>2. PICK z : z = M!Stream!MessageStop  OBVIOUS
<1>3. Kinded(d) /\ Kinded(z)
  BY <1>1, <1>2 DEF Kinded, M!Stream!MessageDelta, M!Stream!MessageStop
<1>4. PICK ds : ds = <<d>>  OBVIOUS
<1>5. PICK zs : zs = <<z>>  OBVIOUS
<1>6. Events(ds) /\ Events(zs) /\ Events(s)
  BY <1>3, <1>4, <1>5, OneEvent DEF Leads
<1>7. end = ds \o zs
  BY <1>1, <1>2, <1>4, <1>5
<1>8. PICK s1 : s1 = s \o ds  OBVIOUS
<1>9. Leads(s0, s1, At("closing", n))
  BY <1>1, <1>4, <1>8, Adds
<1>10. Leads(s0, s1 \o zs, At("done", n))
  BY <1>2, <1>5, <1>9, Adds
<1>11. PICK s2 : s2 = s1 \o zs  OBVIOUS
<1>12. Joined(s, ds, s1) /\ Joined(ds, zs, end) /\ Joined(s1, zs, s2)
  BY <1>7, <1>8, <1>11 DEF Joined
<1>13. Joined(s, end, s2)
  BY <1>6, <1>12, Regroup
<1>14. Events(ds \o zs)
  BY <1>6, EventsTogether
<1>15. QED BY <1>7, <1>10, <1>11, <1>13, <1>14 DEF Joined

Apart(s0, opening, closing, tools, final, s) ==
  s = s0 \o (((opening \o closing) \o tools) \o final)
Finished(s0, opening, closing, tools, final) ==
  \E m \in Nat : Leads(s0, s0 \o (((opening \o closing) \o tools) \o final), At("done", m))

LEMMA FinishRegroups ==
  ASSUME NEW s0, Events(s0), NEW opening, Events(opening), NEW closing, Events(closing),
         NEW tools, Events(tools), NEW final, Events(final),
         NEW s1, Joined(s0, opening, s1), NEW s2, Joined(s1, closing, s2),
         NEW s3, Joined(s2, tools, s3), NEW s4, Joined(s3, final, s4)
  PROVE  Apart(s0, opening, closing, tools, final, s4)
<1>1. PICK t1 : t1 = opening \o closing  OBVIOUS
<1>2. PICK t2 : t2 = t1 \o tools  OBVIOUS
<1>3. PICK t3 : t3 = t2 \o final  OBVIOUS
<1>4. Joined(opening, closing, t1) /\ Joined(t1, tools, t2) /\ Joined(t2, final, t3)
  BY <1>1, <1>2, <1>3 DEF Joined
<1>5. Events(t1) /\ Events(t2)
  BY <1>1, <1>2, EventsTogether
<1>6. Joined(s0, t1, s2)
  BY <1>4, Regroup
<1>7. Joined(s0, t2, s3)
  BY <1>4, <1>5, <1>6, Regroup
<1>8. Joined(s0, t3, s4)
  BY <1>4, <1>5, <1>7, Regroup
<1>9. QED BY <1>1, <1>2, <1>3, <1>8 DEF Joined, Apart

LEMMA FinishAdds ==
  ASSUME NEW s0, NEW n0 \in Nat, Len(s0) = n0, Events(s0), NEW n \in Nat, NEW block,
         NEW opening, Events(opening), NEW s1, Joined(s0, opening, s1), Holds(s0, s1, n, block),
         NEW closing, closing = IF block = {} THEN <<>>
                                ELSE <<M!Stream!BlockStop(CHOOSE i \in block : TRUE)>>,
         IsFiniteSet(DOMAIN calls), NEW tools, tools = M!ToolBlocks(n),
         NEW why, NEW final, final = <<M!Stream!MessageDelta(why), M!Stream!MessageStop>>
  PROVE  Finished(s0, opening, closing, tools, final)
<1>1. PICK s2 : s2 = s1 \o closing  OBVIOUS
<1>2. Leads(s0, s2, At("between", n)) /\ Events(closing)
  BY <1>1, CloseAdds
<1>3. PICK s3 : s3 = s2 \o tools  OBVIOUS
<1>4. PICK k : k \in Nat /\ Leads(s0, s3, At("between", n + k)) /\ Events(tools)
  BY <1>2, <1>3, AddTools
<1>5. PICK m \in Nat : m = n + k
  BY <1>4
<1>6. PICK s4 : s4 = s3 \o final  OBVIOUS
<1>7. Leads(s0, s4, At("done", m)) /\ Events(final)
  BY <1>4, <1>5, <1>6, EndAdds
<1>8. Joined(s1, closing, s2) /\ Joined(s2, tools, s3) /\ Joined(s3, final, s4)
  BY <1>1, <1>3, <1>6 DEF Joined
<1>9. Apart(s0, opening, closing, tools, final, s4)
  BY <1>2, <1>4, <1>7, <1>8, FinishRegroups
<1>10. QED BY <1>5, <1>7, <1>9 DEF Finished, Apart

LEMMA FinishWritten ==
  ASSUME WriterInv, path = "messages via chat", path' = path,
         NEW how \in {"ended", "failed"}, M!Finish(how)
  PROVE  WriterInv' /\ [M!Stream!Grow]_sent
<1>1. /\ body = "open" /\ body' = how /\ how # "open"
      /\ sent' = IF how = "ended" THEN sent \o M!FinalEvents ELSE sent
  BY DEF M!Finish
<1>2. next \in Nat /\ Events(sent) /\ DOMAIN calls \subseteq CallIndexes
  BY <1>1 DEF WriterInv
<1>3. CASE how = "failed"
  <2>1. sent' = sent
    BY <1>1, <1>3
  <2>2. Events(sent')
    BY <1>2, <2>1
  <2>3. QED BY <1>1, <2>1, <2>2 DEF WriterInv
<1>4. CASE how = "ended"
  <2>1. IsFiniteSet(DOMAIN calls)
    BY <1>2, StreamAssumption, FS_Subset
  <2>2. PICK s0 : s0 = sent  OBVIOUS
  <2>3. PICK n : n = next /\ n \in Nat  BY <1>2
  <2>4. PICK block : block = openText  OBVIOUS
  <2>5. PICK opening : opening = M!EmitMessageStart  OBVIOUS
  <2>6. PICK closing : closing = M!CloseTextBlock  OBVIOUS
  <2>7. PICK tools : tools = M!ToolBlocks(n)  OBVIOUS
  <2>8. PICK why : why = M!MappedStopReason  OBVIOUS
  <2>9. PICK final : final = <<M!Stream!MessageDelta(why), M!Stream!MessageStop>>  OBVIOUS
  <2>10. PICK n0 : n0 = Len(s0) /\ n0 \in Nat
    BY <1>2, <2>2, LenOfEvents
  <2>11. PICK s1 : s1 = s0 \o opening  OBVIOUS
  <2>12. Holds(s0, s1, n, block) /\ Events(opening) /\ Events(s0) /\ Joined(s0, opening, s1)
    BY <1>1, <1>2, <2>2, <2>3, <2>4, <2>5, <2>11, StartsOnce DEF Joined
  <2>13. closing = IF block = {} THEN <<>>
                   ELSE <<M!Stream!BlockStop(CHOOSE i \in block : TRUE)>>
    <3>1. block = {} \/ \E m \in Nat : block = {m}
      BY <2>12 DEF Holds
    <3>2. CASE block = {}
      BY <2>4, <2>6, <3>2 DEF M!CloseTextBlock
    <3>3. ASSUME NEW m \in Nat, block = {m}
          PROVE  closing = <<M!Stream!BlockStop(m)>> /\ (CHOOSE i \in block : TRUE) = m
      <4>1. openText = {m} /\ openText # {} /\ (CHOOSE i \in openText : TRUE) = m
        BY <2>4, <3>3
      <4>2. closing = <<M!Stream!BlockStop(CHOOSE i \in openText : TRUE)>>
        BY <2>6, <4>1 DEF M!CloseTextBlock
      <4>3. QED BY <3>3, <4>1, <4>2
    <3>4. QED BY <3>1, <3>2, <3>3
  <2>14. Finished(s0, opening, closing, tools, final)
    BY <2>1, <2>3, <2>7, <2>9, <2>10, <2>12, <2>13, FinishAdds
  <2>15. M!FinalEvents = ((opening \o closing) \o tools) \o final
    BY <2>3, <2>5, <2>6, <2>7, <2>8, <2>9 DEF M!FinalEvents
  <2>16. PICK p : p.phase # "illegal" /\ Leads(sent, sent \o M!FinalEvents, p)
    <3>1. PICK m \in Nat : Leads(s0, s0 \o M!FinalEvents, At("done", m))
      BY <2>14, <2>15 DEF Finished
    <3>2. At("done", m).phase # "illegal"
      BY DEF At
    <3>3. QED BY <2>2, <3>1, <3>2
  <2>17. PICK s4 : s4 = sent \o M!FinalEvents  OBVIOUS
  <2>18. sent' = s4 /\ Leads(sent, s4, p)
    BY <1>1, <1>4, <2>16, <2>17
  <2>19. Events(sent') /\ [M!Stream!Grow]_sent
    BY <2>16, <2>18, LegalGrowth
  <2>20. QED BY <1>1, <2>19 DEF WriterInv
<1>5. QED BY <1>3, <1>4

LEMMA WriterStep ==
  ASSUME WriterInv, [Next]_vars
  PROVE  WriterInv' /\ [M!Stream!Grow]_sent
<1>1. CASE MessagesStep
  <2>1. path = "messages via chat" /\ path' = path /\ M!Next
    BY <1>1 DEF MessagesStep
  <2>2. ASSUME NEW c \in M!Chunks, M!HandleChunk(c)
        PROVE  WriterInv' /\ [M!Stream!Grow]_sent
    BY <2>1, <2>2, ChunkWritten
  <2>3. CASE M!EndpointEnds
    BY <2>1, <2>3, FinishWritten DEF M!EndpointEnds
  <2>4. CASE M!EndpointFails
    BY <2>1, <2>4, FinishWritten DEF M!EndpointFails
  <2>5. QED BY <2>1, <2>2, <2>3, <2>4 DEF M!Next
<1>2. CASE ResponsesStep \/ ChatStep
  <2>1. path # "messages via chat" /\ path' = path /\ sent' = sent
    BY <1>2 DEF ResponsesStep, ChatStep, toMessages
  <2>2. Events(sent')
    BY <2>1 DEF WriterInv
  <2>3. QED BY <2>1, <2>2 DEF WriterInv
<1>3. CASE UNCHANGED vars
  <2>1. /\ path' = path /\ sent' = sent /\ openText' = openText /\ next' = next
        /\ calls' = calls /\ body' = body /\ started' = started
    BY <1>3 DEF vars, toMessages
  <2>2. Events(sent')
    BY <2>1 DEF WriterInv
  <2>3. Writing' = Writing
    BY <2>1 DEF Writing
  <2>4. QED BY <2>1, <2>2, <2>3 DEF WriterInv
<1>4. QED BY <1>1, <1>2, <1>3 DEF Next

(* ChatToAnthropic implements the promise of MessageStream: whatever the   *)
(* endpoint sends, and however its body ends, what a Messages client has   *)
(* been sent grows at each step and stays the beginning of a legal stream. *)
THEOREM WriterIsLegal == Spec => StreamIsLegal
<1>1. Init => WriterInv
  BY WriterInit
<1>2. WriterInv /\ [Next]_vars => WriterInv' /\ [M!Stream!Grow]_sent
  BY WriterStep
<1>3. Init => M!Stream!Init
  BY DEF Init, M!Init, M!Stream!Init
<1>4. QED BY <1>1, <1>2, <1>3, PTL DEF Spec, StreamIsLegal, M!StreamIsLegal, M!Stream!Spec

-----------------------------------------------------------------------------
(* Types.  The items of a response, whatever their parts are.              *)
ItemKinds == R!Kinds \cup {"function_call", "reserved"}
Items(o) == \E E : o \in Seq(E) /\ \A x \in E : x.kind \in ItemKinds

(* The reader of an upstream knows the next block's index; fewer tools     *)
(* than blocks have been announced to a Chat client.                       *)
TypeInv ==
  /\ TypeOK
  /\ WriterInv
  /\ Events(received)
  /\ Items(output)
  /\ DOMAIN toolIndex \subseteq 0 .. (MaxBlocks - 1)

LEMMA ItemsOver ==
  ASSUME NEW E, NEW o \in Seq(E), \A x \in E : x.kind \in ItemKinds
  PROVE  Items(o)
  BY DEF Items

LEMMA MoreItems ==
  ASSUME NEW o, Items(o), NEW x, x.kind \in ItemKinds
  PROVE  /\ Items(Append(o, x)) /\ Len(o) \in Nat /\ Len(Append(o, x)) = Len(o) + 1
         /\ \A i \in 1 .. Len(o) : Items([o EXCEPT ![i] = x]) /\ Len([o EXCEPT ![i] = x]) = Len(o)
<1>1. PICK E : o \in Seq(E) /\ \A y \in E : y.kind \in ItemKinds
  BY DEF Items
<1> DEFINE G == E \cup {x}
<1>2. o \in Seq(G) /\ x \in G /\ \A y \in G : y.kind \in ItemKinds
  BY <1>1
<1> HIDE DEF G
<1>3. Append(o, x) \in Seq(G) /\ Len(o) \in Nat /\ Len(Append(o, x)) = Len(o) + 1
  BY <1>2
<1>4. Items(Append(o, x))
  BY <1>2, <1>3, ItemsOver
<1>5. ASSUME NEW i \in 1 .. Len(o)
      PROVE  Items([o EXCEPT ![i] = x]) /\ Len([o EXCEPT ![i] = x]) = Len(o)
  <2>1. [o EXCEPT ![i] = x] \in Seq(G) /\ Len([o EXCEPT ![i] = x]) = Len(o)
    BY <1>2
  <2>2. QED BY <1>2, <2>1, ItemsOver
<1>6. QED BY <1>3, <1>4, <1>5

LEMMA KindsOfItems ==
  ASSUME NEW o, Items(o)
  PROVE  /\ Len(o) \in Nat
         /\ \A i \in DOMAIN o : o[i].kind \in ItemKinds
<1>1. PICK E : o \in Seq(E) /\ \A y \in E : y.kind \in ItemKinds
  BY DEF Items
<1>2. QED BY <1>1

LEMMA TypeInvInit == Init => TypeInv
<1> SUFFICES ASSUME Init PROVE TypeInv
  OBVIOUS
<1>1. M!Init /\ R!Init /\ C!Init /\ path \in Paths
  BY DEF Init
<1>2. M!TypeOK
  <2>1. /\ chunks = <<>> /\ body = "open" /\ started = FALSE /\ next = 0 /\ openText = {}
        /\ calls = <<>> /\ reason = "none"
    BY <1>1 DEF M!Init
  <2>2. chunks \in Seq(M!Chunks) /\ DOMAIN calls \subseteq CallIndexes
        /\ \A i \in DOMAIN calls : calls[i] \in Seq(1 .. MaxChunks)
    BY <2>1
  <2>3. QED BY <2>1, <2>2 DEF M!TypeOK, M!Reasons
<1>3. R!TypeOK /\ Items(output)
  <2>1. /\ kind \in R!Kinds /\ body = "open" /\ toolBlocks = <<>> /\ output = <<>>
        /\ textSlot = {} /\ completed = FALSE
    BY <1>1 DEF R!Init
  <2> DEFINE none == {}
  <2>2. output \in Seq(none) /\ DOMAIN output = {} /\ DOMAIN toolBlocks = {}
    BY <2>1
  <2>3. \A x \in none : x.kind \in ItemKinds  OBVIOUS
  <2> HIDE DEF none
  <2>4. Items(output)
    BY <2>2, <2>3, ItemsOver
  <2>5. QED BY <2>1, <2>2, <2>4 DEF R!TypeOK
<1>4. C!TypeOK /\ DOMAIN toolIndex \subseteq 0 .. (MaxBlocks - 1)
  <2>1. /\ body = "open" /\ includeUsage \in BOOLEAN /\ toolIndex = <<>>
        /\ started = FALSE /\ finished = FALSE
    BY <1>1, Zenon DEF C!Init
  <2>2. DOMAIN toolIndex = {}
    BY <2>1
  <2>3. QED BY <2>1, <2>2 DEF C!TypeOK
<1>5. Events(received)
  <2>1. received = <<>>
    BY <1>1 DEF R!Init
  <2>2. QED BY <2>1, NoEvents
<1>6. QED BY <1>1, <1>2, <1>3, <1>4, <1>5, WriterInit DEF TypeInv, TypeOK

-----------------------------------------------------------------------------
(* ChatToAnthropic.                                                        *)
LEMMA GatheredTypes ==
  ASSUME M!TypeOK, NEW c \in M!Chunks, NEW n \in 1 .. MaxChunks
  PROVE  LET calls2 == M!Accumulate(c.calls, n) IN
         /\ DOMAIN calls2 \subseteq CallIndexes
         /\ \A i \in DOMAIN calls2 : calls2[i] \in Seq(1 .. MaxChunks)
<1> DEFINE old(i) == IF i \in DOMAIN calls THEN calls[i] ELSE <<>>
           new(i) == IF i \in DOMAIN c.calls /\ c.calls[i] THEN <<n>> ELSE <<>>
<1>1. M!Accumulate(c.calls, n) =
        [i \in DOMAIN calls \cup DOMAIN c.calls |-> old(i) \o new(i)]
  BY DEF M!Accumulate
<1>2. DOMAIN calls \subseteq CallIndexes /\ \A i \in DOMAIN calls : calls[i] \in Seq(1 .. MaxChunks)
  BY DEF M!TypeOK
<1>3. DOMAIN c.calls \subseteq CallIndexes
  BY DEF M!Chunks, M!ContentChunks, M!FinalChunks, M!CallSets, M!NoCalls
<1>4. ASSUME NEW i PROVE old(i) \o new(i) \in Seq(1 .. MaxChunks)
  <2>2. <<n>> \in Seq(1 .. MaxChunks) /\ <<>> \in Seq(1 .. MaxChunks)
    OBVIOUS
  <2>1. old(i) \in Seq(1 .. MaxChunks)
    <3>1. CASE i \in DOMAIN calls
      <4>1. old(i) = calls[i]  BY <3>1
      <4> HIDE DEF old
      <4>2. QED BY <1>2, <3>1, <4>1
    <3>2. CASE i \notin DOMAIN calls
      <4>1. old(i) = <<>>  BY <3>2
      <4>2. QED BY <2>2, <4>1
    <3>3. QED BY <3>1, <3>2
  <2>3. new(i) \in Seq(1 .. MaxChunks)
    BY <2>2
  <2> HIDE DEF old, new
  <2>4. QED BY <2>1, <2>3
<1> HIDE DEF old, new
<1>5. QED BY <1>1, <1>2, <1>3, <1>4

LEMMA Successors == DOMAIN <<>> = {} /\ \A n \in Nat : (n + 1) - 1 = n
  OBVIOUS

LEMMA ChunkCounts ==
  ASSUME M!TypeOK, NEW c \in M!Chunks, M!HandleChunk(c)
  PROVE  /\ \E n \in 1 .. MaxChunks : n = Len(chunks) + 1
         /\ chunks' \in Seq(M!Chunks)
<1>1. chunks' = Append(chunks, c) /\ Len(chunks) < MaxChunks
  BY DEF M!HandleChunk
<1>2. chunks \in Seq(M!Chunks) /\ MaxChunks \in Nat
  BY StreamAssumption DEF M!TypeOK
<1>3. Len(chunks) \in Nat /\ Append(chunks, c) \in Seq(M!Chunks)
  BY <1>2
<1>4. QED BY <1>1, <1>2, <1>3

LEMMA ChunkTypes ==
  ASSUME M!TypeOK, next \in Nat, NEW c \in M!Chunks, M!HandleChunk(c)
  PROVE  M!TypeOK'
<1>1. /\ openText \in {{}, {next - 1}} /\ reason \in M!Reasons
      /\ body \in {"open", "ended", "failed"}
  BY DEF M!TypeOK
<1>2. /\ started' = TRUE /\ body' = body
      /\ calls' = M!Accumulate(c.calls, Len(chunks) + 1)
      /\ reason' = IF c.reason = "none" THEN reason ELSE c.reason
  BY DEF M!HandleChunk
<1>3. PICK n \in 1 .. MaxChunks : n = Len(chunks) + 1
  BY ChunkCounts
<1>4. chunks' \in Seq(M!Chunks)
  BY ChunkCounts
<1>5. DOMAIN calls' \subseteq CallIndexes /\ \A i \in DOMAIN calls' : calls'[i] \in Seq(1 .. MaxChunks)
  BY <1>2, <1>3, GatheredTypes
<1>6. reason' \in M!Reasons
  BY <1>1, <1>2 DEF M!Chunks, M!ContentChunks, M!FinalChunks, M!Reasons
<1>7. openText' \in {{}, {next' - 1}}
  <2>1. CASE c.text /\ openText = {}
    <3>1. next' = next + 1 /\ openText' \in {{}, {next}}
      BY <2>1 DEF M!HandleChunk
    <3>2. (next + 1) - 1 = next  BY Successors
    <3>3. QED BY <3>1, <3>2
  <2>2. CASE ~(c.text /\ openText = {})
    <3>1. next' = next /\ openText' \in {{}, openText}
      BY <2>2 DEF M!HandleChunk
    <3>2. QED BY <1>1, <3>1
  <2>3. QED BY <2>1, <2>2
<1>8. QED BY <1>1, <1>2, <1>4, <1>5, <1>6, <1>7 DEF M!TypeOK

LEMMA WriterTypes ==
  ASSUME TypeInv, path = "messages via chat", M!Next
  PROVE  M!TypeOK'
<1>1. body = "open"
  BY DEF M!Next, M!HandleChunk, M!EndpointEnds, M!EndpointFails, M!Finish
<1>2. M!TypeOK /\ next \in Nat
  BY <1>1 DEF TypeInv, TypeOK, WriterInv
<1>3. ASSUME NEW how \in {"ended", "failed"}, M!Finish(how) PROVE M!TypeOK'
  <2>1. /\ body' = how /\ started' = TRUE /\ openText' = {} /\ calls' = <<>>
        /\ chunks' = chunks /\ reason' = reason
    BY <1>3 DEF M!Finish
  <2>2. DOMAIN calls' = {}
    BY <2>1, Successors
  <2>3. QED BY <1>2, <2>1, <2>2 DEF M!TypeOK
<1>4. QED BY <1>2, <1>3, ChunkTypes DEF M!Next, M!EndpointEnds, M!EndpointFails

-----------------------------------------------------------------------------
(* The two readers of an upstream.                                         *)
LEMMA NextBlock ==
  ASSUME Events(received)
  PROVE  \E p \in Places : R!Upstream!Position(received) = p /\ C!Upstream!Position(received) = p
<1>1. PICK s : s = received  OBVIOUS
<1>2. Events(s)
  BY <1>1
<1>3. PICK n \in Nat : n = Len(s)
  BY <1>2, LenOfEvents
<1>4. PlaceAfter(s) \in Places
  BY <1>2, <1>3, PlaceIsPlace
<1>5. R!Upstream!Position(s) = PlaceAfter(s) /\ C!Upstream!Position(s) = PlaceAfter(s)
  BY PositionsAgree
<1>6. QED BY <1>1, <1>4, <1>5

LEMMA ResponsesReads ==
  ASSUME TypeInv, NEW e \in R!Upstream!Candidates, R!Receive(e)
  PROVE  /\ Events(received')
         /\ e.type = "content_block_start" => e.index \in 0 .. (MaxBlocks - 1)
<1>1. R!Upstream!Extend(e) /\ Events(received)
  BY DEF R!Receive, TypeInv
<1>2. PICK p \in Places : p = R!Upstream!Position(received)
  BY <1>1, NextBlock
<1>3. Kinded(e)
  BY DEF R!Upstream!Candidates, Kinded, R!Upstream!MessageStart, R!Upstream!MessageDelta,
    R!Upstream!MessageStop, R!Upstream!UpstreamError, R!Upstream!BlockStop,
    R!Upstream!BlockStart, R!Upstream!BlockDelta
<1>4. received' = Append(received, e)
  BY <1>1 DEF R!Upstream!Extend
<1>5. Events(received')
  BY <1>1, <1>3, <1>4, PlaceOfNext
<1>6. ASSUME e.type = "content_block_start" PROVE e.index \in 0 .. (MaxBlocks - 1)
  <2>1. e.index = p.next /\ e.index < MaxBlocks
    BY <1>1, <1>2, <1>6 DEF R!Upstream!Extend, R!Upstream!Allowed
  <2>2. p.next \in Nat /\ MaxBlocks \in Nat
    BY <1>2, StreamAssumption DEF Places
  <2>3. QED BY <2>1, <2>2
<1>7. QED BY <1>5, <1>6

LEMMA ChatReads ==
  ASSUME TypeInv, NEW e \in C!Upstream!Candidates, C!Receive(e)
  PROVE  /\ Events(received')
         /\ e.type = "content_block_start" => e.index \in 0 .. (MaxBlocks - 1)
<1>1. C!Upstream!Extend(e) /\ Events(received)
  BY DEF C!Receive, TypeInv
<1>2. PICK p \in Places : p = C!Upstream!Position(received)
  BY <1>1, NextBlock
<1>3. Kinded(e)
  BY DEF C!Upstream!Candidates, Kinded, C!Upstream!MessageStart, C!Upstream!MessageDelta,
    C!Upstream!MessageStop, C!Upstream!UpstreamError, C!Upstream!BlockStop,
    C!Upstream!BlockStart, C!Upstream!BlockDelta
<1>4. received' = Append(received, e)
  BY <1>1 DEF C!Upstream!Extend
<1>5. Events(received')
  BY <1>1, <1>3, <1>4, PlaceOfNext
<1>6. ASSUME e.type = "content_block_start" PROVE e.index \in 0 .. (MaxBlocks - 1)
  <2>1. e.index = p.next /\ e.index < MaxBlocks
    BY <1>1, <1>2, <1>6 DEF C!Upstream!Extend, C!Upstream!Allowed
  <2>2. p.next \in Nat /\ MaxBlocks \in Nat
    BY <1>2, StreamAssumption DEF Places
  <2>3. QED BY <2>1, <2>2
<1>7. QED BY <1>5, <1>6

(* What becomes of the items and the reserved slot.                        *)
SlotOK(o, slot) == slot = {} \/ \E i \in 0 .. (Len(o) - 1) : slot = {i}
Held(slot) == CHOOSE i \in slot : TRUE
SlotStep(o, slot, x, o2, s2) ==
  \/ slot = {} /\ o2 = Append(o, x) /\ s2 \in {{}, {Len(o)}}
  \/ slot # {} /\ o2 \in {o, [o EXCEPT ![Held(slot) + 1] = x]} /\ s2 \in {slot, {Held(slot)}}
  \/ o2 \in {o, Append(o, x)} /\ s2 = slot

LEMMA Reserves ==
  ASSUME NEW o, Items(o), NEW x, x.kind \in ItemKinds, NEW slot, SlotOK(o, slot),
         NEW s2, NEW o2, SlotStep(o, slot, x, o2, s2)
  PROVE  Items(o2) /\ SlotOK(o2, s2)
<1>1. /\ Len(o) \in Nat /\ Items(Append(o, x)) /\ Len(Append(o, x)) = Len(o) + 1
      /\ \A i \in 1 .. Len(o) : Items([o EXCEPT ![i] = x]) /\ Len([o EXCEPT ![i] = x]) = Len(o)
  BY MoreItems
<1>2. CASE slot = {} /\ o2 = Append(o, x) /\ s2 \in {{}, {Len(o)}}
  <2>1. Items(o2) /\ Len(o) \in 0 .. (Len(o2) - 1)
    BY <1>1, <1>2
  <2>2. QED BY <1>2, <2>1 DEF SlotOK
<1>3. ASSUME slot # {}, o2 \in {o, [o EXCEPT ![Held(slot) + 1] = x]},
             s2 \in {slot, {Held(slot)}}
      PROVE  Items(o2) /\ SlotOK(o2, s2)
  <2>1. PICK i \in 0 .. (Len(o) - 1) : slot = {i}
    BY <1>3 DEF SlotOK
  <2>2. Held(slot) = i
    BY <2>1 DEF Held
  <2>6. i + 1 \in 1 .. Len(o)
    BY <1>1, <2>1
  <2>3. s2 = {i} /\ o2 \in {o, [o EXCEPT ![i + 1] = x]} /\ i + 1 \in 1 .. Len(o)
    BY <1>3, <2>1, <2>2, <2>6
  <2>4. Items(o2) /\ Len(o2) = Len(o)
    BY <1>1, <2>3
  <2>5. QED BY <2>1, <2>3, <2>4 DEF SlotOK
<1>4. CASE o2 \in {o, Append(o, x)} /\ s2 = slot
  <2>1. Items(o2) /\ (Len(o2) = Len(o) \/ Len(o2) = Len(o) + 1)
    BY <1>1, <1>4
  <2>2. SlotOK(o2, slot)
    <3>1. ASSUME NEW i \in 0 .. (Len(o) - 1), slot = {i} PROVE SlotOK(o2, slot)
      <4>1. i \in 0 .. (Len(o2) - 1)  BY <1>1, <2>1
      <4>2. QED BY <3>1, <4>1 DEF SlotOK
    <3>2. QED BY <3>1 DEF SlotOK
  <2>3. QED BY <1>4, <2>1, <2>2
<1>5. QED BY <1>2, <1>3, <1>4 DEF SlotStep

LEMMA BlockBounds ==
  /\ 0 .. (MaxBlocks - 1) \subseteq 0 .. MaxBlocks
  /\ \A i \in 0 .. (MaxBlocks - 1) : i \in 0 .. MaxBlocks
  BY StreamAssumption

(* AnthropicToResponses.                                                   *)
ItemsFine ==
  /\ Items(output) /\ SlotOK(output, textSlot) /\ DOMAIN toolBlocks \subseteq 0 .. MaxBlocks
  /\ completed \in BOOLEAN /\ kind \in R!Kinds

LEMMA SlotMoves ==
  ASSUME ItemsFine, NEW x, x.kind \in ItemKinds,
         SlotStep(output, textSlot, x, output', textSlot')
  PROVE  Items(output') /\ SlotOK(output', textSlot')
<1>1. PICK o : o = output  OBVIOUS
<1>2. PICK slot : slot = textSlot  OBVIOUS
<1>3. PICK o2 : o2 = output'  OBVIOUS
<1>4. PICK s2 : s2 = textSlot'  OBVIOUS
<1>5. Items(o) /\ SlotOK(o, slot) /\ SlotStep(o, slot, x, o2, s2)
  BY <1>1, <1>2, <1>3, <1>4 DEF ItemsFine
<1>6. QED BY <1>3, <1>4, <1>5, Reserves

LEMMA FinishItems ==
  ASSUME ItemsFine, R!Finish
  PROVE  SlotStep(output, textSlot, R!Item(kind, text), output', textSlot') /\ completed' \in BOOLEAN
<1> DEFINE item == R!Item(kind, text)
<1>1. completed' = TRUE /\ textSlot' = textSlot
  BY DEF R!Finish
<1>2. CASE text = <<>>
  <2>1. output' = output
    BY <1>2 DEF R!Finish
  <2>2. QED BY <1>1, <2>1 DEF SlotStep
<1>3. CASE text # <<>> /\ textSlot = {}
  <2>1. output' = Append(output, item)
    BY <1>3 DEF R!Finish
  <2>2. QED BY <1>1, <2>1 DEF SlotStep
<1>4. CASE text # <<>> /\ textSlot # {}
  <2>1. output' = [output EXCEPT ![Held(textSlot) + 1] = item]
    BY <1>4 DEF R!Finish, Held
  <2>2. QED BY <1>1, <1>4, <2>1 DEF SlotStep
<1>5. QED BY <1>2, <1>3, <1>4

LEMMA TextItems ==
  ASSUME ItemsFine, NEW parts, R!StartTextItem(parts)
  PROVE  SlotStep(output, textSlot, R!Reserved, output', textSlot')
<1>1. CASE kind = "compaction"
  <2>1. output' = output /\ textSlot' = textSlot
    BY <1>1 DEF R!StartTextItem
  <2>2. QED BY <2>1 DEF SlotStep
<1>2. CASE kind # "compaction" /\ textSlot = {}
  <2>1. output' = Append(output, R!Reserved) /\ textSlot' = {Len(output)}
    BY <1>2 DEF R!StartTextItem
  <2>2. QED BY <1>2, <2>1 DEF SlotStep
<1>3. CASE kind # "compaction" /\ textSlot # {}
  <2>1. output' = output /\ textSlot' = {Held(textSlot)}
    BY <1>3 DEF R!StartTextItem, Held
  <2>2. QED BY <1>3, <2>1 DEF SlotStep
<1>4. QED BY <1>1, <1>2, <1>3

LEMMA ItemsReceived ==
  ASSUME ItemsFine, NEW e, kind' = kind,
         e.type = "content_block_start" => e.index \in 0 .. MaxBlocks,
         \/ R!OpenTool(e) \/ R!AddText(e) \/ R!AddArguments(e) \/ R!CloseTool(e)
         \/ R!Finish
         \/ UNCHANGED <<toolBlocks, text, output, textSlot, completed, events>>
  PROVE  ItemsFine'
<1>0. /\ kind' \in R!Kinds /\ kind \in ItemKinds
      /\ DOMAIN toolBlocks \subseteq 0 .. MaxBlocks /\ completed \in BOOLEAN
      /\ Items(output) /\ SlotOK(output, textSlot)
  BY DEF ItemsFine, ItemKinds
<1>1. CASE R!OpenTool(e)
  <2>1. /\ output' = output /\ textSlot' = textSlot /\ completed' = completed
        /\ e.index \in 0 .. MaxBlocks
        /\ DOMAIN toolBlocks' = DOMAIN toolBlocks \cup {e.index}
    BY <1>1 DEF R!OpenTool
  <2>2. QED BY <1>0, <2>1 DEF ItemsFine
<1>2. CASE R!AddText(e)
  <2>1. toolBlocks' = toolBlocks /\ completed' = completed /\ R!StartTextItem(e.parts)
    BY <1>2 DEF R!AddText
  <2>2. R!Reserved.kind \in ItemKinds
    BY DEF R!Reserved, R!Item, ItemKinds
  <2>3. SlotStep(output, textSlot, R!Reserved, output', textSlot')
    BY <2>1, TextItems
  <2>4. Items(output') /\ SlotOK(output', textSlot')
    BY <2>2, <2>3, SlotMoves
  <2>5. QED BY <1>0, <2>1, <2>4 DEF ItemsFine
<1>3. CASE R!AddArguments(e)
  <2>1. /\ output' = output /\ textSlot' = textSlot /\ completed' = completed
        /\ DOMAIN toolBlocks' = DOMAIN toolBlocks
    BY <1>3 DEF R!AddArguments
  <2>2. QED BY <1>0, <2>1 DEF ItemsFine
<1>4. CASE R!CloseTool(e)
  <2>1. PICK item : item = R!Item("function_call", toolBlocks[e.index])  OBVIOUS
  <2>2. /\ output' = Append(output, item) /\ textSlot' = textSlot /\ completed' = completed
        /\ DOMAIN toolBlocks' \subseteq DOMAIN toolBlocks
    BY <1>4, <2>1 DEF R!CloseTool
  <2>3. item.kind \in ItemKinds
    BY <2>1 DEF R!Item, ItemKinds
  <2>4. SlotStep(output, textSlot, item, output', textSlot')
    BY <2>2 DEF SlotStep
  <2>5. Items(output') /\ SlotOK(output', textSlot')
    BY <2>3, <2>4, SlotMoves
  <2>6. QED BY <1>0, <2>2, <2>5 DEF ItemsFine
<1>5. CASE R!Finish
  <2>1. PICK item : item = R!Item(kind, text)  OBVIOUS
  <2>2. item.kind \in ItemKinds
    BY <1>0, <2>1 DEF R!Item
  <2>3. SlotStep(output, textSlot, item, output', textSlot') /\ completed' \in BOOLEAN
    BY <1>5, <2>1, FinishItems
  <2>4. Items(output') /\ SlotOK(output', textSlot')
    BY <2>2, <2>3, SlotMoves
  <2>5. toolBlocks' = toolBlocks
    BY <1>5 DEF R!Finish
  <2>6. QED BY <1>0, <2>3, <2>4, <2>5 DEF ItemsFine
<1>6. CASE UNCHANGED <<toolBlocks, text, output, textSlot, completed, events>>
  BY <1>0, <1>6 DEF ItemsFine
<1>7. QED BY <1>1, <1>2, <1>3, <1>4, <1>5, <1>6

(* An event that is read with a broken part is of the same type and block. *)
LEMMA CutKeeps ==
  ASSUME NEW e \in R!Upstream!Candidates, NEW heard \in R!Decoded(e)
  PROVE  /\ heard.type = e.type
         /\ e.type = "content_block_start" => heard.index = e.index
         /\ e.type = "content_block_delta" => DOMAIN heard.parts = DOMAIN e.parts
<1>1. CASE heard = e
  BY <1>1
<1>2. CASE heard = R!Cut(e) /\ e.type = "content_block_start"
  <2>1. heard = [e EXCEPT !.input = R!Lossy(e.input)]
    BY <1>2 DEF R!Cut
  <2>2. \E i, kd, input : e = R!Upstream!BlockStart(i, kd, input)
    BY <1>2 DEF R!Upstream!Candidates, R!Upstream!MessageStart, R!Upstream!MessageDelta,
      R!Upstream!MessageStop, R!Upstream!UpstreamError, R!Upstream!BlockStop,
      R!Upstream!BlockStart, R!Upstream!BlockDelta
  <2>3. QED BY <1>2, <2>1, <2>2 DEF R!Upstream!BlockStart
<1>3. CASE heard = R!Cut(e) /\ e.type = "content_block_delta"
  <2>1. heard = [e EXCEPT !.parts = R!Lossy(e.parts)]
    BY <1>3 DEF R!Cut
  <2>2. \E i, kd, parts : e = R!Upstream!BlockDelta(i, kd, parts)
    BY <1>3 DEF R!Upstream!Candidates, R!Upstream!MessageStart, R!Upstream!MessageDelta,
      R!Upstream!MessageStop, R!Upstream!UpstreamError, R!Upstream!BlockStop,
      R!Upstream!BlockStart, R!Upstream!BlockDelta
  <2>3. QED BY <1>3, <2>1, <2>2 DEF R!Upstream!BlockDelta, R!Lossy
<1>4. CASE heard = R!Cut(e) /\ e.type \notin {"content_block_start", "content_block_delta"}
  BY <1>4 DEF R!Cut
<1>5. QED BY <1>1, <1>2, <1>3, <1>4 DEF R!Decoded

LEMMA FineIsTyped ==
  ASSUME Items(output)
  PROVE  R!TypeOK <=> ItemsFine /\ body \in {"open", "ended", "failed"}
<1>1. \A i \in DOMAIN output : output[i].kind \in ItemKinds
  BY KindsOfItems
<1>2. QED BY <1>1, Zenon DEF R!TypeOK, ItemsFine, SlotOK, ItemKinds

LEMMA ResponsesTypes ==
  ASSUME TypeInv, R!Next
  PROVE  R!TypeOK' /\ Items(output') /\ Events(received')
<1>1. ItemsFine /\ Events(received) /\ Items(output)
  BY FineIsTyped DEF TypeInv, TypeOK
<1>2. ASSUME NEW e \in R!Upstream!Candidates, R!Receive(e)
      PROVE  ItemsFine' /\ Events(received') /\ body' \in {"open", "ended", "failed"}
  <2>1. /\ Events(received')
        /\ e.type = "content_block_start" => e.index \in 0 .. MaxBlocks
    BY <1>2, ResponsesReads, BlockBounds
  <2>2. /\ kind' = kind /\ body' = body /\ body = "open"
        /\ \E heard \in R!Decoded(e) : R!Process(heard)
    BY <1>2, Zenon DEF R!Receive
  <2>3. ItemsFine'
    <3>1. PICK heard \in R!Decoded(e) : R!Process(heard)
      BY <2>2
    <3>2. heard.type = "content_block_start" => heard.index \in 0 .. MaxBlocks
      BY <1>2, <2>1, <3>1, CutKeeps
    <3>3. \/ R!OpenTool(heard) \/ R!AddText(heard) \/ R!AddArguments(heard) \/ R!CloseTool(heard)
          \/ R!Finish
          \/ UNCHANGED <<toolBlocks, text, output, textSlot, completed, events>>
      BY <3>1, Zenon DEF R!Process
    <3>4. QED BY <1>1, <2>2, <3>2, <3>3, ItemsReceived
  <2>4. QED BY <2>1, <2>2, <2>3
<1>3. ASSUME R!UpstreamEnds \/ R!UpstreamFails
      PROVE  ItemsFine' /\ Events(received') /\ body' \in {"open", "ended", "failed"}
  <2>1. /\ kind' = kind /\ received' = received /\ body' \in {"ended", "failed"}
        /\ R!Finish \/ UNCHANGED <<toolBlocks, text, output, textSlot, completed, events>>
    BY <1>3, Zenon DEF R!UpstreamEnds, R!UpstreamFails
  <2>2. PICK e : e = [type |-> "error"]  OBVIOUS
  <2>3. e.type = "content_block_start" => e.index \in 0 .. MaxBlocks
    BY <2>2
  <2>4. ItemsFine'
    BY <1>1, <2>1, <2>3, ItemsReceived
  <2>5. QED BY <1>1, <2>1, <2>4
<1>4. ItemsFine' /\ Events(received') /\ body' \in {"open", "ended", "failed"}
  BY <1>2, <1>3 DEF R!Next
<1>5. Items(output')
  BY <1>4 DEF ItemsFine
<1>6. (Items(output) => (R!TypeOK <=> ItemsFine /\ body \in {"open", "ended", "failed"}))'
  BY FineIsTyped, PTL
<1>7. QED BY <1>4, <1>5, <1>6

(* AnthropicToChat.                                                        *)
ToolFine(tool) == tool \in [index : 0 .. MaxBlocks, hasArguments : BOOLEAN]
ChatFine ==
  /\ DOMAIN toolIndex \subseteq 0 .. (MaxBlocks - 1)
  /\ \A b \in DOMAIN toolIndex : ToolFine(toolIndex[b])
  /\ started \in BOOLEAN
  /\ finished \in BOOLEAN
  /\ includeUsage \in BOOLEAN

LEMMA ToolsCounted ==
  ASSUME NEW S \in SUBSET (0 .. (MaxBlocks - 1))
  PROVE  C!Cardinality(S) \in 0 .. MaxBlocks
<1>1. MaxBlocks \in Nat
  BY StreamAssumption
<1>2. /\ IsFiniteSet(0 .. (MaxBlocks - 1))
      /\ Cardinality(0 .. (MaxBlocks - 1)) = IF 0 > MaxBlocks - 1 THEN 0 ELSE (MaxBlocks - 1) - 0 + 1
  <2>1. 0 \in Int /\ MaxBlocks - 1 \in Int
    BY <1>1
  <2>2. QED BY <2>1, FS_Interval
<1>3. Cardinality(0 .. (MaxBlocks - 1)) = MaxBlocks
  BY <1>1, <1>2
<1>4. IsFiniteSet(S) /\ Cardinality(S) <= Cardinality(0 .. (MaxBlocks - 1))
  BY <1>2, FS_Subset
<1>5. Cardinality(S) \in Nat
  BY <1>4, FS_CardinalityType
<1>6. C!Cardinality(S) = Cardinality(S)
  BY DEF C!Cardinality, Cardinality
<1>7. QED BY <1>1, <1>3, <1>4, <1>5, <1>6

LEMMA ToolHasArguments ==
  ASSUME NEW tool, ToolFine(tool)
  PROVE  ToolFine([tool EXCEPT !.hasArguments = TRUE])
  BY DEF ToolFine

LEMMA ArgumentsSeen ==
  ASSUME ChatFine, NEW b \in DOMAIN toolIndex,
         toolIndex' = [toolIndex EXCEPT ![b].hasArguments = TRUE]
  PROVE  /\ DOMAIN toolIndex' \subseteq 0 .. (MaxBlocks - 1)
         /\ \A j \in DOMAIN toolIndex' : ToolFine(toolIndex'[j])
<1>1. DOMAIN toolIndex' = DOMAIN toolIndex
  OBVIOUS
<1>2. ASSUME NEW j \in DOMAIN toolIndex' PROVE ToolFine(toolIndex'[j])
  <2>1. ToolFine(toolIndex[j]) /\ ToolFine([toolIndex[j] EXCEPT !.hasArguments = TRUE])
    BY <1>1, ToolHasArguments DEF ChatFine
  <2>2. toolIndex'[j] = IF j = b THEN [toolIndex[j] EXCEPT !.hasArguments = TRUE] ELSE toolIndex[j]
    BY <1>1
  <2>3. QED BY <2>1, <2>2
<1>3. QED BY <1>1, <1>2 DEF ChatFine

LEMMA ToolAnnounced ==
  ASSUME ChatFine, NEW b \in 0 .. (MaxBlocks - 1), NEW has \in BOOLEAN,
         NEW i \in 0 .. MaxBlocks,
         toolIndex' = [j \in DOMAIN toolIndex \cup {b} |->
                         IF j = b THEN [index |-> i, hasArguments |-> has] ELSE toolIndex[j]]
  PROVE  /\ DOMAIN toolIndex' \subseteq 0 .. (MaxBlocks - 1)
         /\ \A j \in DOMAIN toolIndex' : ToolFine(toolIndex'[j])
<1>1. DOMAIN toolIndex' = DOMAIN toolIndex \cup {b}
  OBVIOUS
<1>2. ToolFine([index |-> i, hasArguments |-> has])
  BY DEF ToolFine
<1>3. ASSUME NEW j \in DOMAIN toolIndex' PROVE ToolFine(toolIndex'[j])
  <2>1. CASE j = b
    BY <1>1, <1>2, <2>1
  <2>2. CASE j # b
    BY <1>1, <2>2 DEF ChatFine
  <2>3. QED BY <2>1, <2>2
<1>4. QED BY <1>1, <1>3 DEF ChatFine

LEMMA ChunksSent ==
  ASSUME ChatFine, NEW e, includeUsage' = includeUsage,
         e.type = "content_block_start" => e.index \in 0 .. (MaxBlocks - 1),
         \/ UNCHANGED <<toolIndex, started, finished, out>>
         \/ C!StartMessage(e) \/ C!StartBlock(e) \/ C!SendText(e) \/ C!SendArguments(e)
         \/ C!StopBlock(e)
         \/ C!Finish \/ C!Fail
  PROVE  ChatFine'
<1>0. /\ started \in BOOLEAN /\ finished \in BOOLEAN /\ includeUsage \in BOOLEAN
      /\ DOMAIN toolIndex \subseteq 0 .. (MaxBlocks - 1)
      /\ \A b \in DOMAIN toolIndex : ToolFine(toolIndex[b])
  BY DEF ChatFine
<1>1. ASSUME toolIndex' = toolIndex, started' \in BOOLEAN, finished' \in BOOLEAN
      PROVE  ChatFine'
  BY <1>0, <1>1 DEF ChatFine
<1>2. CASE UNCHANGED <<toolIndex, started, finished, out>>
  BY <1>0, <1>1, <1>2
<1>3. CASE C!StartMessage(e) \/ C!SendText(e)
  BY <1>0, <1>1, <1>3 DEF C!StartMessage, C!SendText, C!Write
<1>4. CASE C!Finish \/ C!Fail
  BY <1>0, <1>1, <1>4 DEF C!Finish, C!Fail, C!Write
<1>5. CASE C!StartBlock(e)
  <2>1. e.index \in 0 .. (MaxBlocks - 1) /\ started' = TRUE /\ finished' = finished
    BY <1>5 DEF C!StartBlock, C!Write
  <2>2. CASE e.kind = "tool_use"
    <3>1. PICK i \in 0 .. MaxBlocks : i = C!Cardinality(DOMAIN toolIndex)
      BY <1>0, ToolsCounted
    <3>2. PICK b \in 0 .. (MaxBlocks - 1) : b = e.index
      BY <2>1
    <3>3. PICK has \in BOOLEAN : has = (e.input # <<>>)
      OBVIOUS
    <3>4. toolIndex' = [j \in DOMAIN toolIndex \cup {b} |->
                          IF j = b THEN [index |-> i, hasArguments |-> has] ELSE toolIndex[j]]
      BY <1>5, <2>2, <3>1, <3>2, <3>3 DEF C!StartBlock
    <3>5. /\ DOMAIN toolIndex' \subseteq 0 .. (MaxBlocks - 1)
          /\ \A j \in DOMAIN toolIndex' : ToolFine(toolIndex'[j])
      BY <3>4, ToolAnnounced
    <3>6. QED BY <1>0, <2>1, <3>5 DEF ChatFine
  <2>3. CASE e.kind # "tool_use"
    BY <1>0, <1>1, <1>5, <2>1, <2>3 DEF C!StartBlock
  <2>4. QED BY <2>2, <2>3
<1>6. CASE C!SendArguments(e)
  <2>1. started' = TRUE /\ finished' = finished
    BY <1>6 DEF C!SendArguments, C!Write
  <2>2. CASE e.index \in DOMAIN toolIndex /\ e.parts # <<>>
    <3>1. PICK b \in DOMAIN toolIndex : b = e.index
      BY <2>2
    <3>2. toolIndex' = [toolIndex EXCEPT ![b].hasArguments = TRUE]
      BY <1>6, <2>2, <3>1 DEF C!SendArguments
    <3>3. QED BY <1>0, <2>1, <3>2, ArgumentsSeen DEF ChatFine
  <2>3. CASE ~(e.index \in DOMAIN toolIndex /\ e.parts # <<>>)
    BY <1>0, <1>1, <1>6, <2>1, <2>3 DEF C!SendArguments
  <2>4. QED BY <2>2, <2>3
<1>7. CASE C!StopBlock(e)
  <2>1. started' = started /\ finished' = finished
    BY <1>7 DEF C!StopBlock
  <2>2. CASE toolIndex' = toolIndex
    BY <1>0, <1>1, <2>1, <2>2
  <2>3. CASE toolIndex' # toolIndex
    <3>1. e.index \in DOMAIN toolIndex /\ toolIndex' = [toolIndex EXCEPT ![e.index].hasArguments = TRUE]
      BY <1>7, <2>3 DEF C!StopBlock
    <3>2. PICK b \in DOMAIN toolIndex : b = e.index
      BY <3>1
    <3>3. toolIndex' = [toolIndex EXCEPT ![b].hasArguments = TRUE]
      BY <3>1, <3>2
    <3>4. QED BY <1>0, <2>1, <3>3, ArgumentsSeen DEF ChatFine
  <2>4. QED BY <2>2, <2>3
<1>8. QED BY <1>2, <1>3, <1>4, <1>5, <1>6, <1>7

LEMMA ChatFineIsTyped ==
  ASSUME DOMAIN toolIndex \subseteq 0 .. (MaxBlocks - 1)
  PROVE  C!TypeOK <=> ChatFine /\ body \in {"open", "ended", "failed"}
<1>1. DOMAIN toolIndex \subseteq 0 .. MaxBlocks
  BY BlockBounds
<1>2. QED BY <1>1, Zenon DEF C!TypeOK, ChatFine, ToolFine

LEMMA ChatTypes ==
  ASSUME TypeInv, C!Next
  PROVE  C!TypeOK' /\ DOMAIN toolIndex' \subseteq 0 .. (MaxBlocks - 1) /\ Events(received')
<1>1. ChatFine /\ Events(received) /\ DOMAIN toolIndex \subseteq 0 .. (MaxBlocks - 1)
  BY ChatFineIsTyped DEF TypeInv, TypeOK
<1>2. ASSUME NEW e \in C!Upstream!Candidates, C!Receive(e)
      PROVE  ChatFine' /\ Events(received') /\ body' \in {"open", "ended", "failed"}
  <2>1. /\ Events(received')
        /\ e.type = "content_block_start" => e.index \in 0 .. (MaxBlocks - 1)
    BY <1>2, ChatReads
  <2>2. /\ includeUsage' = includeUsage /\ body' = body /\ body = "open"
        /\ \/ UNCHANGED <<toolIndex, started, finished, out>>
           \/ C!StartMessage(e) \/ C!StartBlock(e) \/ C!SendText(e) \/ C!SendArguments(e)
           \/ C!StopBlock(e)
           \/ C!Finish \/ C!Fail
    BY <1>2, Zenon DEF C!Receive
  <2>3. ChatFine'
    BY <1>1, <2>1, <2>2, ChunksSent
  <2>4. QED BY <2>1, <2>2, <2>3
<1>3. ASSUME C!UpstreamEnds \/ C!UpstreamFails
      PROVE  ChatFine' /\ Events(received') /\ body' \in {"open", "ended", "failed"}
  <2>1. /\ includeUsage' = includeUsage /\ received' = received /\ body' \in {"ended", "failed"}
        /\ C!Fail
    BY <1>3 DEF C!UpstreamEnds, C!UpstreamFails, C!UpstreamCloses
  <2>2. PICK e : e = [type |-> "error"]  OBVIOUS
  <2>3. e.type = "content_block_start" => e.index \in 0 .. (MaxBlocks - 1)
    BY <2>2
  <2>4. ChatFine'
    BY <1>1, <2>1, <2>3, ChunksSent
  <2>5. QED BY <1>1, <2>1, <2>4
<1>4. ChatFine' /\ Events(received') /\ body' \in {"open", "ended", "failed"}
  BY <1>2, <1>3 DEF C!Next
<1>5. DOMAIN toolIndex' \subseteq 0 .. (MaxBlocks - 1)
  BY <1>4 DEF ChatFine
<1>6. (DOMAIN toolIndex \subseteq 0 .. (MaxBlocks - 1)
         => (C!TypeOK <=> ChatFine /\ body \in {"open", "ended", "failed"}))'
  BY ChatFineIsTyped, PTL
<1>7. QED BY <1>4, <1>5, <1>6

-----------------------------------------------------------------------------
LEMMA TypeInvStep ==
  ASSUME TypeInv, [Next]_vars
  PROVE  TypeInv'
<1>0. TypeOK /\ WriterInv' /\ Events(received) /\ Items(output)
      /\ DOMAIN toolIndex \subseteq 0 .. (MaxBlocks - 1)
  BY WriterStep DEF TypeInv
<1>1. CASE MessagesStep
  <2>1. /\ M!Next /\ path = "messages via chat" /\ path' = path
        /\ UNCHANGED <<toResponses, toChat, received>>
    BY <1>1 DEF MessagesStep
  <2>2. M!TypeOK'
    BY <2>1, WriterTypes
  <2>3. body' \in {"open", "ended", "failed"} /\ started' \in BOOLEAN
    BY <2>2 DEF M!TypeOK
  <2>4. /\ received' = received /\ output' = output /\ toolIndex' = toolIndex
        /\ kind' = kind /\ toolBlocks' = toolBlocks /\ textSlot' = textSlot
        /\ completed' = completed /\ includeUsage' = includeUsage /\ finished' = finished
    BY <2>1 DEF toResponses, toChat
  <2>5. R!TypeOK'
    BY <1>0, <2>3, <2>4 DEF TypeOK, R!TypeOK
  <2>6. C!TypeOK'
    BY <1>0, <2>3, <2>4 DEF TypeOK, C!TypeOK
  <2>7. Events(received') /\ Items(output') /\ DOMAIN toolIndex' \subseteq 0 .. (MaxBlocks - 1)
    BY <1>0, <2>4
  <2>8. QED BY <1>0, <2>1, <2>2, <2>5, <2>6, <2>7 DEF TypeInv, TypeOK
<1>2. CASE ResponsesStep
  <2>1. R!Next /\ path' = path /\ UNCHANGED <<toMessages, toChat, started>>
    BY <1>2 DEF ResponsesStep
  <2>2. R!TypeOK' /\ Items(output') /\ Events(received')
    BY <2>1, ResponsesTypes
  <2>3. body' \in {"open", "ended", "failed"}
    BY <2>2 DEF R!TypeOK
  <2>4. /\ started' = started /\ chunks' = chunks /\ next' = next /\ openText' = openText
        /\ calls' = calls /\ reason' = reason
        /\ includeUsage' = includeUsage /\ finished' = finished /\ toolIndex' = toolIndex
    BY <2>1 DEF toMessages, toChat
  <2>5. M!TypeOK'
    BY <1>0, <2>3, <2>4 DEF TypeOK, M!TypeOK
  <2>6. C!TypeOK'
    BY <1>0, <2>3, <2>4 DEF TypeOK, C!TypeOK
  <2>7. DOMAIN toolIndex' \subseteq 0 .. (MaxBlocks - 1)
    BY <1>0, <2>4
  <2>8. QED BY <1>0, <2>1, <2>2, <2>5, <2>6, <2>7 DEF TypeInv, TypeOK
<1>3. CASE ChatStep
  <2>1. C!Next /\ path' = path /\ UNCHANGED <<toMessages, toResponses>>
    BY <1>3 DEF ChatStep
  <2>2. C!TypeOK' /\ DOMAIN toolIndex' \subseteq 0 .. (MaxBlocks - 1) /\ Events(received')
    BY <2>1, ChatTypes
  <2>3. body' \in {"open", "ended", "failed"} /\ started' \in BOOLEAN
    BY <2>2 DEF C!TypeOK
  <2>4. /\ chunks' = chunks /\ next' = next /\ openText' = openText
        /\ calls' = calls /\ reason' = reason /\ output' = output
        /\ kind' = kind /\ toolBlocks' = toolBlocks /\ textSlot' = textSlot
        /\ completed' = completed
    BY <2>1 DEF toMessages, toResponses
  <2>5. M!TypeOK'
    BY <1>0, <2>3, <2>4 DEF TypeOK, M!TypeOK
  <2>6. R!TypeOK'
    BY <1>0, <2>3, <2>4 DEF TypeOK, R!TypeOK
  <2>7. Items(output')
    BY <1>0, <2>4
  <2>8. QED BY <1>0, <2>1, <2>2, <2>5, <2>6, <2>7 DEF TypeInv, TypeOK
<1>4. CASE UNCHANGED vars
  <2>1. /\ path' = path /\ body' = body /\ started' = started /\ received' = received
        /\ chunks' = chunks /\ next' = next /\ openText' = openText /\ calls' = calls
        /\ reason' = reason /\ output' = output /\ kind' = kind /\ toolBlocks' = toolBlocks
        /\ textSlot' = textSlot /\ completed' = completed
        /\ includeUsage' = includeUsage /\ finished' = finished /\ toolIndex' = toolIndex
    BY <1>4 DEF vars, toMessages, toResponses, toChat
  <2>2. M!TypeOK'
    BY <1>0, <2>1 DEF TypeOK, M!TypeOK
  <2>3. R!TypeOK'
    BY <1>0, <2>1 DEF TypeOK, R!TypeOK
  <2>4. C!TypeOK'
    BY <1>0, <2>1 DEF TypeOK, C!TypeOK
  <2>5. Events(received') /\ Items(output') /\ DOMAIN toolIndex' \subseteq 0 .. (MaxBlocks - 1)
    BY <1>0, <2>1
  <2>6. QED BY <1>0, <2>1, <2>2, <2>3, <2>4, <2>5 DEF TypeInv, TypeOK
<1>5. QED BY <1>1, <1>2, <1>3, <1>4 DEF Next

(* The three translators keep their types: the slot reserved for the text  *)
(* is one of the items, blocks and announced calls are within the bounds,  *)
(* the open text block is the last one that was numbered.                  *)
THEOREM StreamTypes == Spec => []TypeOK
<1>1. Init => TypeInv
  BY TypeInvInit
<1>2. TypeInv /\ [Next]_vars => TypeInv'
  BY TypeInvStep
<1>3. TypeInv => TypeOK
  BY DEF TypeInv
<1>4. QED BY <1>1, <1>2, <1>3, PTL DEF Spec
=============================================================================
