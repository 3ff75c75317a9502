---------------------------- MODULE ProxyGateProofs ----------------------------
(***************************************************************************)
(* What the proxy lets out, for any number of connections and slots, any   *)
(* policies the operator may store and any requests: slots are neither     *)
(* lost nor given twice, a request that goes upstream was permitted since  *)
(* it was received, it is signed for its own region only, and what a       *)
(* tunnel has sent to a guarded host reassembles into messages the guard   *)
(* does not deny.                                                          *)
(* What GitHub's guard admits stays in the listed repositories, and what   *)
(* the meter records of a Bedrock response is what AWS reported.           *)
(*                                                                         *)
(* Handlers share nothing but the free slots, so the invariant is one      *)
(* predicate of a handler's record, HandlerOK, kept for every connection,  *)
(* and the count of the slots.                                             *)
(***************************************************************************)
EXTENDS ProxyGate, BedrockMeter, FiniteSetTheorems, SequenceTheorems, TLAPS

Handler ==
    [at : Places, request : Requests \cup {None}, policy : Policies \cup {None},
     permitted : BOOLEAN, signed : Regions \cup {None}, held : Seq(Frames),
     sent : Seq(Frames), frames : 0 .. MaxFrames]

\* What is held of a message: its first frames, none of them the last.
IsOpening(held) ==
    /\ \A k \in DOMAIN held :
          /\ ~held[k].fin
          /\ held[k].op = IF k = 1 THEN "text" ELSE "cont"

\* What UpstreamIsJudged says of one tunnel.
IsJudged(sent) ==
    /\ \A i \in DOMAIN sent :
          IsData(sent[i]) => \E j \in i .. Len(sent) : IsData(sent[j]) /\ sent[j].fin
    /\ \A i, j \in DOMAIN sent :
          IsMessage(sent, i, j) => ~MessageDenied(PayloadsOf(SubSeq(sent, i, j)))

HandlerOK(h) ==
    /\ h \in Handler
    /\ h.at = "judge" /\ Permits(h.policy, h.request) => h.permitted
    /\ h.at \in {"rewrite", "send"} => h.permitted
    /\ h.at \notin {"send", "tunnel"} => h.signed = None
    /\ h.signed # None => h.request.host = RegionHost(h.signed)
    /\ h.at \in {"rewrite", "send", "tunnel"} => Enabled(h.policy, Owner(h.request.host))
    /\ IsOpening(h.held)
    /\ h.at # "tunnel" => h.sent = <<>>
    /\ h.at = "tunnel" /\ h.request.host \in GuardedHosts => IsJudged(h.sent)

Open == {c \in Conns : ~At(c, "closed")}

HandlersInv ==
    /\ policy \in Policies
    /\ stored \in Stored
    /\ conn \in [Conns -> Handler]
    /\ \A c \in Conns : HandlerOK(conn[c])

SlotsInv ==
    /\ free \in Nat
    /\ IsFiniteSet(Open)
    /\ free + Cardinality(Open) = Slots

GateInv == HandlersInv /\ SlotsInv

-----------------------------------------------------------------------------
(* Tunnels: what holding a fragment and letting a message go keep true.    *)

\* A fragment that is not the last one may be held with the others.
LEMMA HeldOn ==
    ASSUME NEW held \in Seq(Frames), NEW frame \in Frames, IsOpening(held), IsData(frame),
           ~Uninspectable(held, frame), ~frame.fin
    PROVE  IsOpening(Append(held, frame))
<1> DEFINE all == Append(held, frame)
<1>1. /\ DOMAIN all = 1 .. Len(held) + 1
      /\ \A k \in 1 .. Len(held) : all[k] = held[k]
      /\ all[Len(held) + 1] = frame
      /\ DOMAIN held = 1 .. Len(held) /\ Len(held) \in Nat
  OBVIOUS
<1>2. frame.op = IF Len(held) = 0 THEN "text" ELSE "cont"
  <2>1. frame.op \in {"text", "cont"}
    BY DEF Frames, IsData, Uninspectable
  <2>2. Len(held) = 0 <=> held = <<>>
    OBVIOUS
  <2> QED
    BY <2>1, <2>2 DEF Uninspectable
<1> HIDE DEF all
<1>3. ASSUME NEW k \in DOMAIN all
      PROVE  ~all[k].fin /\ all[k].op = IF k = 1 THEN "text" ELSE "cont"
  <2>1. CASE k = Len(held) + 1
    BY <1>1, <1>2, <2>1
  <2>2. CASE k # Len(held) + 1
    <3>1. k \in 1 .. Len(held)
      BY <1>1, <2>2
    <3> QED
      BY <1>1, <3>1 DEF IsOpening
  <2> QED
    BY <2>1, <2>2
<1>4. IsOpening(all)
  BY <1>3 DEF IsOpening
<1> QED
  BY <1>4 DEF all

LEMMA Within == \A i, j \in Int : \A k \in 1 .. j - i + 1 : i + k - 1 \in i .. j
  OBVIOUS

\* Two sequences that agree from i to j hold the same message there.
LEMMA SameMessage ==
    ASSUME NEW s \in Seq(Frames), NEW t \in Seq(Frames), NEW i \in DOMAIN s, NEW j \in DOMAIN s,
           i \in DOMAIN t, j \in DOMAIN t, \A k \in i .. j : t[k] = s[k], IsMessage(t, i, j)
    PROVE  IsMessage(s, i, j) /\ SubSeq(t, i, j) = SubSeq(s, i, j)
<1>1. i <= j /\ i \in 1 .. Len(s) /\ j \in 1 .. Len(s) /\ i \in 1 .. Len(t) /\ j \in 1 .. Len(t)
  BY DEF IsMessage
<1>2. t[i] = s[i] /\ t[j] = s[j] /\ \A k \in i .. j - 1 : t[k] = s[k]
  BY <1>1
<1>3. IsMessage(s, i, j)
  BY <1>1, <1>2 DEF IsMessage, IsData
<1>4. \A k \in i .. j : s[k] \in Frames /\ t[k] \in Frames
  BY <1>1
<1> DEFINE u == SubSeq(t, i, j)
           v == SubSeq(s, i, j)
<1>5. /\ u \in Seq(Frames) /\ Len(u) = j - i + 1
      /\ \A k \in 1 .. j - i + 1 : u[k] = t[i + k - 1]
  BY <1>1, <1>4, SubSeqProperties
<1>6. /\ v \in Seq(Frames) /\ Len(v) = j - i + 1
      /\ \A k \in 1 .. j - i + 1 : v[k] = s[i + k - 1]
  BY <1>1, <1>4, SubSeqProperties
<1> HIDE DEF u, v
<1>7. Len(u) = Len(v)
  BY <1>5, <1>6
<1>8. ASSUME NEW k \in 1 .. Len(u)
      PROVE  u[k] = v[k]
  <2>1. k \in 1 .. j - i + 1
    BY <1>5
  <2>2. i \in Int /\ j \in Int
    BY <1>1
  <2>3. i + k - 1 \in i .. j
    BY <2>1, <2>2, Within
  <2>4. u[k] = t[i + k - 1] /\ v[k] = s[i + k - 1]
    BY <1>5, <1>6, <2>1
  <2>5. t[i + k - 1] = s[i + k - 1]
    BY <2>3
  <2> QED
    BY <2>4, <2>5
<1>9. u = v
  BY <1>5, <1>6, <1>7, <1>8, SeqEqual
<1> QED
  BY <1>3, <1>9 DEF u, v

\* A control frame between two messages changes nothing.
LEMMA ControlPasses ==
    ASSUME NEW sent \in Seq(Frames), NEW frame \in Frames, IsJudged(sent), ~IsData(frame)
    PROVE  IsJudged(Append(sent, frame))
<1> DEFINE new == Append(sent, frame)
<1>1. /\ new \in Seq(Frames)
      /\ Len(new) = Len(sent) + 1 /\ Len(sent) \in Nat
      /\ DOMAIN new = 1 .. Len(sent) + 1 /\ DOMAIN sent = 1 .. Len(sent)
      /\ \A k \in 1 .. Len(sent) : new[k] = sent[k]
      /\ new[Len(sent) + 1] = frame
  OBVIOUS
<1> HIDE DEF new
<1>2. ASSUME NEW i \in DOMAIN new, IsData(new[i])
      PROVE  \E j \in i .. Len(new) : IsData(new[j]) /\ new[j].fin
  <2>1. i \in 1 .. Len(sent) /\ IsData(sent[i])
    BY <1>1, <1>2
  <2>2. PICK j \in i .. Len(sent) : IsData(sent[j]) /\ sent[j].fin
    BY <1>1, <2>1 DEF IsJudged
  <2>3. j \in 1 .. Len(sent) /\ j \in i .. Len(new)
    BY <1>1, <2>1, <2>2
  <2>4. new[j] = sent[j]
    BY <1>1, <2>3
  <2> QED
    BY <2>2, <2>3, <2>4
<1>3. ASSUME NEW i \in DOMAIN new, NEW j \in DOMAIN new, IsMessage(new, i, j)
      PROVE  ~MessageDenied(PayloadsOf(SubSeq(new, i, j)))
  <2>1. i <= j /\ IsData(new[j])
    BY <1>3 DEF IsMessage
  <2>2. i \in DOMAIN sent /\ j \in DOMAIN sent
    BY <1>1, <2>1
  <2>3. \A k \in i .. j : new[k] = sent[k]
    BY <1>1, <2>2
  <2>4. IsMessage(sent, i, j) /\ SubSeq(new, i, j) = SubSeq(sent, i, j)
    BY <1>1, <1>3, <2>2, <2>3, SameMessage
  <2> QED
    BY <2>2, <2>4 DEF IsJudged
<1>4. IsJudged(new)
  BY <1>2, <1>3 DEF IsJudged
<1> QED
  BY <1>4 DEF new

\* A message whose last fragment has come, and that was judged as a whole, may go.
LEMMA MessageGoes ==
    ASSUME NEW sent \in Seq(Frames), NEW held \in Seq(Frames), NEW frame \in Frames,
           IsJudged(sent), IsOpening(held), IsData(frame), ~Uninspectable(held, frame),
           frame.fin, ~MessageDenied(PayloadsOf(Append(held, frame)))
    PROVE  IsJudged(sent \o Append(held, frame))
<1> DEFINE all == Append(held, frame)
           new == sent \o all
           n == Len(sent)
           m == Len(all)
<1>1. /\ all \in Seq(Frames) /\ new \in Seq(Frames)
      /\ n \in Nat /\ m \in Nat /\ m = Len(held) + 1
      /\ DOMAIN new = 1 .. n + m /\ DOMAIN sent = 1 .. n /\ DOMAIN all = 1 .. m
      /\ Len(new) = n + m
  OBVIOUS
<1>2. /\ \A k \in 1 .. n : new[k] = sent[k]
      /\ \A k \in n + 1 .. n + m : new[k] = all[k - n]
  OBVIOUS
<1>3. /\ \A k \in 1 .. m - 1 : ~all[k].fin /\ IsData(all[k])
      /\ \A k \in 2 .. m : all[k].op # "text"
      /\ all[m] = frame
  <2>1. all[m] = frame /\ \A k \in 1 .. m - 1 : all[k] = held[k] /\ k \in DOMAIN held
    OBVIOUS
  <2>2. m > 1 => frame.op # "text"
    <3>1. m > 1 => held # <<>>
      OBVIOUS
    <3> QED
      BY <3>1 DEF Uninspectable
  <2> HIDE DEF all, m
  <2>3. \A k \in 1 .. m - 1 : ~all[k].fin /\ all[k].op = IF k = 1 THEN "text" ELSE "cont"
    BY <2>1 DEF IsOpening
  <2>4. \A k \in 1 .. m - 1 : IsData(all[k])
    BY <2>3 DEF IsData
  <2>5. ASSUME NEW k \in 2 .. m
        PROVE  all[k].op # "text"
    <3>1. CASE k = m
      <4>1. m > 1
        BY <1>1, <3>1
      <4> QED
        BY <2>1, <2>2, <3>1, <4>1
    <3>2. CASE k # m
      <4>1. k \in 1 .. m - 1 /\ k # 1
        BY <1>1, <3>2
      <4> QED
        BY <2>3, <4>1
    <3> QED
      BY <3>1, <3>2
  <2> QED
    BY <2>1, <2>3, <2>4, <2>5
<1>4. ~MessageDenied(PayloadsOf(all))
  OBVIOUS
<1> HIDE DEF all, new, n, m
<1>5. new[n + m] = frame /\ n + m \in DOMAIN new /\ m >= 1
  <2>1. n + m \in n + 1 .. n + m /\ (n + m) - n = m /\ m >= 1
    BY <1>1
  <2>2. new[n + m] = all[(n + m) - n]
    BY <1>2, <2>1
  <2> QED
    BY <1>1, <1>3, <2>1, <2>2
<1>6. ASSUME NEW i \in DOMAIN new, IsData(new[i])
      PROVE  \E j \in i .. Len(new) : IsData(new[j]) /\ new[j].fin
  <2>1. n + m \in i .. Len(new) /\ IsData(new[n + m]) /\ new[n + m].fin
    BY <1>1, <1>5
  <2> QED
    BY <2>1
<1>7. ASSUME NEW i \in DOMAIN new, NEW j \in DOMAIN new, IsMessage(new, i, j)
      PROVE  ~MessageDenied(PayloadsOf(SubSeq(new, i, j)))
  <2>1. /\ i <= j /\ i \in 1 .. n + m /\ j \in 1 .. n + m
        /\ new[i].op = "text" /\ IsData(new[j]) /\ new[j].fin
        /\ \A k \in i .. j - 1 : IsData(new[k]) => ~new[k].fin
    BY <1>1, <1>7 DEF IsMessage
  <2>2. CASE j <= n
    <3>1. i \in DOMAIN sent /\ j \in DOMAIN sent
      BY <1>1, <2>1, <2>2
    <3>2. \A k \in i .. j : new[k] = sent[k]
      BY <1>1, <1>2, <3>1
    <3>3. IsMessage(sent, i, j) /\ SubSeq(new, i, j) = SubSeq(sent, i, j)
      BY <1>1, <1>7, <3>1, <3>2, SameMessage
    <3> QED
      BY <3>1, <3>3 DEF IsJudged
  <2>3. CASE j > n /\ i <= n
    <3>1. i \in DOMAIN sent /\ IsData(sent[i])
      BY <1>1, <1>2, <2>1, <2>3 DEF IsData
    <3>2. PICK k \in i .. Len(sent) : IsData(sent[k]) /\ sent[k].fin
      BY <3>1 DEF IsJudged
    <3>3. k \in i .. j - 1 /\ k \in 1 .. n
      BY <1>1, <2>1, <2>3, <3>2 DEF n
    <3>4. new[k] = sent[k]
      BY <1>2, <3>3
    <3> QED
      BY <2>1, <3>2, <3>3, <3>4
  <2>4. CASE i > n
    <3>1. j = n + m
      <4>1. CASE j - n \in 1 .. m - 1
        <5>1. j \in n + 1 .. n + m
          BY <1>1, <2>1, <2>4
        <5>2. new[j] = all[j - n]
          BY <1>2, <5>1
        <5> QED
          BY <1>3, <2>1, <4>1, <5>2
      <4>2. n \in Nat /\ m \in Nat /\ j \in n + 1 .. n + m
        BY <1>1, <2>1, <2>4
      <4>3. j - n \in 1 .. m - 1 \/ j = n + m
        BY <4>2
      <4> QED
        BY <4>1, <4>3
    <3>2. i = n + 1
      <4>1. CASE i - n \in 2 .. m
        <5>1. i \in n + 1 .. n + m
          BY <1>1, <2>1, <2>4
        <5>2. new[i] = all[i - n]
          BY <1>2, <5>1
        <5> QED
          BY <1>3, <2>1, <4>1, <5>2
      <4> QED
        BY <1>1, <2>1, <2>4, <4>1
    <3> DEFINE v == SubSeq(new, i, j)
    <3>3. \A k \in i .. j : new[k] \in Frames
      BY <1>1, <2>1
    <3>4. /\ v \in Seq(Frames) /\ Len(v) = j - i + 1
          /\ \A k \in 1 .. j - i + 1 : v[k] = new[i + k - 1]
      BY <2>1, <3>3, SubSeqProperties
    <3>5. j - i + 1 = m /\ \A k \in 1 .. m : i + k - 1 = n + k
      BY <1>1, <3>1, <3>2
    <3>6. \A k \in 1 .. m : new[n + k] = all[k]
      <4> SUFFICES ASSUME NEW k \in 1 .. m
                   PROVE  new[n + k] = all[k]
        OBVIOUS
      <4>1. n + k \in n + 1 .. n + m /\ (n + k) - n = k
        BY <1>1
      <4> QED
        BY <1>2, <4>1
    <3> HIDE DEF v
    <3>7. Len(v) = Len(all) /\ \A k \in 1 .. Len(v) : v[k] = all[k]
      BY <3>4, <3>5, <3>6 DEF m
    <3>8. v = all
      BY <1>1, <3>4, <3>7, SeqEqual
    <3> QED
      BY <1>4, <3>8 DEF v
  <2> QED
    BY <1>1, <2>1, <2>2, <2>3, <2>4
<1>8. IsJudged(new)
  BY <1>6, <1>7 DEF IsJudged
<1> QED
  BY <1>8 DEF new, all

-----------------------------------------------------------------------------
(* Slots, and one handler's step among the others.                         *)

LEMMA SlotTaken ==
    ASSUME SlotsInv, NEW c \in Conns, At(c, "closed"), free > 0, free' = free - 1,
           ~At(c, "closed")', \A d \in Conns : d # c => conn'[d] = conn[d]
    PROVE  SlotsInv'
<1>1. Open' = Open \cup {c} /\ c \notin Open
  BY DEF Open, At
<1>2. IsFiniteSet(Open \cup {c}) /\ Cardinality(Open \cup {c}) = Cardinality(Open) + 1
  BY <1>1, FS_AddElement DEF SlotsInv
<1>3. Cardinality(Open) \in Nat
  BY FS_CardinalityType DEF SlotsInv
<1>4. free' \in Nat /\ IsFiniteSet(Open') /\ free' + Cardinality(Open') = Slots
  BY <1>1, <1>2, <1>3, SlotsAssumption DEF SlotsInv
<1> QED
  BY <1>4 DEF SlotsInv

LEMMA SlotGiven ==
    ASSUME SlotsInv, NEW c \in Conns, ~At(c, "closed"), free' = free + 1,
           At(c, "closed")', \A d \in Conns : d # c => conn'[d] = conn[d]
    PROVE  SlotsInv'
<1>1. Open' = Open \ {c} /\ c \in Open
  BY DEF Open, At
<1>2. IsFiniteSet(Open \ {c}) /\ Cardinality(Open \ {c}) = Cardinality(Open) - 1
  BY <1>1, FS_RemoveElement DEF SlotsInv
<1>3. Cardinality(Open) \in Nat
  BY FS_CardinalityType DEF SlotsInv
<1>4. free' \in Nat /\ IsFiniteSet(Open') /\ free' + Cardinality(Open') = Slots
  BY <1>1, <1>2, <1>3, SlotsAssumption DEF SlotsInv
<1> QED
  BY <1>4 DEF SlotsInv

LEMMA SlotKept ==
    ASSUME SlotsInv, UNCHANGED free,
           \A d \in Conns : At(d, "closed")' <=> At(d, "closed")
    PROVE  SlotsInv'
<1>1. Open' = Open
  BY DEF Open
<1> QED
  BY <1>1 DEF SlotsInv

LEMMA ClosedOK == HandlerOK(Closed)
<1>1. /\ Closed.at = "closed" /\ Closed.request = None /\ Closed.policy = None
      /\ Closed.permitted = FALSE /\ Closed.signed = None /\ Closed.held = <<>>
      /\ Closed.sent = <<>> /\ Closed.frames = 0
  BY DEF Closed
<1>2. Closed \in Handler
  BY FramesAssumption DEF Closed, Handler, Places
<1>3. IsOpening(<<>>) /\ IsJudged(<<>>)
  BY DEF IsOpening, IsJudged
<1> QED
  BY <1>1, <1>2, <1>3 DEF HandlerOK

\* The step of one handler to a record that is right leaves them all right.
LEMMA OthersStand ==
    ASSUME HandlersInv, NEW c \in Conns, NEW h, HandlerOK(h), conn' = [conn EXCEPT ![c] = h],
           policy' \in Policies, stored' \in Stored
    PROVE  /\ HandlersInv'
           /\ conn'[c] = h
           /\ \A d \in Conns : d # c => conn'[d] = conn[d]
<1>1. conn \in [Conns -> Handler] /\ h \in Handler /\ \A d \in Conns : HandlerOK(conn[d])
  BY DEF HandlersInv, HandlerOK
<1>2. conn' \in [Conns -> Handler]
  BY <1>1
<1>3. conn'[c] = h /\ \A d \in Conns : d # c => conn'[d] = conn[d]
  BY <1>1
<1>4. \A d \in Conns : HandlerOK(conn'[d])
  BY <1>1, <1>3
<1>5. (\A d \in Conns : HandlerOK(conn[d]))'
  BY <1>4
<1> QED
  BY <1>2, <1>3, <1>5 DEF HandlersInv

LEMMA Closes ==
    ASSUME GateInv, NEW c \in Conns, ~At(c, "closed"), Close(c)
    PROVE  GateInv'
<1>1. conn' = [conn EXCEPT ![c] = Closed] /\ free' = free + 1 /\ UNCHANGED <<policy, stored>>
  BY DEF Close
<1>2. policy' \in Policies /\ stored' \in Stored /\ HandlersInv /\ SlotsInv
  BY <1>1 DEF GateInv, HandlersInv
<1>3. HandlersInv' /\ conn'[c] = Closed /\ \A d \in Conns : d # c => conn'[d] = conn[d]
  BY <1>1, <1>2, ClosedOK, OthersStand
<1>4. At(c, "closed")'
  BY <1>3 DEF At, Closed
<1>5. SlotsInv'
  BY <1>1, <1>2, <1>3, <1>4, SlotGiven
<1> QED
  BY <1>3, <1>5 DEF GateInv

\* A handler goes on to a record that is right, and stays open.
LEMMA GoesOn ==
    ASSUME GateInv, NEW c \in Conns, ~At(c, "closed"), NEW h, HandlerOK(h), h.at # "closed",
           conn' = [conn EXCEPT ![c] = h], UNCHANGED <<policy, stored, free>>
    PROVE  GateInv'
<1>1. policy' \in Policies /\ stored' \in Stored /\ HandlersInv /\ SlotsInv
  BY DEF GateInv, HandlersInv
<1>2. HandlersInv' /\ conn'[c] = h /\ \A d \in Conns : d # c => conn'[d] = conn[d]
  BY <1>1, OthersStand
<1>3. \A d \in Conns : At(d, "closed")' <=> At(d, "closed")
  BY <1>2 DEF At
<1>4. SlotsInv'
  BY <1>1, <1>3, SlotKept
<1> QED
  BY <1>2, <1>4 DEF GateInv

\* What a handler's record is, before the step.
LEMMA HandlerIs ==
    ASSUME GateInv, NEW c \in Conns
    PROVE  /\ HandlerOK(conn[c]) /\ conn[c] \in Handler
           /\ conn \in [Conns -> Handler]
           /\ policy \in Policies /\ stored \in Stored
  BY DEF GateInv, HandlersInv

-----------------------------------------------------------------------------
(* The steps of a handler.                                                 *)

LEMMA AcceptKeeps ==
    ASSUME GateInv, NEW c \in Conns, Accept(c)
    PROVE  GateInv'
<1> DEFINE h == [conn[c] EXCEPT !.at = "accepted"]
<1>1. /\ At(c, "closed") /\ free > 0 /\ free' = free - 1 /\ UNCHANGED <<policy, stored>>
      /\ conn' = [conn EXCEPT ![c].at = "accepted"]
  BY DEF Accept
<1>2. /\ HandlerOK(conn[c]) /\ conn[c] \in Handler /\ policy' \in Policies /\ stored' \in Stored
      /\ HandlersInv /\ SlotsInv
  BY <1>1, HandlerIs DEF GateInv
<1>3. conn' = [conn EXCEPT ![c] = h]
  BY <1>1
<1>4. /\ h \in Handler /\ h.at = "accepted" /\ h.signed = conn[c].signed
      /\ h.request = conn[c].request /\ h.held = conn[c].held /\ h.sent = conn[c].sent
  BY <1>2 DEF Handler, Places
<1> HIDE DEF h
<1>5. HandlerOK(h)
  BY <1>1, <1>2, <1>4 DEF HandlerOK, At
<1>6. HandlersInv' /\ conn'[c] = h /\ \A d \in Conns : d # c => conn'[d] = conn[d]
  BY <1>2, <1>3, <1>5, OthersStand
<1>7. ~At(c, "closed")'
  BY <1>4, <1>6 DEF At
<1>8. SlotsInv'
  BY <1>1, <1>2, <1>6, <1>7, SlotTaken
<1> QED
  BY <1>6, <1>8 DEF GateInv

LEMMA ThreadStartsKeeps ==
    ASSUME GateInv, NEW c \in Conns, ThreadStarts(c)
    PROVE  GateInv'
<1> DEFINE h == [conn[c] EXCEPT !.at = "connect"]
<1>1. /\ conn[c].at = "accepted" /\ UNCHANGED <<policy, stored, free>>
      /\ conn' = [conn EXCEPT ![c].at = "connect"]
  BY DEF ThreadStarts, At
<1>2. HandlerOK(conn[c]) /\ conn[c] \in Handler
  BY HandlerIs
<1>3. conn' = [conn EXCEPT ![c] = h]
  BY <1>1
<1>4. /\ h \in Handler /\ h.at = "connect" /\ h.signed = conn[c].signed
      /\ h.request = conn[c].request /\ h.held = conn[c].held /\ h.sent = conn[c].sent
  BY <1>2 DEF Handler, Places
<1> HIDE DEF h
<1>5. HandlerOK(h)
  BY <1>1, <1>2, <1>4 DEF HandlerOK
<1> QED
  BY <1>1, <1>3, <1>4, <1>5, GoesOn DEF At

\* A CONNECT for a host that is refused ends the handler.
LEMMA ConnectKeeps ==
    ASSUME GateInv, NEW c \in Conns, Connect(c)
    PROVE  GateInv'
<1>1. conn[c].at = "connect"
  BY DEF Connect, At
<1>2. PICK request \in Requests :
          \/ /\ conn' = [conn EXCEPT ![c].at = "head", ![c].request = request, ![c].policy = policy]
             /\ UNCHANGED <<policy, stored, free>>
          \/ Close(c)
  BY DEF Connect
<1> DEFINE h == [conn[c] EXCEPT !.at = "head", !.request = request, !.policy = policy]
<1>3. HandlerOK(conn[c]) /\ conn[c] \in Handler /\ policy \in Policies
  BY HandlerIs
<1>4. ASSUME conn' = [conn EXCEPT ![c].at = "head", ![c].request = request, ![c].policy = policy],
             UNCHANGED <<policy, stored, free>>
      PROVE  GateInv'
  <2>1. conn' = [conn EXCEPT ![c] = h]
    BY <1>4
  <2>2. /\ h \in Handler /\ h.at = "head" /\ h.signed = conn[c].signed
        /\ h.held = conn[c].held /\ h.sent = conn[c].sent
    BY <1>3 DEF Handler, Places
  <2> HIDE DEF h
  <2>3. HandlerOK(h)
    BY <1>1, <1>3, <2>2 DEF HandlerOK
  <2> QED
    BY <1>1, <1>4, <2>1, <2>2, <2>3, GoesOn DEF At
<1>5. CASE Close(c)
  BY <1>1, <1>5, Closes DEF At
<1> QED
  BY <1>2, <1>4, <1>5

LEMMA ReceiveKeeps ==
    ASSUME GateInv, NEW c \in Conns, Receive(c)
    PROVE  GateInv'
<1> DEFINE may == Permits(policy, conn[c].request)
           h == [conn[c] EXCEPT !.at = "judge", !.policy = policy, !.permitted = may]
<1>1. conn[c].at = "head"
  BY DEF Receive, At
<1>2. HandlerOK(conn[c]) /\ conn[c] \in Handler /\ policy \in Policies
  BY HandlerIs
<1>3. /\ conn' = [conn EXCEPT ![c].at = "judge", ![c].policy = policy, ![c].permitted = may]
      /\ UNCHANGED <<policy, stored, free>>
  BY DEF Receive, LoadForRequest
<1>4. may \in BOOLEAN
  BY DEF Permits
<1>5. (Permits(policy, conn[c].request) => may) /\ h.policy = policy /\ h.request = conn[c].request
  BY <1>2 DEF Handler
<1> HIDE DEF may
<1>6. conn' = [conn EXCEPT ![c] = h]
  BY <1>3
<1>7. /\ h \in Handler /\ h.at = "judge" /\ h.signed = conn[c].signed /\ h.permitted = may
      /\ h.held = conn[c].held /\ h.sent = conn[c].sent
  BY <1>2, <1>4 DEF Handler, Places
<1> HIDE DEF h
<1>8. Permits(h.policy, h.request) => h.permitted
  BY <1>5, <1>7
<1>9. HandlerOK(h)
  BY <1>1, <1>2, <1>5, <1>7, <1>8 DEF HandlerOK
<1> QED
  BY <1>1, <1>3, <1>6, <1>7, <1>9, GoesOn DEF At

\* What the policy and the stored credential let through together, the policy
\* permits.
LEMMA JudgeKeeps ==
    ASSUME GateInv, NEW c \in Conns, Judge(c)
    PROVE  GateInv'
<1> DEFINE h == [conn[c] EXCEPT !.at = "rewrite"]
<1>1. conn[c].at = "judge"
  BY DEF Judge, At
<1>2. HandlerOK(conn[c]) /\ conn[c] \in Handler /\ stored \in Stored
  BY HandlerIs
<1>3. CASE RequestAllowed(conn[c].policy, stored, conn[c].request)
  <2>1. conn' = [conn EXCEPT ![c].at = "rewrite"] /\ UNCHANGED <<policy, stored, free>>
    BY <1>3 DEF Judge
  <2>2. conn[c].permitted /\ Enabled(conn[c].policy, Owner(conn[c].request.host))
    BY <1>1, <1>2, <1>3 DEF HandlerOK, Permits, RequestAllowed
  <2>3. conn' = [conn EXCEPT ![c] = h]
    BY <2>1
  <2>4. /\ h \in Handler /\ h.at = "rewrite" /\ h.signed = conn[c].signed
        /\ h.policy = conn[c].policy
        /\ h.permitted = conn[c].permitted /\ h.request = conn[c].request
        /\ h.held = conn[c].held /\ h.sent = conn[c].sent
    BY <1>2 DEF Handler, Places
  <2> HIDE DEF h
  <2>5. HandlerOK(h)
    BY <1>1, <1>2, <2>2, <2>4 DEF HandlerOK
  <2> QED
    BY <1>1, <2>1, <2>3, <2>4, <2>5, GoesOn DEF At
<1>4. CASE ~RequestAllowed(conn[c].policy, stored, conn[c].request)
  <2>1. Close(c)
    BY <1>4 DEF Judge
  <2> QED
    BY <1>1, <2>1, Closes DEF At
<1> QED
  BY <1>3, <1>4

\* The credential read again signs only what is in its own scope.
LEMMA RewriteKeeps ==
    ASSUME GateInv, NEW c \in Conns, Rewrite(c)
    PROVE  GateInv'
<1> DEFINE key == IF Signs(conn[c].request) THEN stored.region ELSE None
           h == [conn[c] EXCEPT !.at = "send", !.signed = key]
<1>1. conn[c].at = "rewrite"
  BY DEF Rewrite, At
<1>2. HandlerOK(conn[c]) /\ conn[c] \in Handler /\ stored \in Stored
  BY HandlerIs
<1>3. /\ conn' = [conn EXCEPT ![c].at = "send", ![c].signed = key]
      /\ UNCHANGED <<policy, stored, free>>
  BY DEF Rewrite
<1>4. key \in Regions \cup {None}
  BY <1>2 DEF Stored
<1>5. key # None => conn[c].request.host = RegionHost(key)
  BY DEF Signs, InScope
<1> HIDE DEF key
<1>6. conn' = [conn EXCEPT ![c] = h]
  BY <1>3
<1>7. /\ h \in Handler /\ h.at = "send" /\ h.signed = key /\ h.request = conn[c].request
      /\ h.policy = conn[c].policy
      /\ h.permitted = conn[c].permitted /\ h.held = conn[c].held /\ h.sent = conn[c].sent
  BY <1>2, <1>4 DEF Handler, Places
<1> HIDE DEF h
<1>8. HandlerOK(h)
  BY <1>1, <1>2, <1>5, <1>7 DEF HandlerOK
<1> QED
  BY <1>1, <1>3, <1>6, <1>7, <1>8, GoesOn DEF At

LEMMA SendKeeps ==
    ASSUME GateInv, NEW c \in Conns, Send(c)
    PROVE  GateInv'
<1> DEFINE h == [conn[c] EXCEPT !.at = "tunnel"]
<1>1. conn[c].at = "send"
  BY DEF Send, At
<1>2. HandlerOK(conn[c]) /\ conn[c] \in Handler
  BY HandlerIs
<1>3. CASE conn[c].request.upgrade
  <2>1. conn' = [conn EXCEPT ![c].at = "tunnel"] /\ UNCHANGED <<policy, stored, free>>
    BY <1>3 DEF Send
  <2>2. conn' = [conn EXCEPT ![c] = h]
    BY <2>1
  <2>3. /\ h \in Handler /\ h.at = "tunnel" /\ h.signed = conn[c].signed
        /\ h.policy = conn[c].policy
        /\ h.request = conn[c].request /\ h.held = conn[c].held /\ h.sent = conn[c].sent
    BY <1>2 DEF Handler, Places
  <2> HIDE DEF h
  <2>4. h.sent = <<>> /\ IsJudged(<<>>)
    BY <1>1, <1>2, <2>3 DEF HandlerOK, IsJudged
  <2>5. HandlerOK(h)
    BY <1>1, <1>2, <2>3, <2>4 DEF HandlerOK
  <2> QED
    BY <1>1, <2>1, <2>2, <2>3, <2>5, GoesOn DEF At
<1>4. CASE ~conn[c].request.upgrade
  <2>1. Close(c)
    BY <1>4 DEF Send
  <2> QED
    BY <1>1, <2>1, Closes DEF At
<1> QED
  BY <1>3, <1>4

LEMMA PassKeeps ==
    ASSUME GateInv, NEW c \in Conns, At(c, "tunnel"), conn[c].frames < MaxFrames,
           NEW sent \in Seq(Frames), NEW held \in Seq(Frames), IsOpening(held),
           conn[c].request.host \in GuardedHosts => IsJudged(sent),
           Pass(c, sent, held)
    PROVE  GateInv'
<1> DEFINE h == [conn[c] EXCEPT !.sent = sent, !.held = held, !.frames = @ + 1]
<1>1. HandlerOK(conn[c]) /\ conn[c] \in Handler
  BY HandlerIs
<1>2. /\ conn' = [conn EXCEPT ![c].sent = sent, ![c].held = held, ![c].frames = @ + 1]
      /\ UNCHANGED <<policy, stored, free>>
  BY DEF Pass
<1>3. conn' = [conn EXCEPT ![c] = h]
  BY <1>2
<1>4. conn[c].frames + 1 \in 0 .. MaxFrames
  BY <1>1, FramesAssumption DEF Handler
<1>5. /\ h \in Handler /\ h.at = conn[c].at /\ h.signed = conn[c].signed
      /\ h.policy = conn[c].policy
      /\ h.request = conn[c].request /\ h.held = held /\ h.sent = sent
  BY <1>1, <1>4 DEF Handler
<1> HIDE DEF h
<1>6. HandlerOK(h)
  BY <1>1, <1>5 DEF HandlerOK, At
<1> QED
  BY <1>2, <1>3, <1>5, <1>6, GoesOn DEF At

LEMMA FeedKeeps ==
    ASSUME GateInv, NEW c \in Conns, Feed(c)
    PROVE  GateInv'
<1>1. At(c, "tunnel") /\ conn[c].frames < MaxFrames
  BY DEF Feed
<1> DEFINE held == conn[c].held
           sent == conn[c].sent
           guarded == conn[c].request.host \in GuardedHosts
<1>2. /\ held \in Seq(Frames) /\ sent \in Seq(Frames) /\ IsOpening(held)
      /\ guarded => IsJudged(sent) /\ ~Opaque(c)
  BY <1>1, HandlerIs DEF HandlerOK, Handler, Opaque, Inspected, At
<1>3. PICK frame \in Frames :
          IF Opaque(c) \/ frame.op = "control" THEN Pass(c, Append(sent, frame), held)
          ELSE IF Uninspectable(held, frame) \/ Clears(held, frame).denied THEN Close(c)
          ELSE IF Clears(held, frame).ready THEN Pass(c, sent \o Append(held, frame), <<>>)
          ELSE Pass(c, sent, Append(held, frame))
  BY DEF Feed
<1> HIDE DEF held, sent
<1>4. CASE Opaque(c) \/ frame.op = "control"
  <2>1. Pass(c, Append(sent, frame), held)
    BY <1>3, <1>4
  <2>2. ASSUME guarded
        PROVE  IsJudged(Append(sent, frame))
    <3>1. ~IsData(frame) /\ IsJudged(sent)
      BY <1>2, <1>4, <2>2 DEF IsData
    <3> QED
      BY <1>2, <3>1, ControlPasses
  <2>3. Append(sent, frame) \in Seq(Frames)
    BY <1>2
  <2> QED
    BY <1>1, <1>2, <2>1, <2>2, <2>3, PassKeeps
<1>5. CASE ~Opaque(c) /\ frame.op # "control" /\ (Uninspectable(held, frame) \/ Clears(held, frame).denied)
  <2>1. Close(c)
    BY <1>3, <1>5
  <2> QED
    BY <1>1, <2>1, Closes DEF At
<1>6. CASE /\ ~Opaque(c) /\ frame.op # "control"
           /\ ~Uninspectable(held, frame) /\ ~Clears(held, frame).denied
           /\ Clears(held, frame).ready
  <2>1. Pass(c, sent \o Append(held, frame), <<>>) /\ IsData(frame)
    BY <1>3, <1>6 DEF IsData
  <2>2. frame.fin /\ ~MessageDenied(PayloadsOf(Append(held, frame)))
    BY <1>6 DEF Clears
  <2>3. sent \o Append(held, frame) \in Seq(Frames)
    BY <1>2
  <2>4. guarded => IsJudged(sent \o Append(held, frame))
    BY <1>2, <1>6, <2>1, <2>2, MessageGoes
  <2>5. <<>> \in Seq(Frames) /\ IsOpening(<<>>)
    BY DEF IsOpening
  <2> QED
    BY <1>1, <2>1, <2>3, <2>4, <2>5, PassKeeps
<1>7. CASE /\ ~Opaque(c) /\ frame.op # "control"
           /\ ~Uninspectable(held, frame) /\ ~Clears(held, frame).denied
           /\ ~Clears(held, frame).ready
  <2>1. Pass(c, sent, Append(held, frame)) /\ IsData(frame)
    BY <1>3, <1>7 DEF IsData
  <2>2. ~frame.fin
    BY <1>7 DEF Clears
  <2>3. Append(held, frame) \in Seq(Frames) /\ IsOpening(Append(held, frame))
    BY <1>2, <1>7, <2>1, <2>2, HeldOn
  <2> QED
    BY <1>1, <1>2, <2>1, <2>3, PassKeeps
<1> QED
  BY <1>4, <1>5, <1>6, <1>7

-----------------------------------------------------------------------------
(* What changes under the handlers.                                        *)

\* A newer policy can only permit more of what is under way.
LEMMA PolicyChangesKeeps ==
    ASSUME GateInv, PolicyChanges
    PROVE  GateInv'
<1>1. PICK p \in Policies :
          /\ policy' = p
          /\ conn' = [c \in Conns |->
                        IF conn[c].at \in {"judge", "rewrite", "send"}
                          THEN [conn[c] EXCEPT !.permitted = @ \/ Permits(p, conn[c].request)]
                          ELSE conn[c]]
  BY DEF PolicyChanges
<1>2. UNCHANGED <<stored, free>>
  BY DEF PolicyChanges
<1>3. ASSUME NEW c \in Conns
      PROVE  HandlerOK(conn'[c]) /\ conn'[c].at = conn[c].at
  <2> DEFINE may == conn[c].permitted \/ Permits(p, conn[c].request)
             h == [conn[c] EXCEPT !.permitted = may]
  <2>1. HandlerOK(conn[c]) /\ conn[c] \in Handler
    BY HandlerIs
  <2>2. conn'[c] = IF conn[c].at \in {"judge", "rewrite", "send"} THEN h ELSE conn[c]
    BY <1>1
  <2>3. may \in BOOLEAN /\ (conn[c].permitted => may)
    BY <2>1 DEF Handler, Permits
  <2> HIDE DEF may
  <2>4. /\ h \in Handler /\ h.at = conn[c].at /\ h.policy = conn[c].policy
        /\ h.request = conn[c].request /\ h.signed = conn[c].signed
        /\ h.permitted = may /\ h.held = conn[c].held /\ h.sent = conn[c].sent
    BY <2>1, <2>3 DEF Handler
  <2> HIDE DEF h
  <2>5. HandlerOK(h)
    BY <2>1, <2>3, <2>4 DEF HandlerOK
  <2> QED
    BY <2>1, <2>2, <2>4, <2>5
<1>4. (\A c \in Conns : HandlerOK(conn[c]))'
  BY <1>3
<1>5. conn' \in [Conns -> Handler]
  <2>1. \A c \in Conns : conn'[c] \in Handler
    BY <1>3 DEF HandlerOK
  <2> QED
    BY <1>1, <2>1
<1>6. HandlersInv'
  BY <1>1, <1>2, <1>4, <1>5, HandlerIs DEF GateInv, HandlersInv
<1>7. SlotsInv'
  BY <1>2, <1>3, SlotKept DEF GateInv, At
<1> QED
  BY <1>6, <1>7 DEF GateInv

LEMMA StoredChangesKeeps ==
    ASSUME GateInv, UNCHANGED <<policy, free, conn>>, stored' \in Stored
    PROVE  GateInv'
<1>1. HandlersInv'
  BY DEF GateInv, HandlersInv
<1>2. SlotsInv'
  BY SlotKept DEF GateInv, At
<1> QED
  BY <1>1, <1>2 DEF GateInv

LEMMA GateInvInit == Init => GateInv
<1> SUFFICES ASSUME Init
             PROVE  GateInv
  OBVIOUS
<1>1. policy \in Policies /\ stored \in Stored
  BY DEF Init, Stored
<1>2. conn = [c \in Conns |-> Closed] /\ free = Slots
  BY DEF Init
<1>3. conn \in [Conns -> Handler] /\ \A c \in Conns : HandlerOK(conn[c])
  BY <1>2, ClosedOK DEF HandlerOK
<1>4. Open = {}
  BY <1>2 DEF Open, At, Closed
<1>5. IsFiniteSet(Open) /\ Cardinality(Open) = 0
  BY <1>4, FS_EmptySet
<1> QED
  BY <1>1, <1>2, <1>3, <1>5, SlotsAssumption DEF GateInv, HandlersInv, SlotsInv

LEMMA GateInvNext == GateInv /\ [Next]_vars => GateInv'
<1> SUFFICES ASSUME GateInv, [Next]_vars
             PROVE  GateInv'
  OBVIOUS
<1>1. ASSUME NEW c \in Conns, Accept(c)
      PROVE  GateInv'
  BY <1>1, AcceptKeeps
<1>2. ASSUME NEW c \in Conns, ThreadStarts(c)
      PROVE  GateInv'
  BY <1>2, ThreadStartsKeeps
<1>3. ASSUME NEW c \in Conns, ThreadFails(c)
      PROVE  GateInv'
  BY <1>3, Closes DEF ThreadFails, At
<1>4. ASSUME NEW c \in Conns, Abort(c)
      PROVE  GateInv'
  BY <1>4, Closes DEF Abort, At
<1>5. ASSUME NEW c \in Conns, Connect(c)
      PROVE  GateInv'
  BY <1>5, ConnectKeeps
<1>6. ASSUME NEW c \in Conns, Receive(c)
      PROVE  GateInv'
  BY <1>6, ReceiveKeeps
<1>7. ASSUME NEW c \in Conns, Judge(c)
      PROVE  GateInv'
  BY <1>7, JudgeKeeps
<1>8. ASSUME NEW c \in Conns, Rewrite(c)
      PROVE  GateInv'
  BY <1>8, RewriteKeeps
<1>9. ASSUME NEW c \in Conns, Send(c)
      PROVE  GateInv'
  BY <1>9, SendKeeps
<1>10. ASSUME NEW c \in Conns, Feed(c)
       PROVE  GateInv'
  BY <1>10, FeedKeeps
<1>11. CASE PolicyChanges
  BY <1>11, PolicyChangesKeeps
<1>12. CASE CredentialChanges
  <2>1. UNCHANGED <<policy, free, conn>> /\ stored' \in Stored
    BY <1>12, HandlerIs DEF CredentialChanges, GateInv, HandlersInv, Stored
  <2> QED
    BY <2>1, StoredChangesKeeps
<1>13. CASE PinChanges
  <2>1. UNCHANGED <<policy, free, conn>> /\ stored' \in Stored
    BY <1>13 DEF PinChanges, GateInv, HandlersInv, Stored
  <2> QED
    BY <2>1, StoredChangesKeeps
<1>14. CASE UNCHANGED vars
  <2>1. UNCHANGED <<policy, free, conn>> /\ stored' \in Stored
    BY <1>14 DEF vars, GateInv, HandlersInv
  <2> QED
    BY <2>1, StoredChangesKeeps
<1> QED
  BY <1>1, <1>2, <1>3, <1>4, <1>5, <1>6, <1>7, <1>8, <1>9, <1>10, <1>11, <1>12, <1>13, <1>14
  DEF Next

LEMMA GateInvAlways == Spec => []GateInv
  BY GateInvInit, GateInvNext, PTL DEF Spec

-----------------------------------------------------------------------------
(* The theorems.                                                           *)

\* Every reachable state is well typed; above all, what is held and what has been
\* sent on a tunnel are frames, and the free slots stay between none and all.
THEOREM ProxyTypeCorrect == Spec => []TypeOK
<1>1. GateInv => TypeOK
  <2> SUFFICES ASSUME GateInv
               PROVE  TypeOK
    OBVIOUS
  <2>1. policy \in Policies /\ stored \in Stored
    BY DEF GateInv, HandlersInv
  <2>2. free \in 0 .. Slots
    <3>1. Cardinality(Open) \in Nat
      BY FS_CardinalityType DEF GateInv, SlotsInv
    <3> QED
      BY <3>1, SlotsAssumption DEF GateInv, SlotsInv
  <2>3. ASSUME NEW c \in Conns
        PROVE  /\ DOMAIN conn[c] = DOMAIN Closed
               /\ conn[c].at \in Places
               /\ conn[c].request \in Requests \cup {None}
               /\ conn[c].policy \in Policies \cup {None}
               /\ conn[c].permitted \in BOOLEAN
               /\ conn[c].signed \in Regions \cup {None}
               /\ conn[c].held \in Seq(Frames)
               /\ conn[c].sent \in Seq(Frames)
               /\ conn[c].frames \in 0 .. MaxFrames
    BY <2>3, HandlerIs DEF Handler, Closed
  <2> QED
    BY <2>1, <2>2, <2>3 DEF TypeOK
<1> QED
  BY <1>1, GateInvAlways, PTL

\* The free slots and the open connections are all there are: no slot is lost or
\* given twice, whether a handler's thread could not start, its CONNECT was refused,
\* its request was denied or either side went away (BoundedThreadingHTTPServer).
THEOREM SlotsAreExact == Spec => []SlotsExact
<1>1. GateInv => SlotsExact
  BY DEF GateInv, SlotsInv, SlotsExact, Open
<1> QED
  BY <1>1, GateInvAlways, PTL

\* A request that goes upstream was permitted by a policy in force since it was
\* received, however the policy changed after its CONNECT (_serve_tls_request).
THEOREM SentIsPermitted == Spec => []PermittedWhenSent
<1>1. GateInv => PermittedWhenSent
  BY DEF GateInv, HandlersInv, HandlerOK, PermittedWhenSent, At
<1> QED
  BY <1>1, GateInvAlways, PTL

\* A request is signed with the stored key of the region it goes to or not at all,
\* however the credential was replaced since it was judged.
THEOREM SignedForRegion == Spec => []SignedForItsRegion
<1>1. GateInv => SignedForItsRegion
  BY DEF GateInv, HandlersInv, HandlerOK, SignedForItsRegion
<1> QED
  BY <1>1, GateInvAlways, PTL

\* What a tunnel to a guarded host has sent upstream is whole messages, each of which
\* the guard let pass as a whole, for frames of any number and any fragmentation
\* (ws_message_guard, WebSocketClientGuard.feed): such a tunnel is never opaque, since
\* the policy that judged its handshake has its integration on.
THEOREM UpstreamJudged == Spec => []UpstreamIsJudged
<1>1. GateInv => UpstreamIsJudged
  BY DEF GateInv, HandlersInv, HandlerOK, UpstreamIsJudged, IsJudged, At
<1> QED
  BY <1>1, GateInvAlways, PTL

-----------------------------------------------------------------------------
(* Which writes GitHub's guard lets through.  An address under a repository *)
(* is a head that names it and a tail, and guard and GitHub both look at    *)
(* the tail.                                                                *)

\* The words that addresses are made of, as far as the guard tells them apart.
Words ==
    {"contents", "README", ".github", "ci", "git", "blobs", "refs", "main", "trees",
     "commits", "merges", "merge-upstream", "pulls", "1", "merge", "update-branch",
     "issues", "forks", "keys", "hooks", "statuses", "c", "releases", "branches",
     "protection", "tags", "actions", "secrets", "s", "artifacts", "runs", "cancel",
     "rerun", "workflows", "dispatches", "info", "git-receive-pack",
     "git-upload-pack", "lfs", "objects", "batch", "locks"}

\* A tail behind a head is what is left of the whole behind the head.
LEMMA BehindHead ==
  ASSUME NEW S, NEW head \in Seq(S), NEW tail \in Seq(S), NEW path, path = head \o tail
  PROVE  /\ path \in Seq(S) /\ Len(path) = Len(head) + Len(tail)
         /\ \A i \in 1 .. Len(head) : path[i] = head[i]
         /\ \A i \in 1 .. Len(tail) : path[Len(head) + i] = tail[i]
         /\ SubSeq(path, Len(head) + 1, Len(path)) = tail
<1> DEFINE part == SubSeq(path, Len(head) + 1, Len(path))
<1>1. /\ path \in Seq(S) /\ Len(path) = Len(head) + Len(tail)
      /\ \A i \in 1 .. Len(head) + Len(tail) :
            path[i] = IF i <= Len(head) THEN head[i] ELSE tail[i - Len(head)]
  BY ConcatProperties
<1>2. Len(head) \in Nat /\ Len(tail) \in Nat
  OBVIOUS
<1>3. \A i \in 1 .. Len(head) : path[i] = head[i]
  BY <1>1, <1>2
<1>4. ASSUME NEW i \in 1 .. Len(tail)
      PROVE  path[Len(head) + i] = tail[i]
  <2>1. /\ Len(head) + i \in 1 .. Len(head) + Len(tail) /\ ~(Len(head) + i <= Len(head))
        /\ (Len(head) + i) - Len(head) = i
    BY <1>2
  <2> QED
    BY <2>1, <1>1
<1>5. /\ part \in Seq(S) /\ Len(part) = Len(tail)
      /\ \A i \in 1 .. Len(tail) : part[i] = tail[i]
  <2>1. \A i \in Len(head) + 1 .. Len(path) : path[i] \in S
    BY <1>1, <1>2, ElementOfSeq
  <2>2. /\ part \in Seq(S)
        /\ Len(part) = IF Len(head) + 1 <= Len(path) THEN Len(path) - (Len(head) + 1) + 1 ELSE 0
        /\ \A i \in 1 .. Len(path) - (Len(head) + 1) + 1 :
              part[i] = path[(Len(head) + 1) + i - 1]
    BY <1>1, <1>2, <2>1, SubSeqProperties
  <2> HIDE DEF part
  <2>3. Len(part) = Len(tail)
    BY <2>2, <1>1, <1>2
  <2>4. ASSUME NEW i \in 1 .. Len(tail)
        PROVE  part[i] = tail[i]
    <3>1. /\ i \in 1 .. Len(path) - (Len(head) + 1) + 1
          /\ (Len(head) + 1) + i - 1 = Len(head) + i
      BY <1>1, <1>2
    <3> QED
      BY <3>1, <2>2, <1>4
  <2> QED
    BY <2>2, <2>3, <2>4
<1>6. part = tail
  <2> HIDE DEF part
  <2> QED
    BY <1>5, SeqEqual
<1> QED
  BY <1>1, <1>3, <1>4, <1>6

\* A pair begins a sequence that begins with its two elements.
LEMMA PairPrefix ==
  ASSUME NEW t \in Seq(Words), Len(t) >= 2
  PROVE  IsPrefix(<<t[1], t[2]>>, t)
<1> DEFINE pair == <<t[1], t[2]>>
<1>1. t[1] \in Words /\ t[2] \in Words /\ Len(t) \in Nat
  BY ElementOfSeq
<1>2. pair \in Seq(Words) /\ Len(pair) = 2 /\ pair[1] = t[1] /\ pair[2] = t[2]
  BY <1>1
<1>3. SubSeq(pair, 1, 2) = pair
  BY <1>2, SubSeqFull
<1> HIDE DEF pair
<1>4. SubSeq(t, 1, 2) = pair
  <2>1. \A i \in 1 .. 2 : t[i] \in Words
    BY <1>1
  <2>2. /\ SubSeq(t, 1, 2) \in Seq(Words)
        /\ Len(SubSeq(t, 1, 2)) = IF 1 <= 2 THEN 2 - 1 + 1 ELSE 0
        /\ \A i \in 1 .. 2 - 1 + 1 : SubSeq(t, 1, 2)[i] = t[1 + i - 1]
    BY <2>1, SubSeqProperties
  <2>3. Len(SubSeq(t, 1, 2)) = 2 /\ SubSeq(t, 1, 2)[1] = t[1] /\ SubSeq(t, 1, 2)[2] = t[2]
    BY <2>2
  <2>4. \A i \in 1 .. 2 : SubSeq(t, 1, 2)[i] = pair[i]
    BY <2>3, <1>2
  <2> QED
    BY <2>2, <2>3, <2>4, <1>2, SeqEqual
<1>5. Len(pair) <= Len(t) /\ SubSeq(pair, 1, Len(pair)) = SubSeq(t, 1, Len(pair))
  BY <1>2, <1>3, <1>4
<1> QED
  BY <1>5 DEF IsPrefix, pair

\* path is the repository (a, b)'s tail under /repos/.
IsUnder(path, a, b, tail) ==
    /\ tail \in Seq(Words)
    /\ Len(path) = 3 + Len(tail)
    /\ path[1] = "repos" /\ path[2] = a /\ path[3] = b
    /\ \A i \in 1 .. Len(tail) : path[3 + i] = tail[i]
    /\ SubSeq(path, 4, Len(path)) = tail
    /\ Len(SubSeq(path, 5, Len(path))) = IF tail = <<>> THEN 0 ELSE Len(tail) - 1
    /\ DOMAIN SubSeq(path, 5, Len(path)) = 1 .. Len(SubSeq(path, 5, Len(path)))
    /\ \A i \in 1 .. Len(tail) - 1 : SubSeq(path, 5, Len(path))[i] = tail[i + 1]

\* An address is what it was put together from.
LEMMA UnderIs ==
  ASSUME NEW a, NEW b, NEW tail \in Seq(Words)
  PROVE  IsUnder(<<"repos", a, b>> \o tail, a, b, tail)
<1> DEFINE S == Words \cup {"repos", a, b}
           head == <<"repos", a, b>>
           path == head \o tail
           last == SubSeq(path, 5, Len(path))
<1>0. "repos" \in S /\ a \in S /\ b \in S /\ Words \subseteq S
  BY Zenon
<1> HIDE DEF S
<1>1. head \in Seq(S) /\ Len(head) = 3 /\ head[1] = "repos" /\ head[2] = a /\ head[3] = b
  BY <1>0
<1>2. tail \in Seq(S) /\ Len(tail) \in Nat
  <2>1. Len(tail) \in Nat /\ tail \in [1 .. Len(tail) -> Words]
    BY LenProperties
  <2>2. tail \in [1 .. Len(tail) -> S]
    BY <1>0, <2>1
  <2> QED
    BY <2>1, <2>2
<1> HIDE DEF head
<1> HIDE DEF path
<1>3. /\ path \in Seq(S) /\ Len(path) = Len(head) + Len(tail)
      /\ \A i \in 1 .. Len(head) : path[i] = head[i]
      /\ \A i \in 1 .. Len(tail) : path[Len(head) + i] = tail[i]
      /\ SubSeq(path, Len(head) + 1, Len(path)) = tail
  <2>1. path = head \o tail
    BY DEF path
  <2>2. head \in Seq(S) /\ tail \in Seq(S)
    BY <1>1, <1>2
  <2> QED
    BY <2>1, <2>2, BehindHead
<1>4. /\ Len(path) = 3 + Len(tail)
      /\ path[1] = "repos" /\ path[2] = a /\ path[3] = b
      /\ \A i \in 1 .. Len(tail) : path[3 + i] = tail[i]
      /\ SubSeq(path, 4, Len(path)) = tail
  BY <1>1, <1>3
<1>5. /\ last \in Seq(S)
      /\ Len(last) = IF 5 <= Len(path) THEN Len(path) - 5 + 1 ELSE 0
      /\ \A i \in 1 .. Len(path) - 5 + 1 : last[i] = path[5 + i - 1]
  <2>1. \A i \in 5 .. Len(path) : path[i] \in S
    BY <1>2, <1>3, <1>4, ElementOfSeq
  <2> QED
    BY <2>1, <1>2, <1>4, SubSeqProperties
<1> HIDE DEF last
<1>6. Len(last) = IF tail = <<>> THEN 0 ELSE Len(tail) - 1
  <2>1. tail = <<>> <=> Len(tail) = 0
    OBVIOUS
  <2>2. Len(last) = IF 5 <= 3 + Len(tail) THEN (3 + Len(tail)) - 5 + 1 ELSE 0
    BY <1>4, <1>5
  <2>3. Len(last) = IF Len(tail) = 0 THEN 0 ELSE Len(tail) - 1
    <3>1. Len(tail) \in Nat
      BY <1>2
    <3> QED
      BY <2>2, <3>1
  <2> QED
    BY <2>1, <2>3
<1>7. ASSUME NEW i \in 1 .. Len(tail) - 1
      PROVE  last[i] = tail[i + 1]
  <2>1. /\ i \in 1 .. Len(path) - 5 + 1 /\ 5 + i - 1 = 3 + (i + 1)
        /\ i + 1 \in 1 .. Len(tail)
    BY <1>2, <1>4
  <2> QED
    BY <2>1, <1>4, <1>5
<1>8. DOMAIN last = 1 .. Len(last)
  BY <1>5
<1> QED
  BY <1>2, <1>4, <1>6, <1>7, <1>8 DEF IsUnder, last, path, head

\* What the guard takes for administration.
LEMMA AdminIs ==
  ASSUME NEW a, NEW b, NEW tail, NEW path, IsUnder(path, a, b, tail), NEW method
  PROVE  /\ tail = <<>> => AdminWrite(method, GithubApi, path)
         /\ Len(tail) >= 1 /\ tail[1] \in {"forks", "keys", "hooks", "statuses", "releases"}
               => AdminWrite(method, GithubApi, path)
         /\ Len(tail) >= 1 /\ tail[1] \in {"branches", "tags"}
               /\ (\E i \in 2 .. Len(tail) : tail[i] = "protection")
               => AdminWrite(method, GithubApi, path)
         /\ Len(tail) >= 1 /\ tail[1] = "pulls" /\ Last(tail) = "update-branch"
               => AdminWrite(method, GithubApi, path)
         /\ Len(tail) >= 2 /\ tail[1] = "actions"
               /\ \/ tail[2] \in {"secrets", "artifacts"}
                  \/ tail[2] = "workflows" /\ Last(tail) = "dispatches"
                  \/ tail[2] = "runs" /\ (method = "DELETE" \/ Last(tail) = "cancel")
               => AdminWrite(method, GithubApi, path)
<1> DEFINE last == SubSeq(path, 5, Len(path))
<1>1. /\ tail \in Seq(Words) /\ Len(tail) \in Nat
      /\ Len(path) = 3 + Len(tail)
      /\ \A i \in 1 .. Len(tail) : path[3 + i] = tail[i]
      /\ Len(last) = IF tail = <<>> THEN 0 ELSE Len(tail) - 1
      /\ DOMAIN last = 1 .. Len(last)
      /\ \A i \in 1 .. Len(tail) - 1 : last[i] = tail[i + 1]
  BY DEF IsUnder
<1> HIDE DEF last
<1>2. ASSUME Len(tail) >= 1
      PROVE  path[4] = tail[1] /\ Last(path) = Last(tail)
  <2>1. 1 \in 1 .. Len(tail) /\ Len(tail) \in 1 .. Len(tail)
    BY <1>1, <1>2
  <2>2. path[3 + 1] = tail[1] /\ path[3 + Len(tail)] = tail[Len(tail)]
    BY <1>1, <2>1
  <2> QED
    BY <1>1, <2>2 DEF Last
<1>3. ASSUME Len(tail) >= 2
      PROVE  last # <<>> /\ last[1] = tail[2]
  <2>1. 1 \in 1 .. Len(tail) - 1 /\ tail # <<>>
    BY <1>1, <1>3
  <2>2. last[1] = tail[1 + 1] /\ Len(last) # 0
    BY <1>1, <1>3, <2>1
  <2> QED
    BY <2>2
<1>4. ASSUME NEW i \in 2 .. Len(tail), tail[i] = "protection"
      PROVE  "protection" \in ToSet(last)
  <2>1. i - 1 \in 1 .. Len(tail) - 1 /\ (i - 1) + 1 = i /\ tail # <<>>
    BY <1>1
  <2>2. last[i - 1] = "protection" /\ i - 1 \in DOMAIN last
    BY <1>1, <1>4, <2>1
  <2> QED
    BY <2>2 DEF ToSet
<1>5. tail = <<>> => Len(path) = 3
  BY <1>1
<1> QED
  BY <1>2, <1>3, <1>4, <1>5 DEF AdminWrite, last

\* What the guard takes for moving content past the gate.
LEMMA MovesIs ==
  ASSUME NEW a, NEW b, NEW tail, NEW path, IsUnder(path, a, b, tail), NEW method
  PROVE  /\ Len(tail) >= 2 /\ tail[1] = "contents" /\ tail[2] = ".github"
               => MovesContent(method, path)
         /\ Len(tail) >= 2 /\ tail[1] = "git" /\ tail[2] \in {"commits", "refs", "trees"}
               => MovesContent(method, path)
         /\ Len(tail) >= 1 /\ tail[1] \in {"merges", "merge-upstream"}
               => MovesContent(method, path)
         /\ Len(tail) > 2 /\ tail[1] = "pulls" /\ tail[3] = "merge" /\ method = "PUT"
               => MovesContent(method, path)
<1>1. SubSeq(path, 4, Len(path)) = tail /\ tail \in Seq(Words)
  BY DEF IsUnder
<1>2. Len(tail) >= 2 => IsPrefix(<<tail[1], tail[2]>>, tail)
  BY <1>1, PairPrefix
<1>3. Len(tail) >= 1 => tail # <<>>
  BY <1>1
<1> QED
  BY <1>1, <1>2, <1>3 DEF MovesContent

\* The shapes of tails the guard tells apart.
TailShape(tail) ==
    \/ tail = <<>>
    \/ /\ Len(tail) >= 1
       /\ \/ tail[1] \in {"forks", "keys", "hooks", "statuses", "releases", "issues"}
          \/ tail[1] \in {"merges", "merge-upstream"}
          \/ tail[1] \in {"branches", "tags"} /\ \E i \in 2 .. Len(tail) : tail[i] = "protection"
          \/ tail[1] = "pulls" /\ Last(tail) \in {"pulls", "update-branch"}
    \/ /\ Len(tail) >= 2
       /\ \/ tail[1] = "contents"
          \/ tail[1] = "git" /\ tail[2] \in {"blobs", "refs", "trees", "commits"}
          \/ /\ tail[1] = "actions"
             /\ \/ tail[2] \in {"secrets", "artifacts", "runs"}
                \/ tail[2] = "workflows" /\ Last(tail) = "dispatches"
    \/ Len(tail) > 2 /\ tail[1] = "pulls" /\ tail[3] = "merge" /\ Last(tail) = "merge"

\* Every tail has one of the shapes.
LEMMA TailsAre == \A tail \in Tails : tail \in Seq(Words) /\ TailShape(tail)
<1>1. <<>> \in Seq(Words) /\ TailShape(<<>>)
  BY DEF TailShape, Last, Words
<1>2. <<"contents", "README">> \in Seq(Words) /\ TailShape(<<"contents", "README">>)
  BY DEF TailShape, Last, Words
<1>3. /\ <<"contents", ".github", "ci">> \in Seq(Words)
      /\ TailShape(<<"contents", ".github", "ci">>)
  BY DEF TailShape, Last, Words
<1>4. <<"git", "blobs">> \in Seq(Words) /\ TailShape(<<"git", "blobs">>)
  BY DEF TailShape, Last, Words
<1>5. <<"git", "refs", "main">> \in Seq(Words) /\ TailShape(<<"git", "refs", "main">>)
  BY DEF TailShape, Last, Words
<1>6. <<"git", "trees">> \in Seq(Words) /\ TailShape(<<"git", "trees">>)
  BY DEF TailShape, Last, Words
<1>7. <<"git", "commits">> \in Seq(Words) /\ TailShape(<<"git", "commits">>)
  BY DEF TailShape, Last, Words
<1>8. <<"merges">> \in Seq(Words) /\ TailShape(<<"merges">>)
  BY DEF TailShape, Last, Words
<1>9. <<"merge-upstream">> \in Seq(Words) /\ TailShape(<<"merge-upstream">>)
  BY DEF TailShape, Last, Words
<1>10. <<"pulls">> \in Seq(Words) /\ TailShape(<<"pulls">>)
  BY DEF TailShape, Last, Words
<1>11. <<"pulls", "1", "merge">> \in Seq(Words) /\ TailShape(<<"pulls", "1", "merge">>)
  BY DEF TailShape, Last, Words
<1>12. /\ <<"pulls", "1", "update-branch">> \in Seq(Words)
       /\ TailShape(<<"pulls", "1", "update-branch">>)
  BY DEF TailShape, Last, Words
<1>13. <<"issues">> \in Seq(Words) /\ TailShape(<<"issues">>)
  BY DEF TailShape, Last, Words
<1>14. <<"forks">> \in Seq(Words) /\ TailShape(<<"forks">>)
  BY DEF TailShape, Last, Words
<1>15. <<"keys">> \in Seq(Words) /\ TailShape(<<"keys">>)
  BY DEF TailShape, Last, Words
<1>16. <<"hooks">> \in Seq(Words) /\ TailShape(<<"hooks">>)
  BY DEF TailShape, Last, Words
<1>17. <<"statuses", "c">> \in Seq(Words) /\ TailShape(<<"statuses", "c">>)
  BY DEF TailShape, Last, Words
<1>18. <<"releases", "1">> \in Seq(Words) /\ TailShape(<<"releases", "1">>)
  BY DEF TailShape, Last, Words
<1>19. /\ <<"branches", "main", "protection">> \in Seq(Words)
       /\ TailShape(<<"branches", "main", "protection">>)
  BY DEF TailShape, Last, Words
<1>20. <<"tags", "protection">> \in Seq(Words) /\ TailShape(<<"tags", "protection">>)
  BY DEF TailShape, Last, Words
<1>21. <<"actions", "secrets", "s">> \in Seq(Words) /\ TailShape(<<"actions", "secrets", "s">>)
  BY DEF TailShape, Last, Words
<1>22. /\ <<"actions", "artifacts", "1">> \in Seq(Words)
       /\ TailShape(<<"actions", "artifacts", "1">>)
  BY DEF TailShape, Last, Words
<1>23. <<"actions", "runs", "1">> \in Seq(Words) /\ TailShape(<<"actions", "runs", "1">>)
  BY DEF TailShape, Last, Words
<1>24. /\ <<"actions", "runs", "1", "cancel">> \in Seq(Words)
       /\ TailShape(<<"actions", "runs", "1", "cancel">>)
  BY DEF TailShape, Last, Words
<1>25. /\ <<"actions", "runs", "1", "rerun">> \in Seq(Words)
       /\ TailShape(<<"actions", "runs", "1", "rerun">>)
  BY DEF TailShape, Last, Words
<1>26. /\ <<"actions", "workflows", "1", "dispatches">> \in Seq(Words)
       /\ TailShape(<<"actions", "workflows", "1", "dispatches">>)
  BY DEF TailShape, Last, Words
<1> QED
  BY <1>1, <1>2, <1>3, <1>4, <1>5, <1>6, <1>7, <1>8, <1>9, <1>10, <1>11, <1>12, <1>13, <1>14,
     <1>15, <1>16, <1>17, <1>18, <1>19, <1>20, <1>21, <1>22, <1>23, <1>24, <1>25, <1>26
     DEF Tails

\* What the guard lets a write reach in a repository: never its control, and its
\* workflows only where the guard sees content moved.
LEMMA ReachIs ==
  ASSUME NEW a, NEW b, NEW tail \in Tails, NEW path, IsUnder(path, a, b, tail),
         NEW method, ~AdminWrite(method, GithubApi, path)
  PROVE  /\ Reach(method, tail) # "control"
         /\ Reach(method, tail) = "workflows" => MovesContent(method, path)
<1>1. tail \in Seq(Words) /\ TailShape(tail) /\ Len(tail) \in Nat
  BY TailsAre
<1>2. /\ tail # <<>>
      /\ Len(tail) >= 1 =>
            /\ tail[1] \notin {"forks", "keys", "hooks", "statuses", "releases"}
            /\ ~(tail[1] \in {"branches", "tags"}
                    /\ \E i \in 2 .. Len(tail) : tail[i] = "protection")
            /\ ~(tail[1] = "pulls" /\ Last(tail) = "update-branch")
      /\ Len(tail) >= 2 /\ tail[1] = "actions" =>
            /\ tail[2] \notin {"secrets", "artifacts"}
            /\ ~(tail[2] = "workflows" /\ Last(tail) = "dispatches")
            /\ ~(tail[2] = "runs" /\ (method = "DELETE" \/ Last(tail) = "cancel"))
  BY AdminIs
<1>3. CASE Len(tail) >= 1 /\ tail[1] = "issues"
  BY <1>2, <1>3 DEF Reach
<1>4. CASE Len(tail) >= 1 /\ tail[1] \in {"merges", "merge-upstream"}
  <2>1. Reach(method, tail) = "workflows"
    BY <1>2, <1>4 DEF Reach
  <2> QED
    BY <2>1, <1>4, MovesIs
<1>5. CASE Len(tail) >= 1 /\ tail[1] = "pulls" /\ Last(tail) = "pulls"
  BY <1>2, <1>5 DEF Reach
<1>6. CASE Len(tail) >= 2 /\ tail[1] = "contents"
  <2>1. Reach(method, tail) = IF tail[2] = ".github" THEN "workflows" ELSE "content"
    BY <1>2, <1>6 DEF Reach
  <2>2. tail[2] = ".github" => MovesContent(method, path)
    BY <1>6, MovesIs
  <2> QED
    BY <2>1, <2>2
<1>7. CASE Len(tail) >= 2 /\ tail[1] = "git" /\ tail[2] \in {"blobs", "refs", "trees", "commits"}
  <2>1. Reach(method, tail) = IF tail[2] = "blobs" THEN "content" ELSE "workflows"
    BY <1>2, <1>7 DEF Reach
  <2>2. tail[2] # "blobs" => MovesContent(method, path)
    BY <1>7, MovesIs
  <2> QED
    BY <2>1, <2>2
<1>8. CASE /\ Len(tail) >= 2 /\ tail[1] = "actions"
           /\ \/ tail[2] \in {"secrets", "artifacts", "runs"}
              \/ tail[2] = "workflows" /\ Last(tail) = "dispatches"
  <2>1. tail[2] = "runs" /\ method # "DELETE" /\ Last(tail) # "cancel"
    BY <1>2, <1>8
  <2>2. Reach(method, tail) = "content"
    BY <2>1, <1>2, <1>8 DEF Reach
  <2> QED
    BY <2>2
<1>9. CASE Len(tail) > 2 /\ tail[1] = "pulls" /\ tail[3] = "merge" /\ Last(tail) = "merge"
  <2>1. Reach(method, tail) = IF method = "PUT" THEN "workflows" ELSE "content"
    BY <1>2, <1>9 DEF Reach
  <2>2. method = "PUT" => MovesContent(method, path)
    BY <1>9, MovesIs
  <2> QED
    BY <2>1, <2>2
<1> QED
  <2>1. CASE Len(tail) >= 1 /\ tail[1] \in {"forks", "keys", "hooks", "statuses", "releases", "issues"}
    BY <2>1, <1>2, <1>3
  <2>2. CASE Len(tail) >= 1 /\ tail[1] \in {"branches", "tags"}
             /\ \E i \in 2 .. Len(tail) : tail[i] = "protection"
    BY <2>2, <1>2
  <2>3. CASE Len(tail) >= 1 /\ tail[1] = "pulls" /\ Last(tail) \in {"pulls", "update-branch"}
    BY <2>3, <1>2, <1>5
  <2> QED
    BY <1>1, <1>2, <1>4, <1>6, <1>7, <1>8, <1>9, <2>1, <2>2, <2>3 DEF TailShape

\* GitHub's hosts are told apart by their labels.
LEMMA HostsDiffer ==
  /\ GithubApi # GithubWeb /\ GithubUploads # GithubWeb /\ GithubApi # GithubUploads
  /\ GithubApi \notin GithubFiles /\ GithubUploads \notin GithubFiles
  /\ GithubWeb \notin GithubFiles
<1>1. /\ Len(GithubWeb) = 2 /\ Len(GithubApi) = 3 /\ Len(GithubUploads) = 3
      /\ GithubApi[1] = "api" /\ GithubUploads[1] = "uploads"
  BY DEF GithubWeb, GithubApi, GithubUploads
<1>2. \A host \in GithubFiles :
          Len(host) = 3 /\ host[1] \in {"codeload", "raw", "objects"}
  BY DEF GithubFiles
<1> HIDE DEF GithubWeb, GithubApi, GithubUploads, GithubFiles
<1> QED
  BY <1>1, <1>2

\* A request that changes one repository in one way.
LEMMA OneEffect ==
  ASSUME NEW config, NEW r, NEW repo \in config.write, NEW how,
         Effects(r) = {<<repo, how>>}, how # "control",
         how = "workflows" /\ config.approval => Gated(config, r)
  PROVE  StaysInScope(config, r)
<1>1. ASSUME NEW effect \in Effects(r)
      PROVE  effect[1] = repo /\ effect[2] = how
  <2>1. effect = <<repo, how>>
    BY <1>1
  <2> QED
    BY <2>1
<1> QED
  BY <1>1 DEF StaysInScope

\* An admitted call of the REST API, or to the uploads host.
LEMMA ApiScope ==
  ASSUME NEW config, NEW host \in {GithubApi, GithubUploads}, NEW method \in Methods,
         NEW a, NEW b, NEW tail \in Tails, NEW path, IsUnder(path, a, b, tail),
         NEW r, r.host = host, r.method = method, r.path = path, GithubAllows(config, r)
  PROVE  StaysInScope(config, r)
<1>1. CASE method \in Reads
  BY <1>1 DEF StaysInScope, Effects
<1>2. CASE method \notin Reads
  <2>1. ApiAllows(config, method, host, path)
    BY <1>2, HostsDiffer DEF GithubAllows
  <2>2. /\ ~AdminWrite(method, host, path) /\ <<a, b>> \in config.write
        /\ config.approval /\ host = GithubApi => ~MovesContent(method, path)
    BY <1>2, <2>1 DEF ApiAllows, IsUnder
  <2>3. Effects(r) = {<<<<a, b>>, IF host = GithubUploads THEN "content" ELSE Reach(method, tail)>>}
    BY <1>2, HostsDiffer DEF Effects, ApiEffects, IsUnder
  <2>4. CASE host = GithubUploads
    <3>1. Effects(r) = {<<<<a, b>>, "content">>}
      BY <2>3, <2>4
    <3>2. "content" # "control" /\ "content" # "workflows"
      OBVIOUS
    <3> QED
      BY <2>2, <3>1, <3>2, OneEffect, Zenon
  <2>5. CASE host = GithubApi
    <3>1. /\ Reach(method, tail) # "control"
          /\ Reach(method, tail) = "workflows" => MovesContent(method, path)
      BY <2>2, <2>5, ReachIs
    <3>2. Effects(r) = {<<<<a, b>>, Reach(method, tail)>>}
      BY <2>3, <2>5, HostsDiffer
    <3> QED
      BY <2>2, <2>5, <3>1, <3>2, OneEffect
  <2> QED
    BY <2>4, <2>5
<1> QED
  BY <1>1, <1>2

\* A call that names no repository is let through only to read.
LEMMA OutsideScope ==
  ASSUME NEW config, NEW host \in {GithubApi, GithubUploads}, NEW method \in Methods,
         NEW path \in Elsewhere,
         NEW r, r.host = host, r.method = method, r.path = path, GithubAllows(config, r)
  PROVE  StaysInScope(config, r)
<1>1. Len(path) <= 2
  <2>1. Len(<<"graphql">>) = 1 /\ Len(<<"user", "repos">>) = 2 /\ Len(<<"gists">>) = 1
    OBVIOUS
  <2>2. path = <<"graphql">> \/ path = <<"user", "repos">> \/ path = <<"gists">>
    BY Zenon DEF Elsewhere
  <2>3. CASE path = <<"graphql">>
    BY <2>1, <2>3
  <2>4. CASE path = <<"user", "repos">>
    BY <2>1, <2>4
  <2>5. CASE path = <<"gists">>
    BY <2>1, <2>5
  <2> QED
    BY <2>2, <2>3, <2>4, <2>5
<1>2. ApiAllows(config, method, host, path) => method \in Reads
  BY <1>1 DEF ApiAllows
<1>3. method \in Reads
  BY <1>2, HostsDiffer DEF GithubAllows
<1> QED
  BY <1>3 DEF StaysInScope, Effects

\* A tail on the web host is a sequence of words.
LEMMA WebTailsAre == \A tail \in WebTails : tail \in Seq(Words)
<1>1. <<>> \in Seq(Words)
  BY DEF Words
<1>2. <<"info", "refs">> \in Seq(Words)
  BY DEF Words
<1>3. <<"git-receive-pack">> \in Seq(Words)
  BY DEF Words
<1>4. <<"git-upload-pack">> \in Seq(Words)
  BY DEF Words
<1>5. <<"info", "lfs", "objects", "batch">> \in Seq(Words)
  BY DEF Words
<1>6. <<"info", "lfs", "locks">> \in Seq(Words)
  BY DEF Words
<1> QED
  BY <1>1, <1>2, <1>3, <1>4, <1>5, <1>6 DEF WebTails

\* path is that tail under the repository on the web host.
IsWebUnder(path, a, b, tail) ==
    /\ Len(path) = 2 + Len(tail) /\ path[1] = a /\ path[2] = b
    /\ SubSeq(path, 3, Len(path)) = tail
    /\ Len(tail) >= 1 => path[3] = tail[1]

\* So is an address on the web host.
LEMMA WebUnderIs ==
  ASSUME NEW a, NEW b, NEW tail \in Seq(Words)
  PROVE  IsWebUnder(<<a, b>> \o tail, a, b, tail)
<1> DEFINE S == Words \cup {a, b}
           head == <<a, b>>
           path == head \o tail
<1>1. a \in S /\ b \in S /\ Words \subseteq S
  BY Zenon
<1> HIDE DEF S
<1>2. head \in Seq(S) /\ Len(head) = 2 /\ head[1] = a /\ head[2] = b
  BY <1>1
<1>3. tail \in Seq(S) /\ Len(tail) \in Nat
  <2>1. Len(tail) \in Nat /\ tail \in [1 .. Len(tail) -> Words]
    BY LenProperties
  <2>2. tail \in [1 .. Len(tail) -> S]
    BY <1>1, <2>1
  <2> QED
    BY <2>1, <2>2
<1> HIDE DEF head
<1> HIDE DEF path
<1>4. /\ path \in Seq(S) /\ Len(path) = Len(head) + Len(tail)
      /\ \A i \in 1 .. Len(head) : path[i] = head[i]
      /\ \A i \in 1 .. Len(tail) : path[Len(head) + i] = tail[i]
      /\ SubSeq(path, Len(head) + 1, Len(path)) = tail
  <2>1. path = head \o tail
    BY DEF path
  <2>2. head \in Seq(S) /\ tail \in Seq(S)
    BY <1>2, <1>3
  <2> QED
    BY <2>1, <2>2, BehindHead
<1>5. /\ Len(path) = 2 + Len(tail) /\ path[1] = a /\ path[2] = b
      /\ SubSeq(path, 3, Len(path)) = tail
      /\ Len(tail) >= 1 => path[3] = tail[1]
  BY <1>2, <1>3, <1>4
<1> QED
  BY <1>5 DEF IsWebUnder, path, head

\* An admitted request to the web host: a push to a listed repository, which the gate
\* looks into, or nothing that changes anything.
LEMMA WebScope ==
  ASSUME NEW config, NEW method \in Methods, NEW a, NEW b, NEW tail \in WebTails,
         NEW path, IsWebUnder(path, a, b, tail),
         NEW r, r.host = GithubWeb, r.method = method, r.path = path,
         GithubAllows(config, r)
  PROVE  StaysInScope(config, r)
<1>1. tail \in Seq(Words) /\ Len(tail) \in Nat
  BY WebTailsAre
<1>2. /\ Len(path) = 2 + Len(tail) /\ path[1] = a /\ path[2] = b
      /\ SubSeq(path, 3, Len(path)) = tail
      /\ Len(tail) >= 1 => path[3] = tail[1]
  BY DEF IsWebUnder
<1>3. CASE method \in Reads
  BY <1>3 DEF StaysInScope, Effects
<1>4. CASE method \notin Reads
  <2>1. method = "POST" /\ WebAllows(config, r)
    BY <1>4, HostsDiffer DEF GithubAllows
  <2>2. Effects(r) = WebEffects(r)
    BY <1>4 DEF Effects
  <2>3. CASE tail = <<"git-receive-pack">>
    <3>1. Len(tail) = 1 /\ tail[1] = "git-receive-pack" /\ tail # <<"git-upload-pack">>
      BY <2>3
    <3>2. PushStep(r)
      BY <1>2, <2>1, <2>3, <3>1 DEF PushStep
    <3>3. <<a, b>> \in config.write
      BY <1>2, <2>1, <3>2 DEF WebAllows
    <3>4. WebEffects(r) = {<<<<a, b>>, "workflows">>}
      BY <1>2, <2>3, <3>1 DEF WebEffects
    <3>5. config.approval => Gated(config, r)
      BY <1>2, <2>1, <3>1 DEF Gated
    <3> QED
      BY <2>2, <3>3, <3>4, <3>5, OneEffect
  <2>4. CASE tail # <<"git-receive-pack">>
    <3>1. ~PushStep(r)
      BY <1>2, <1>4, <2>1, <2>4 DEF PushStep
    <3>2. \/ tail = <<"info", "lfs", "objects", "batch">> /\ r.body.extras = {"download"}
          \/ tail = <<"git-upload-pack">>
      BY <1>2, <1>4, <2>1, <3>1 DEF WebAllows
    <3>3. WebEffects(r) = {}
      <4>1. <<"info", "lfs", "objects", "batch">> # <<"git-upload-pack">>
            /\ <<"info", "lfs", "objects", "batch">> # <<"git-receive-pack">>
            /\ <<"git-upload-pack">> # <<"git-receive-pack">>
        OBVIOUS
      <4> QED
        BY <1>2, <3>2, <4>1 DEF WebEffects
    <3> QED
      BY <2>2, <3>3 DEF StaysInScope
  <2> QED
    BY <2>3, <2>4
<1> QED
  BY <1>3, <1>4

\* For any configuration and any repositories, whatever an admitted request changes is
\* in a listed repository, is not its control, and is not its workflows unless the gate
\* looks (guard.request_denied).
THEOREM AdmittedStayInScope ==
  ASSUME NEW config, NEW repos, NEW r \in GithubAsks(repos), GithubAllows(config, r)
  PROVE  StaysInScope(config, r)
<1> DEFINE apiPaths == {ApiPath(repo, tail) : repo \in repos, tail \in Tails}
           webPaths == {WebPath(repo, tail) : repo \in repos, tail \in WebTails}
<1>1. ASSUME r \in ApiAsks(Elsewhere \cup apiPaths)
      PROVE  StaysInScope(config, r)
  <2>1. PICK host \in {GithubApi, GithubUploads}, method \in Methods,
             path \in Elsewhere \cup apiPaths : r = Ask(host, method, path, "none", {})
    BY <1>1 DEF ApiAsks
  <2>2. r.host = host /\ r.method = method /\ r.path = path
    BY <2>1 DEF Ask
  <2>3. CASE path \in Elsewhere
    BY <2>2, <2>3, OutsideScope
  <2>4. CASE path \in apiPaths
    <3>1. PICK repo \in repos, tail \in Tails : path = ApiPath(repo, tail)
      BY <2>4
    <3>2. IsUnder(path, repo[1], repo[2], tail)
      BY <3>1, UnderIs, TailsAre DEF ApiPath
    <3> QED
      BY <2>2, <3>2, ApiScope
  <2> QED
    BY <2>1, <2>3, <2>4
<1>2. ASSUME r \in WebAsks(webPaths)
      PROVE  StaysInScope(config, r)
  <2>1. PICK method \in Methods, path \in webPaths, query \in {"none", "receive"},
             extras \in {{}, {"download"}, {"upload"}} :
            r = Ask(GithubWeb, method, path, query, extras)
    BY <1>2 DEF WebAsks
  <2>2. r.host = GithubWeb /\ r.method = method /\ r.path = path
    BY <2>1 DEF Ask
  <2>3. PICK repo \in repos, tail \in WebTails : path = WebPath(repo, tail)
    BY <2>1
  <2>4. IsWebUnder(path, repo[1], repo[2], tail)
    BY <2>3, WebUnderIs, WebTailsAre DEF WebPath
  <2> QED
    BY <2>2, <2>4, WebScope
<1> QED
  BY <1>1, <1>2 DEF GithubAsks

\* Whatever the policies the operator may store, under the GitHub policy in force what
\* an admitted request changes stays in the listed repositories, off their control, and
\* off their workflows unless the gate looks.
THEOREM WritesInScope == Spec => []WritesStayInScope
<1>1. GateInv => WritesStayInScope
  <2> SUFFICES ASSUME GateInv
               PROVE  policy.github \in ScopedConfigs
    BY DEF WritesStayInScope
  <2>1. policy.github \in {p.github : p \in Policies}
    BY DEF GateInv, HandlersInv
  <2>2. \A request \in GithubAsks(Listed \cup Unlisted) :
            GithubAllows(policy.github, request) => StaysInScope(policy.github, request)
    BY AdmittedStayInScope
  <2> QED
    BY <2>1, <2>2 DEF ScopedConfigs
<1> QED
  BY <1>1, GateInvAlways, PTL

-----------------------------------------------------------------------------
(* The meter of Bedrock responses.  The buffer of an invocation that has    *)
(* not overflowed holds the first parts of its response, as many as were    *)
(* relayed; parsing a prefix yields the reported usage or none.             *)

Parts == [kind : {"interim", "head", "delta", "metadata", "opening", "closing", "last"},
          of : Shapes]

\* The parts of a response by their number.
PartsOf(r) == r.interim + IF r.chunked THEN 4 ELSE 3
KindAt(r, i) ==
    IF i <= r.interim THEN "interim"
    ELSE IF i = r.interim + 1 THEN "head"
    ELSE IF i = r.interim + 2 THEN IF r.stream THEN "delta" ELSE "opening"
    ELSE IF i = r.interim + 3 THEN Carrier(r)
    ELSE "last"

\* raw is the first k parts of the response r.
IsReceived(raw, r, k) ==
    /\ raw \in Seq(Parts)
    /\ Len(raw) = k
    /\ \A i \in 1 .. k : raw[i] = Part(KindAt(r, i), r)

MeterRecord ==
    [at : {"idle", "relays", "done"}, model : Priced \cup Unpriced \cup {Bucket},
     response : Seq(Shapes), relayed : Nat, buffer : Seq(Parts), overflowed : BOOLEAN]

\* A buffer is dropped only for a response that does not fit.
RelayOK(f) ==
    f.at = "relays" =>
        \E r \in Shapes :
            /\ f.response = <<r>>
            /\ f.relayed \in 0 .. PartsOf(r)
            /\ IF f.overflowed THEN PartsOf(r) > MaxMetered
                               ELSE IsReceived(f.buffer, r, f.relayed)

MeterInv ==
    /\ meter \in [Invocations -> MeterRecord]
    /\ \A n \in Invocations : RelayOK(meter[n])
    /\ MeteredAsReported

\* What a response's shape says of its parts.
LEMMA ShapeIs ==
  ASSUME NEW r \in Shapes
  PROVE  /\ r.interim \in 0 .. 1 /\ r.stream \in BOOLEAN /\ r.chunked \in BOOLEAN
         /\ r.usage \in 0 .. 1
         /\ PartsOf(r) \in Nat /\ PartsOf(r) >= r.interim + 3
         /\ \A i \in Nat : Part(KindAt(r, i), r) \in Parts
<1>1. /\ r.interim \in 0 .. 1 /\ r.stream \in BOOLEAN /\ r.chunked \in BOOLEAN
      /\ r.usage \in 0 .. 1
  BY DEF Shapes
<1>2. PartsOf(r) \in Nat /\ PartsOf(r) >= r.interim + 3
  BY <1>1 DEF PartsOf
<1>3. \A i \in Nat : Part(KindAt(r, i), r) \in Parts
  BY DEF KindAt, Carrier, Part, Parts
<1> QED
  BY <1>1, <1>2, <1>3

\* The parts a response is sent in, by their number.
LEMMA WireIs ==
  ASSUME NEW r \in Shapes
  PROVE  IsReceived(Wire(r), r, PartsOf(r))
<1> DEFINE heads == [i \in 1 .. r.interim |-> Part("interim", r)]
           first == <<Part("head", r)>>
           body == IF r.stream THEN <<Part("delta", r), Part("metadata", r)>>
                               ELSE <<Part("opening", r), Part("closing", r)>>
           end == IF r.chunked THEN <<Part("last", r)>> ELSE <<>>
           two == heads \o first
           three == two \o body
<1>0. \A k \in {"interim", "head", "delta", "metadata", "opening", "closing", "last"} :
          Part(k, r) \in Parts
  BY DEF Part, Parts
<1>1. heads \in Seq(Parts) /\ Len(heads) = r.interim
      /\ \A i \in 1 .. r.interim : heads[i] = Part("interim", r)
  <2>1. r.interim \in Nat
    BY ShapeIs
  <2> QED
    BY <1>0, <2>1, IsASeq
<1>2. first \in Seq(Parts) /\ Len(first) = 1 /\ first[1] = Part("head", r)
  BY <1>0
<1>3. /\ body \in Seq(Parts) /\ Len(body) = 2
      /\ body[1] = Part(IF r.stream THEN "delta" ELSE "opening", r)
      /\ body[2] = Part(Carrier(r), r)
  <2>1. CASE r.stream
    BY <1>0, <2>1 DEF Carrier
  <2>2. CASE ~r.stream
    BY <1>0, <2>2 DEF Carrier
  <2> QED
    BY <2>1, <2>2
<1>4. /\ end \in Seq(Parts) /\ Len(end) = (IF r.chunked THEN 1 ELSE 0)
      /\ \A i \in 1 .. Len(end) : end[i] = Part("last", r)
  <2>1. CASE r.chunked
    BY <1>0, <2>1
  <2>2. CASE ~r.chunked
    BY <2>2
  <2> QED
    BY <2>1, <2>2
<1> HIDE DEF heads, first, body, end
<1>5. /\ two \in Seq(Parts) /\ Len(two) = r.interim + 1
      /\ \A i \in 1 .. r.interim + 1 :
            two[i] = IF i <= r.interim THEN Part("interim", r) ELSE Part("head", r)
  <2>1. /\ two \in Seq(Parts) /\ Len(two) = Len(heads) + Len(first)
        /\ \A i \in 1 .. Len(heads) + Len(first) :
              two[i] = IF i <= Len(heads) THEN heads[i] ELSE first[i - Len(heads)]
    BY <1>1, <1>2, ConcatProperties
  <2> QED
    BY <2>1, <1>1, <1>2, ShapeIs
<1> HIDE DEF two
<1>6. /\ three \in Seq(Parts) /\ Len(three) = r.interim + 3
      /\ \A i \in 1 .. r.interim + 3 :
            three[i] = IF i <= r.interim + 1 THEN two[i] ELSE body[i - (r.interim + 1)]
  <2>1. /\ three \in Seq(Parts) /\ Len(three) = Len(two) + Len(body)
        /\ \A i \in 1 .. Len(two) + Len(body) :
              three[i] = IF i <= Len(two) THEN two[i] ELSE body[i - Len(two)]
    BY <1>5, <1>3, ConcatProperties
  <2>2. Len(two) + Len(body) = r.interim + 3
    BY <1>5, <1>3, ShapeIs
  <2> QED
    BY <2>1, <2>2, <1>5
<1> HIDE DEF three
<1>7. /\ three \o end \in Seq(Parts) /\ Len(three \o end) = PartsOf(r)
      /\ \A i \in 1 .. PartsOf(r) :
            (three \o end)[i] = IF i <= r.interim + 3 THEN three[i] ELSE Part("last", r)
  <2>1. /\ three \o end \in Seq(Parts) /\ Len(three \o end) = Len(three) + Len(end)
        /\ \A i \in 1 .. Len(three) + Len(end) :
              (three \o end)[i] = IF i <= Len(three) THEN three[i] ELSE end[i - Len(three)]
    BY <1>6, <1>4, ConcatProperties
  <2>2. Len(three) + Len(end) = PartsOf(r)
    BY <1>6, <1>4, ShapeIs DEF PartsOf
  <2>3. ASSUME NEW i \in 1 .. PartsOf(r), i > r.interim + 3
        PROVE  end[i - Len(three)] = Part("last", r)
    <3>1. i - Len(three) \in 1 .. Len(end)
      BY <2>2, <2>3, <1>6, <1>4, ShapeIs
    <3> QED
      BY <3>1, <1>4
  <2> QED
    BY <2>1, <2>2, <2>3, <1>6, ShapeIs
<1>8. Wire(r) = three \o end
  BY DEF Wire, three, two, heads, first, body, end
<1>9. ASSUME NEW i \in 1 .. PartsOf(r)
      PROVE  (three \o end)[i] = Part(KindAt(r, i), r)
  <2>1. CASE i <= r.interim + 1
    <3>1. (three \o end)[i] = two[i] /\ i \in 1 .. r.interim + 1
      BY <2>1, <1>6, <1>7, ShapeIs
    <3> QED
      BY <2>1, <3>1, <1>5, ShapeIs DEF KindAt
  <2>2. CASE i = r.interim + 2
    <3>1. (three \o end)[i] = body[1]
      BY <2>2, <1>6, <1>7, ShapeIs
    <3> QED
      BY <2>2, <3>1, <1>3, ShapeIs DEF KindAt
  <2>3. CASE i = r.interim + 3
    <3>1. (three \o end)[i] = body[2]
      BY <2>3, <1>6, <1>7, ShapeIs
    <3> QED
      BY <2>3, <3>1, <1>3, ShapeIs DEF KindAt
  <2>4. CASE i > r.interim + 3
    BY <2>4, <1>7, ShapeIs DEF KindAt
  <2>5. i \in Nat /\ r.interim \in Nat
    BY ShapeIs
  <2>6. \/ i <= r.interim + 1 \/ i = r.interim + 2
        \/ i = r.interim + 3 \/ i > r.interim + 3
    BY <2>5
  <2> QED
    BY <2>1, <2>2, <2>3, <2>4, <2>6
<1> QED
  BY <1>7, <1>8, <1>9 DEF IsReceived

\* What _parse_usage makes of the first parts of a response, the interim ones skipped.
LEMMA ParsedIs ==
  ASSUME NEW r \in Shapes, NEW k \in 0 .. PartsOf(r), NEW raw, IsReceived(raw, r, k)
  PROVE  /\ Parsed(raw) \in {0, r.usage}
         /\ k = PartsOf(r) /\ r.status = 200 /\ r.coding # "br" => Parsed(raw) = r.usage
<1> DEFINE first == r.interim + 1
           rest == SubSeq(raw, first, k)
<1>1. /\ raw \in Seq(Parts) /\ Len(raw) = k /\ DOMAIN raw = 1 .. k
      /\ \A i \in 1 .. k : raw[i] = Part(KindAt(r, i), r)
  BY DEF IsReceived
<1>2. /\ r.interim \in Nat /\ first \in Nat /\ first >= 1 /\ k \in Nat
      /\ PartsOf(r) \in Nat /\ PartsOf(r) >= r.interim + 3
  BY ShapeIs
<1>3. \A i \in 1 .. k : raw[i].kind = KindAt(r, i)
  BY <1>1 DEF Part
<1>4. \A i \in 1 .. k : raw[i].kind # "interim" <=> i >= first
  <2> TAKE i \in 1 .. k
  <2>1. KindAt(r, i) # "interim" <=> i > r.interim
    BY <1>2 DEF KindAt, Carrier
  <2> QED
    BY <2>1, <1>2, <1>3
<1>5. CASE k < first
  <2>1. Kinds(raw) \subseteq {"interim"}
    BY <1>1, <1>2, <1>4, <1>5 DEF Kinds
  <2>2. Skipped(raw) = <<>>
    BY <2>1 DEF Skipped
  <2>3. Parsed(raw) = 0
    BY <2>2 DEF Parsed
  <2> QED
    BY <2>3, <1>2, <1>5
<1>6. CASE k >= first
  <2>1. ~(Kinds(raw) \subseteq {"interim"})
    <3>1. first \in DOMAIN raw /\ raw[first].kind # "interim"
      BY <1>1, <1>2, <1>4, <1>6
    <3> QED
      BY <3>1 DEF Kinds
  <2>2. Min({i \in DOMAIN raw : raw[i].kind # "interim"}) = first
    <3>1. {i \in DOMAIN raw : raw[i].kind # "interim"} = first .. k
      BY <1>1, <1>2, <1>4
    <3>2. Min(first .. k) = first
      <4>1. first \in first .. k /\ \A y \in first .. k : first <= y
        BY <1>2, <1>6
      <4>2. \A x \in first .. k : (\A y \in first .. k : x <= y) => x = first
        BY <1>2, <4>1
      <4> QED
        BY <4>1, <4>2 DEF Min
    <3> QED
      BY <3>1, <3>2
  <2>3. Skipped(raw) = rest
    BY <2>1, <2>2, <1>1 DEF Skipped
  <2>4. /\ Head(rest) = Part("head", r)
        /\ Tail(rest) = SubSeq(raw, first + 1, k)
    <3>1. first \in 1 .. Len(raw) /\ k \in first .. Len(raw)
      BY <1>1, <1>2, <1>6
    <3>2. Head(rest) = raw[first] /\ Tail(rest) = SubSeq(raw, first + 1, k)
      BY <1>1, <3>1, HeadTailOfSubSeq
    <3>3. KindAt(r, first) = "head"
      BY <1>2 DEF KindAt
    <3> QED
      BY <3>1, <3>2, <3>3, <1>1
  <2>5. /\ rest \in Seq(Parts) /\ Len(rest) = k - r.interim
        /\ \A i \in 1 .. k - r.interim : rest[i] = raw[r.interim + i]
    <3>1. \A i \in first .. k : raw[i] \in Parts
      BY <1>1, <1>2
    <3>2. /\ rest \in Seq(Parts) /\ Len(rest) = IF first <= k THEN k - first + 1 ELSE 0
          /\ \A i \in 1 .. k - first + 1 : rest[i] = raw[first + i - 1]
      BY <3>1, <1>2, SubSeqProperties
    <3> QED
      BY <3>2, <1>2, <1>6
  <2>0. rest # <<>>
    <3>1. Len(rest) > 0
      BY <2>5, <1>2, <1>6
    <3> HIDE DEF rest
    <3> QED
      BY <3>1
  <2>6. Parsed(raw) = IF r.status = 200 /\ Decodable(r, Tail(rest)) /\ Carrier(r) \in Kinds(rest)
                      THEN r.usage ELSE 0
    <3> HIDE DEF rest
    <3>2. Head(rest).kind = "head" /\ Head(rest).of = r
      BY <2>4 DEF Part
    <3> QED
      BY <2>0, <2>3, <3>2 DEF Parsed
  <2>7. ASSUME k = PartsOf(r), r.coding # "br"
        PROVE  Decodable(r, Tail(rest)) /\ Carrier(r) \in Kinds(rest)
    <3>1. /\ Tail(rest) \in Seq(Parts) /\ Len(Tail(rest)) = k - r.interim - 1
          /\ \A i \in 1 .. k - r.interim - 1 : Tail(rest)[i] = raw[r.interim + i + 1]
      <4>2. /\ Tail(rest) \in Seq(Parts) /\ Len(Tail(rest)) = Len(rest) - 1
            /\ \A i \in 1 .. Len(Tail(rest)) : Tail(rest)[i] = rest[i + 1]
        BY <2>0, <2>5, HeadTailProperties
      <4> HIDE DEF rest
      <4>4. Len(Tail(rest)) = k - r.interim - 1
        BY <4>2, <2>5
      <4>3. ASSUME NEW i \in 1 .. k - r.interim - 1
            PROVE  Tail(rest)[i] = raw[r.interim + i + 1]
        <5>1. i \in 1 .. Len(Tail(rest)) /\ i + 1 \in 1 .. k - r.interim
              /\ r.interim + (i + 1) = r.interim + i + 1
          BY <4>4, <1>2
        <5> QED
          BY <5>1, <4>2, <2>5
      <4> QED
        BY <4>2, <4>3, <4>4
    <3> HIDE DEF rest
    <3>2. 3 \in DOMAIN rest /\ rest[3].kind = Carrier(r)
      <4>1. 3 \in 1 .. k - r.interim /\ r.interim + 3 \in 1 .. k
        BY <2>7, <1>2
      <4>2. KindAt(r, r.interim + 3) = Carrier(r)
        BY <1>2 DEF KindAt
      <4> QED
        BY <4>1, <4>2, <2>5, <1>3
    <3>3. 2 \in DOMAIN Tail(rest) /\ Tail(rest)[2].kind = Carrier(r)
      <4>1. 2 \in 1 .. k - r.interim - 1 /\ r.interim + 2 + 1 \in 1 .. k
        BY <2>7, <1>2
      <4>2. KindAt(r, r.interim + 2 + 1) = Carrier(r)
        BY <1>2 DEF KindAt
      <4> QED
        BY <4>1, <4>2, <3>1, <1>3
    <3>4. ASSUME r.chunked
          PROVE  3 \in DOMAIN Tail(rest) /\ Tail(rest)[3].kind = "last"
      <4>1. k = r.interim + 4
        BY <2>7, <3>4 DEF PartsOf
      <4>2. 3 \in 1 .. k - r.interim - 1 /\ r.interim + 3 + 1 \in 1 .. k
        BY <4>1, <1>2
      <4>3. KindAt(r, r.interim + 3 + 1) = "last"
        BY <1>2 DEF KindAt
      <4> QED
        BY <4>2, <4>3, <3>1, <1>3
    <3> QED
      BY <2>7, <3>2, <3>3, <3>4 DEF Decodable, Kinds
  <2> QED
    BY <2>6, <2>7
<1> QED
  BY <1>2, <1>5, <1>6

-----------------------------------------------------------------------------

\* Relaying parts of the response keeps the buffer its beginning.
LEMMA FedIs ==
  ASSUME NEW f \in MeterRecord, NEW r \in Shapes, f.relayed \in 0 .. PartsOf(r),
         NEW k \in f.relayed + 1 .. PartsOf(r),
         IF f.overflowed THEN PartsOf(r) > MaxMetered ELSE IsReceived(f.buffer, r, f.relayed)
  PROVE  LET fed == Fed(f, SubSeq(Wire(r), f.relayed + 1, k))
         IN  /\ fed \in MeterRecord
             /\ fed.at = f.at /\ fed.response = f.response
             /\ IF fed.overflowed THEN PartsOf(r) > MaxMetered ELSE IsReceived(fed.buffer, r, k)
<1> DEFINE data == SubSeq(Wire(r), f.relayed + 1, k)
           fed == Fed(f, data)
<1>1. /\ f.relayed \in Nat /\ k \in Nat /\ f.relayed < k /\ k <= PartsOf(r)
      /\ PartsOf(r) \in Nat /\ MaxMetered \in Nat
  BY ShapeIs, MeterAssumption
<1>2. /\ data \in Seq(Parts) /\ Len(data) = k - f.relayed
      /\ \A i \in 1 .. k - f.relayed : data[i] = Part(KindAt(r, f.relayed + i), r)
  <2>1. \A i \in f.relayed + 1 .. k : Wire(r)[i] = Part(KindAt(r, i), r)
    BY <1>1, WireIs DEF IsReceived
  <2>2. \A i \in f.relayed + 1 .. k : Wire(r)[i] \in Parts
    BY <2>1, <1>1, ShapeIs
  <2>3. /\ data \in Seq(Parts)
        /\ Len(data) = IF f.relayed + 1 <= k THEN k - (f.relayed + 1) + 1 ELSE 0
        /\ \A i \in 1 .. k - (f.relayed + 1) + 1 : data[i] = Wire(r)[(f.relayed + 1) + i - 1]
    BY <2>2, <1>1, SubSeqProperties
  <2> HIDE DEF data
  <2>4. ASSUME NEW i \in 1 .. k - f.relayed
        PROVE  data[i] = Part(KindAt(r, f.relayed + i), r)
    <3>1. /\ i \in 1 .. k - (f.relayed + 1) + 1 /\ f.relayed + i \in f.relayed + 1 .. k
          /\ (f.relayed + 1) + i - 1 = f.relayed + i
      BY <1>1
    <3> QED
      BY <3>1, <2>1, <2>3
  <2>5. Len(data) = k - f.relayed
    BY <2>3, <1>1
  <2> QED
    BY <2>3, <2>4, <2>5
<1> HIDE DEF data
<1>3. CASE f.overflowed
  BY <1>3 DEF Fed
<1>4. CASE ~f.overflowed
  <2>1. IsReceived(f.buffer, r, f.relayed)
    BY <1>4
  <2>2. CASE Len(f.buffer) + Len(data) > MaxMetered
    <3>1. fed = [f EXCEPT !.overflowed = TRUE, !.buffer = <<>>]
      BY <1>4, <2>2 DEF Fed
    <3>2. PartsOf(r) > MaxMetered
      BY <2>1, <2>2, <1>1, <1>2 DEF IsReceived
    <3>3. fed.overflowed /\ fed.at = f.at /\ fed.response = f.response /\ fed \in MeterRecord
      <4>1. <<>> \in Seq(Parts)
        OBVIOUS
      <4> QED
        BY <3>1, <4>1 DEF MeterRecord
    <3> QED
      BY <3>2, <3>3 DEF data
  <2>3. CASE ~(Len(f.buffer) + Len(data) > MaxMetered)
    <3>1. fed = [f EXCEPT !.buffer = f.buffer \o data]
      BY <1>4, <2>3 DEF Fed
    <3>2. /\ f.buffer \o data \in Seq(Parts)
          /\ Len(f.buffer \o data) = k
          /\ \A i \in 1 .. k : (f.buffer \o data)[i] =
                 IF i <= f.relayed THEN f.buffer[i] ELSE data[i - f.relayed]
      <4>1. /\ f.buffer \in Seq(Parts) /\ Len(f.buffer) = f.relayed
            /\ Len(f.buffer) + Len(data) = k
        BY <2>1, <1>1, <1>2 DEF IsReceived
      <4>2. /\ f.buffer \o data \in Seq(Parts)
            /\ Len(f.buffer \o data) = Len(f.buffer) + Len(data)
            /\ \A i \in 1 .. Len(f.buffer) + Len(data) : (f.buffer \o data)[i] =
                   IF i <= Len(f.buffer) THEN f.buffer[i] ELSE data[i - Len(f.buffer)]
        BY <4>1, <1>2, ConcatProperties
      <4> QED
        BY <4>1, <4>2
    <3>3. ASSUME NEW i \in 1 .. k
          PROVE  (f.buffer \o data)[i] = Part(KindAt(r, i), r)
      <4>1. CASE i <= f.relayed
        BY <4>1, <3>2, <2>1, <1>1 DEF IsReceived
      <4>2. CASE i > f.relayed
        <5>1. /\ i - f.relayed \in 1 .. k - f.relayed /\ f.relayed + (i - f.relayed) = i
              /\ ~(i <= f.relayed)
          BY <4>2, <1>1
        <5> QED
          BY <5>1, <3>2, <1>2
      <4>3. i <= f.relayed \/ i > f.relayed
        BY <1>1
      <4> QED
        BY <4>1, <4>2, <4>3
    <3>4. IsReceived(f.buffer \o data, r, k)
      BY <3>2, <3>3 DEF IsReceived
    <3>5. ~fed.overflowed /\ fed.buffer = f.buffer \o data /\ fed.at = f.at
          /\ fed.response = f.response /\ fed \in MeterRecord
      BY <3>1, <3>2, <1>4 DEF MeterRecord
    <3> QED
      BY <3>4, <3>5 DEF data
  <2> QED
    BY <2>2, <2>3
<1> QED
  BY <1>3, <1>4 DEF data

\* An invocation that has not begun is well typed.
LEMMA IdleIs == IdleMeter \in MeterRecord
  BY DEF IdleMeter, MeterRecord

\* The invariant holds before the first invocation.
LEMMA MeterInvInit == MeterInit => MeterInv
<1> SUFFICES ASSUME MeterInit PROVE MeterInv
  OBVIOUS
<1>2. \A n \in Invocations : meter[n] = IdleMeter /\ RelayOK(meter[n])
  BY DEF MeterInit, IdleMeter, RelayOK
<1> QED
  BY <1>2, IdleIs DEF MeterInv, MeterInit, MeteredAsReported

\* Every step of the relay and of the recording keeps it.
LEMMA MeterInvStep == MeterInv /\ [MeterNext]_meterVars => MeterInv'
<1> SUFFICES ASSUME MeterInv, [MeterNext]_meterVars
             PROVE  MeterInv'
  OBVIOUS
<1>0. /\ meter \in [Invocations -> MeterRecord]
      /\ \A n \in Invocations : RelayOK(meter[n])
      /\ MeteredAsReported
  BY DEF MeterInv
<1>1. ASSUME NEW n \in Invocations, NEW f \in MeterRecord, RelayOK(f),
             meter' = [meter EXCEPT ![n] = f], MeteredAsReported'
      PROVE  MeterInv'
  BY <1>0, <1>1 DEF MeterInv
<1>2. ASSUME NEW n \in Invocations, Invokes(n)
      PROVE  MeterInv'
  <2>1. PICK m \in Priced \cup Unpriced, r \in Shapes :
            meter' = [meter EXCEPT ![n] =
                [IdleMeter EXCEPT !.at = "relays", !.model = m, !.response = <<r>>]]
    BY <1>2 DEF Invokes
  <2> DEFINE f == [IdleMeter EXCEPT !.at = "relays", !.model = m, !.response = <<r>>]
  <2>2. f \in MeterRecord
    <3>1. m \in Priced \cup Unpriced \cup {Bucket} /\ <<r>> \in Seq(Shapes)
      OBVIOUS
    <3> QED
      BY <3>1, IdleIs DEF MeterRecord
  <2>3. RelayOK(f)
    <3>1. f.response = <<r>> /\ f.relayed = 0 /\ f.buffer = <<>> /\ f.overflowed = FALSE
      BY DEF IdleMeter
    <3> HIDE DEF f
    <3>2. f.relayed \in 0 .. PartsOf(r)
      BY <3>1, ShapeIs
    <3>3. IsReceived(f.buffer, r, f.relayed)
      <4>1. /\ <<>> \in Seq(Parts) /\ Len(<<>>) = 0
            /\ \A i \in 1 .. 0 : <<>>[i] = Part(KindAt(r, i), r)
        OBVIOUS
      <4> QED
        BY <3>1, <4>1 DEF IsReceived
    <3> QED
      BY <3>1, <3>2, <3>3 DEF RelayOK
  <2>4. MeteredAsReported'
    BY <1>0, <1>2 DEF Invokes, MeteredAsReported
  <2> HIDE DEF f
  <2> QED
    BY <1>1, <2>1, <2>2, <2>3, <2>4 DEF f
<1>3. ASSUME NEW n \in Invocations, RelaysBytes(n)
      PROVE  MeterInv'
  <2>1. PICK r \in Shapes :
            /\ meter[n].response = <<r>>
            /\ meter[n].relayed \in 0 .. PartsOf(r)
            /\ IF meter[n].overflowed THEN PartsOf(r) > MaxMetered
                                      ELSE IsReceived(meter[n].buffer, r, meter[n].relayed)
    BY <1>0, <1>3 DEF RelaysBytes, Metering, RelayOK
  <2>2. Sent(n) = Wire(r) /\ Len(Sent(n)) = PartsOf(r)
    BY <2>1, WireIs DEF Sent, Reply, IsReceived
  <2>3. PICK k \in meter[n].relayed + 1 .. PartsOf(r) :
            meter' = [meter EXCEPT ![n] =
                [Fed(meter[n], SubSeq(Wire(r), meter[n].relayed + 1, k)) EXCEPT !.relayed = k]]
    BY <1>3, <2>2 DEF RelaysBytes
  <2> DEFINE fed == Fed(meter[n], SubSeq(Wire(r), meter[n].relayed + 1, k))
             f == [fed EXCEPT !.relayed = k]
  <2>4. meter[n] \in MeterRecord
    BY <1>0
  <2>5. /\ fed \in MeterRecord
        /\ fed.at = meter[n].at /\ fed.response = meter[n].response
        /\ IF fed.overflowed THEN PartsOf(r) > MaxMetered ELSE IsReceived(fed.buffer, r, k)
    BY <2>1, <2>3, <2>4, FedIs
  <2> HIDE DEF fed
  <2>6. k \in Nat /\ k \in 0 .. PartsOf(r)
    BY <2>1, <2>3, ShapeIs
  <2>7. f \in MeterRecord
    BY <2>5, <2>6 DEF MeterRecord
  <2>8. RelayOK(f)
    <3>1. /\ f.at = fed.at /\ f.response = fed.response /\ f.relayed = k
          /\ f.buffer = fed.buffer /\ f.overflowed = fed.overflowed
      BY <2>5 DEF MeterRecord
    <3> HIDE DEF f
    <3> QED
      BY <3>1, <2>1, <2>5, <2>6 DEF RelayOK
  <2>9. MeteredAsReported'
    BY <1>0, <1>3 DEF RelaysBytes, MeteredAsReported
  <2> QED
    BY <1>1, <2>3, <2>7, <2>8, <2>9 DEF fed
<1>4. ASSUME NEW n \in Invocations, StreamEnds(n)
      PROVE  MeterInv'
  <2>1. PICK r \in Shapes :
            /\ meter[n].response = <<r>>
            /\ meter[n].relayed \in 0 .. PartsOf(r)
            /\ IF meter[n].overflowed THEN PartsOf(r) > MaxMetered
                                      ELSE IsReceived(meter[n].buffer, r, meter[n].relayed)
    BY <1>0, <1>4 DEF StreamEnds, Metering, RelayOK
  <2>2. Reply(n) = r /\ Len(Sent(n)) = PartsOf(r)
    BY <2>1, WireIs DEF Sent, Reply, IsReceived
  <2> DEFINE f == [IdleMeter EXCEPT !.at = "done"]
             usage == IF meter[n].overflowed THEN 0 ELSE Parsed(meter[n].buffer)
             whole == /\ meter[n].relayed = PartsOf(r) /\ PartsOf(r) <= MaxMetered
                      /\ r.status = 200 /\ r.coding # "br"
  <2>3. /\ usage # 0 => usage = r.usage
        /\ whole => usage = r.usage
    <3>1. CASE meter[n].overflowed
      BY <3>1, <2>1, ShapeIs, MeterAssumption
    <3>2. CASE ~meter[n].overflowed
      <4>1. /\ Parsed(meter[n].buffer) \in {0, r.usage}
            /\ (meter[n].relayed = PartsOf(r) /\ r.status = 200 /\ r.coding # "br"
                   => Parsed(meter[n].buffer) = r.usage)
        BY <3>2, <2>1, ParsedIs
      <4> QED
        BY <4>1, <3>2
    <3> QED
      BY <3>1, <3>2
  <2>4. \/ truth' = truth
        \/ truth' = truth \cup {[of |-> n, day |-> day, usage |-> usage,
                                 reported |-> r.usage, whole |-> whole]}
    BY <1>4, <2>2 DEF StreamEnds, RecordedRow
  <2> HIDE DEF usage, whole
  <2>5. MeteredAsReported'
    BY <1>0, <2>3, <2>4 DEF MeteredAsReported
  <2>6. f \in MeterRecord /\ RelayOK(f) /\ meter' = [meter EXCEPT ![n] = f]
    <3>1. f \in MeterRecord /\ f.at = "done"
      BY IdleIs DEF MeterRecord
    <3>2. meter' = [meter EXCEPT ![n] = f]
      BY <1>4 DEF StreamEnds
    <3> HIDE DEF f
    <3> QED
      BY <3>1, <3>2 DEF RelayOK
  <2> HIDE DEF f
  <2> QED
    BY <1>1, <2>5, <2>6
<1>5. CASE DayEnds \/ UNCHANGED meterVars
  BY <1>0, <1>5 DEF DayEnds, meterVars, MeterInv, MeteredAsReported
<1> QED
  BY <1>2, <1>3, <1>4, <1>5 DEF MeterNext

\* A metered request has the usage the provider reported and a response that came whole
\* and readable is metered, for any invocations, models, days and bound of the buffer,
\* however each response is cut into pieces and whoever breaks off (response_meter.py).
THEOREM UsageAsReported == MeterSpec => []MeteredAsReported
<1>1. MeterInit => MeterInv
  BY MeterInvInit
<1>2. MeterInv /\ [MeterNext]_meterVars => MeterInv'
  BY MeterInvStep
<1>3. MeterInv => MeteredAsReported
  BY DEF MeterInv
<1> QED
  BY <1>1, <1>2, <1>3, PTL DEF MeterSpec

-----------------------------------------------------------------------------
(* The month's sums.  The library's fold takes a set apart one picked       *)
(* element after the other; Total is what it comes to, whichever element is *)
(* taken first.  Induction is over the subsets of a finite set: among those *)
(* that were wrong one would have none of the others inside it.             *)

Picked(s) == CHOOSE x \in s : TRUE

\* g gives every subset of S the sum of f over it.
IsSums(g, f, S) ==
    g = [s \in SUBSET S |-> IF s = {} THEN 0 ELSE f[Picked(s)] + g[s \ {Picked(s)}]]

Sums(f, S) == CHOOSE g : IsSums(g, f, S)
Total(f, S) == Sums(f, S)[S]

\* Among some subsets of a finite set one has no other of them inside it.
LEMMA SmallestSubset ==
  ASSUME NEW R, IsFiniteSet(R), NEW C \in SUBSET SUBSET R, C # {}
  PROVE  \E s \in C : \A t \in C : t \subseteq s => t = s
<1>1. IsWellFoundedOn(StrictSubsetOrdering(R), SUBSET R)
  BY FS_StrictSubsetOrderingWellFounded, FS_FiniteSubsetsOfFinite
<1>2. PICK s \in C : \A t \in C : <<t, s>> \notin StrictSubsetOrdering(R)
  BY <1>1, WFMin, Zenon
<1>3. ASSUME NEW t \in C, t \subseteq s
      PROVE  t = s
  <2>1. <<t, s>> \in (SUBSET R) \X (SUBSET R)
    BY <1>2
  <2> QED
    BY <1>2, <1>3, <2>1 DEF StrictSubsetOrdering
<1> QED
  BY <1>2, <1>3

\* A set that is not empty is its picked element and the others.
LEMMA PickedIs ==
  ASSUME NEW s, s # {}
  PROVE  Picked(s) \in s
BY DEF Picked

LEMMA SumsAt ==
  ASSUME NEW g, NEW f, NEW S, IsSums(g, f, S)
  PROVE  /\ g[{}] = 0
         /\ \A s \in SUBSET S : s # {} => g[s] = f[Picked(s)] + g[s \ {Picked(s)}]
<1>1. g = [s \in SUBSET S |-> IF s = {} THEN 0 ELSE f[Picked(s)] + g[s \ {Picked(s)}]]
  BY DEF IsSums
<1>2. {} \in SUBSET S
  OBVIOUS
<1> QED
  BY <1>1, <1>2, Zenon

\* Two that do agree wherever both are defined.
LEMMA SumsAgree ==
  ASSUME NEW R, IsFiniteSet(R), NEW S \in SUBSET R, NEW f, NEW g, NEW h,
         IsSums(g, f, S), IsSums(h, f, R)
  PROVE  \A s \in SUBSET S : g[s] = h[s]
<1> DEFINE C == {s \in SUBSET S : g[s] # h[s]}
<1>1. ASSUME C # {}
      PROVE  FALSE
  <2>1. C \in SUBSET SUBSET R
    OBVIOUS
  <2>2. PICK s \in C : \A t \in C : t \subseteq s => t = s
    <3> HIDE DEF C
    <3> QED
      BY <1>1, <2>1, SmallestSubset
  <2>3. s \in SUBSET S /\ s \in SUBSET R /\ g[s] # h[s]
    OBVIOUS
  <2>4. s # {}
    BY <2>3, SumsAt
  <2>5. /\ g[s] = f[Picked(s)] + g[s \ {Picked(s)}]
        /\ h[s] = f[Picked(s)] + h[s \ {Picked(s)}]
    BY <2>3, <2>4, SumsAt
  <2>6. s \ {Picked(s)} \notin C
    BY <2>2, <2>4, PickedIs
  <2>7. g[s \ {Picked(s)}] = h[s \ {Picked(s)}]
    BY <2>3, <2>6
  <2> QED
    BY <2>3, <2>5, <2>7
<1> QED
  BY <1>1

\* There are such sums for every finite set.
LEMMA SumsExist ==
  ASSUME NEW S, IsFiniteSet(S), NEW f
  PROVE  IsSums(Sums(f, S), f, S)
<1> DEFINE C == {s \in SUBSET S : ~IsSums(Sums(f, s), f, s)}
<1>1. ASSUME C # {}
      PROVE  FALSE
  <2>1. C \in SUBSET SUBSET S
    OBVIOUS
  <2>2. PICK s \in C : \A t \in C : t \subseteq s => t = s
    <3> HIDE DEF C
    <3> QED
      BY <1>1, <2>1, SmallestSubset
  <2>3. s \in SUBSET S /\ ~IsSums(Sums(f, s), f, s)
    OBVIOUS
  <2>4. \A t \in SUBSET s : t # s => IsSums(Sums(f, t), f, t)
    BY <2>2, <2>3
  <2> DEFINE g == [t \in SUBSET s |->
                      IF t = {} THEN 0 ELSE f[Picked(t)] + Total(f, t \ {Picked(t)})]
  <2>5. ASSUME NEW t \in SUBSET s, t # s
        PROVE  g[t] = Total(f, t)
    <3>1. IsSums(Sums(f, t), f, t)
      BY <2>4, <2>5
    <3>2. CASE t = {}
      <4>1. Sums(f, t)[{}] = 0
        BY <3>1, SumsAt
      <4> QED
        BY <3>2, <4>1 DEF Total
    <3>3. CASE t # {}
      <4> DEFINE u == t \ {Picked(t)}
      <4>1. Picked(t) \in t /\ u \in SUBSET t /\ u # t /\ u \in SUBSET s /\ u # s
        BY <2>5, <3>3, PickedIs
      <4>2. IsSums(Sums(f, u), f, u)
        BY <2>4, <4>1
      <4>3. IsFiniteSet(t)
        BY <2>3, FS_Subset
      <4>4. Sums(f, u)[u] = Sums(f, t)[u]
        <5> HIDE DEF u
        <5> QED
          BY <3>1, <4>1, <4>2, <4>3, SumsAgree
      <4>5. t \in SUBSET t
        OBVIOUS
      <4>6. Sums(f, t)[t] = f[Picked(t)] + Sums(f, t)[u]
        BY <3>1, <3>3, <4>5, SumsAt
      <4>7. g[t] = f[Picked(t)] + Total(f, u)
        BY <3>3
      <4> QED
        BY <4>4, <4>6, <4>7 DEF Total
    <3> QED
      BY <3>2, <3>3
  <2>6. ASSUME NEW t \in SUBSET s
        PROVE  g[t] = IF t = {} THEN 0 ELSE f[Picked(t)] + g[t \ {Picked(t)}]
    <3>1. CASE t = {}
      BY <3>1
    <3>2. CASE t # {}
      <4>1. t \ {Picked(t)} \in SUBSET s /\ t \ {Picked(t)} # s
        BY <3>2, PickedIs
      <4>2. g[t \ {Picked(t)}] = Total(f, t \ {Picked(t)})
        BY <2>5, <4>1
      <4>3. g[t] = f[Picked(t)] + Total(f, t \ {Picked(t)})
        BY <3>2
      <4> QED
        BY <3>2, <4>2, <4>3
    <3> QED
      BY <3>1, <3>2
  <2>7. g = [t \in SUBSET s |-> g[t]]
    OBVIOUS
  <2> HIDE DEF g
  <2>8. IsSums(g, f, s)
    BY <2>6, <2>7, Zenon DEF IsSums
  <2>9. IsSums(Sums(f, s), f, s)
    BY <2>8, Zenon DEF Sums
  <2> QED
    BY <2>3, <2>9
<1>2. S \in SUBSET S /\ C = {}
  BY <1>1
<1> QED
  BY <1>2

\* Any of them gives the total.
LEMMA TotalIs ==
  ASSUME NEW R, IsFiniteSet(R), NEW S \in SUBSET R, NEW f, NEW h, IsSums(h, f, R)
  PROVE  h[S] = Total(f, S)
<1>1. IsFiniteSet(S)
  BY FS_Subset
<1>2. IsSums(Sums(f, S), f, S)
  BY <1>1, SumsExist
<1>3. S \in SUBSET S
  OBVIOUS
<1> QED
  BY <1>2, <1>3, SumsAgree DEF Total

\* The total of nothing is 0, and taking the picked element out takes its value out.
LEMMA TotalUnfolds ==
  ASSUME NEW S, IsFiniteSet(S), NEW f
  PROVE  /\ S = {} => Total(f, S) = 0
         /\ S # {} => Total(f, S) = f[Picked(S)] + Total(f, S \ {Picked(S)})
<1>1. IsSums(Sums(f, S), f, S)
  BY SumsExist
<1>2. S \in SUBSET S /\ S \ {Picked(S)} \in SUBSET S
  OBVIOUS
<1>3. Sums(f, S)[S \ {Picked(S)}] = Total(f, S \ {Picked(S)})
  BY <1>1, <1>2, TotalIs
<1>4. Sums(f, S)[{}] = 0 /\ Total(f, S) = Sums(f, S)[S]
  BY <1>1, SumsAt DEF Total
<1>5. S # {} => Sums(f, S)[S] = f[Picked(S)] + Sums(f, S)[S \ {Picked(S)}]
  BY <1>1, <1>2, SumsAt
<1> QED
  BY <1>3, <1>4, <1>5

LEMMA TotalInNat ==
  ASSUME NEW S, IsFiniteSet(S), NEW f, \A x \in S : f[x] \in Nat
  PROVE  Total(f, S) \in Nat
<1> DEFINE C == {s \in SUBSET S : Total(f, s) \notin Nat}
<1>1. ASSUME C # {}
      PROVE  FALSE
  <2>1. C \in SUBSET SUBSET S
    OBVIOUS
  <2>2. PICK s \in C : \A t \in C : t \subseteq s => t = s
    <3> HIDE DEF C
    <3> QED
      BY <1>1, <2>1, SmallestSubset
  <2>3. s \in SUBSET S /\ Total(f, s) \notin Nat /\ IsFiniteSet(s)
    BY FS_Subset
  <2>4. s # {} /\ Total(f, s) = f[Picked(s)] + Total(f, s \ {Picked(s)})
    <3> HIDE DEF C
    <3>1. s = {} => Total(f, s) = 0
      BY <2>3, TotalUnfolds
    <3>2. s # {}
      BY <2>3, <3>1
    <3> QED
      BY <2>3, <3>2, TotalUnfolds
  <2>5. Picked(s) \in s
    BY <2>4, PickedIs
  <2>6. s \ {Picked(s)} \notin C
    BY <2>2, <2>5
  <2>7. Total(f, s \ {Picked(s)}) \in Nat
    BY <2>3, <2>6
  <2>8. f[Picked(s)] \in Nat
    BY <2>3, <2>5
  <2> QED
    BY <2>3, <2>4, <2>7, <2>8
<1>2. S \in SUBSET S /\ C = {}
  BY <1>1
<1> QED
  BY <1>2

\* Whichever element is taken out, its value is.
LEMMA TotalWithout ==
  ASSUME NEW R, IsFiniteSet(R), NEW f, \A x \in R : f[x] \in Nat, NEW z \in R
  PROVE  Total(f, R) = Total(f, R \ {z}) + f[z]
<1> DEFINE C == {s \in SUBSET R : \E x \in s : Total(f, s) # Total(f, s \ {x}) + f[x]}
<1>0. \A s \in SUBSET R : IsFiniteSet(s) /\ Total(f, s) \in Nat
  <2> TAKE s \in SUBSET R
  <2>1. IsFiniteSet(s)
    BY FS_Subset
  <2>2. \A x \in s : f[x] \in Nat
    OBVIOUS
  <2> QED
    BY <2>1, <2>2, TotalInNat
<1>1. ASSUME C # {}
      PROVE  FALSE
  <2>1. C \in SUBSET SUBSET R
    OBVIOUS
  <2>2. PICK s \in C : \A t \in C : t \subseteq s => t = s
    <3> HIDE DEF C
    <3> QED
      BY <1>1, <2>1, SmallestSubset
  <2>3. PICK x \in s : Total(f, s) # Total(f, s \ {x}) + f[x]
    OBVIOUS
  <2> DEFINE y == Picked(s)
  <2>4. s \in SUBSET R /\ y \in s /\ f[x] \in Nat /\ f[y] \in Nat
    BY PickedIs
  <2>5. Total(f, s) = f[y] + Total(f, s \ {y})
    BY <1>0, <2>4, TotalUnfolds
  <2> HIDE DEF y
  <2>6. s \ {y} \in SUBSET R /\ s \ {x} \in SUBSET R /\ (s \ {y}) \ {x} \in SUBSET R
    BY <2>4
  <2>7. /\ Total(f, s \ {y}) \in Nat /\ Total(f, s \ {x}) \in Nat
        /\ Total(f, (s \ {y}) \ {x}) \in Nat
    BY <1>0, <2>6
  <2>8. x # y
    <3> HIDE DEF C
    <3> QED
      BY <2>3, <2>4, <2>5, <2>7
  <2>9. s \ {y} \notin C /\ s \ {x} \notin C
    BY <2>2, <2>3, <2>4
  <2>10. Total(f, s \ {y}) = Total(f, (s \ {y}) \ {x}) + f[x]
    BY <2>6, <2>8, <2>9, <2>3
  <2>11. Total(f, s \ {x}) = Total(f, (s \ {x}) \ {y}) + f[y]
    BY <2>6, <2>8, <2>9, <2>4
  <2>12. (s \ {x}) \ {y} = (s \ {y}) \ {x}
    OBVIOUS
  <2>13. Total(f, (s \ {x}) \ {y}) = Total(f, (s \ {y}) \ {x})
    BY <2>12
  <2> HIDE DEF C
  <2> QED
    BY <2>3, <2>4, <2>5, <2>7, <2>10, <2>11, <2>13
<1>2. R \in SUBSET R /\ C = {}
  BY <1>1
<1> QED
  BY <1>2

\* Functions that agree on a set have the same total over it.
LEMMA TotalSame ==
  ASSUME NEW S, IsFiniteSet(S), NEW f, NEW g, \A x \in S : f[x] = g[x]
  PROVE  Total(f, S) = Total(g, S)
<1> DEFINE C == {s \in SUBSET S : Total(f, s) # Total(g, s)}
<1>1. ASSUME C # {}
      PROVE  FALSE
  <2>1. C \in SUBSET SUBSET S
    OBVIOUS
  <2>2. PICK s \in C : \A t \in C : t \subseteq s => t = s
    <3> HIDE DEF C
    <3> QED
      BY <1>1, <2>1, SmallestSubset
  <2>3. s \in SUBSET S /\ Total(f, s) # Total(g, s) /\ IsFiniteSet(s)
    BY FS_Subset
  <2>4. /\ s # {}
        /\ Total(f, s) = f[Picked(s)] + Total(f, s \ {Picked(s)})
        /\ Total(g, s) = g[Picked(s)] + Total(g, s \ {Picked(s)})
    BY <2>3, TotalUnfolds
  <2>5. Picked(s) \in s /\ f[Picked(s)] = g[Picked(s)]
    BY <2>3, <2>4, PickedIs
  <2>6. s \ {Picked(s)} \notin C
    BY <2>2, <2>5
  <2>7. Total(f, s \ {Picked(s)}) = Total(g, s \ {Picked(s)})
    BY <2>3, <2>6
  <2> QED
    BY <2>3, <2>4, <2>5, <2>7
<1>2. S \in SUBSET S /\ C = {}
  BY <1>1
<1> QED
  BY <1>2

\* What the library's fold makes of a set is the total over it.
LEMMA UsageOfIs ==
  ASSUME NEW S, IsFiniteSet(S)
  PROVE  UsageOf(S) = Total([t \in S |-> t.usage], S)
<1> DEFINE f == [t \in S |-> t.usage]
           IsIter(g) == g = [s \in SUBSET S |->
                                IF s = {} THEN 0 ELSE Picked(s).usage + g[s \ {Picked(s)}]]
           iter == CHOOSE g : IsIter(g)
<1>1. UsageOf(S) = iter[S]
  BY DEF UsageOf, MapThenSumSet, MapThenFoldSet, Picked
<1>2. \A g : IsIter(g) <=> IsSums(g, f, S)
  <2> TAKE g
  <2>1. ASSUME NEW s \in SUBSET S, s # {}
        PROVE  f[Picked(s)] = Picked(s).usage
    BY <2>1, PickedIs
  <2>2. [s \in SUBSET S |-> IF s = {} THEN 0 ELSE Picked(s).usage + g[s \ {Picked(s)}]]
          = [s \in SUBSET S |-> IF s = {} THEN 0 ELSE f[Picked(s)] + g[s \ {Picked(s)}]]
    <3> HIDE DEF f
    <3> QED
      BY <2>1
  <2> HIDE DEF f
  <2> QED
    BY <2>2 DEF IsSums
<1> HIDE DEF IsIter
<1>3. IsIter(Sums(f, S))
  BY <1>2, SumsExist
<1>4. IsIter(iter)
  BY <1>3, Zenon
<1> HIDE DEF iter
<1>5. IsSums(iter, f, S) /\ S \in SUBSET S
  BY <1>2, <1>4
<1> HIDE DEF f
<1>6. iter[S] = Total(f, S)
  BY <1>5, TotalIs
<1> QED
  BY <1>1, <1>6 DEF f

\* The rows from a first day on.
RowsFrom(rows, since) == {md \in DOMAIN rows : md[2] >= since}

LEMMA SumOfIs ==
  ASSUME NEW rows, NEW since, IsFiniteSet(DOMAIN rows), NEW field
  PROVE  SumOf(field, rows, since)
            = Total([md \in DOMAIN rows |-> rows[md][field]], RowsFrom(rows, since))
<1> DEFINE S == RowsFrom(rows, since)
           f == [md \in DOMAIN rows |-> rows[md][field]]
           IsIter(g) == g = [s \in SUBSET S |->
                                IF s = {} THEN 0
                                ELSE rows[Picked(s)][field] + g[s \ {Picked(s)}]]
           iter == CHOOSE g : IsIter(g)
<1>0. S \subseteq DOMAIN rows /\ IsFiniteSet(S)
  <2>1. S \subseteq DOMAIN rows
    BY DEF RowsFrom
  <2> QED
    BY <2>1, FS_Subset
<1>1. SumOf(field, rows, since) = iter[S]
  BY DEF SumOf, RowsFrom, MapThenSumSet, MapThenFoldSet, Picked
<1> HIDE DEF S
<1>2. \A g : IsIter(g) <=> IsSums(g, f, S)
  <2> TAKE g
  <2>1. ASSUME NEW s \in SUBSET S, s # {}
        PROVE  f[Picked(s)] = rows[Picked(s)][field]
    BY <1>0, <2>1, PickedIs
  <2>2. [s \in SUBSET S |-> IF s = {} THEN 0
                            ELSE rows[Picked(s)][field] + g[s \ {Picked(s)}]]
          = [s \in SUBSET S |-> IF s = {} THEN 0 ELSE f[Picked(s)] + g[s \ {Picked(s)}]]
    <3> HIDE DEF f
    <3> QED
      BY <2>1
  <2> HIDE DEF f
  <2> QED
    BY <2>2 DEF IsSums
<1> HIDE DEF IsIter
<1>3. IsIter(Sums(f, S))
  BY <1>0, <1>2, SumsExist
<1>4. IsIter(iter)
  BY <1>3, Zenon
<1> HIDE DEF iter
<1>5. IsSums(iter, f, S) /\ S \in SUBSET S
  BY <1>2, <1>4
<1> HIDE DEF f
<1>6. iter[S] = Total(f, S)
  BY <1>0, <1>5, TotalIs
<1> QED
  BY <1>1, <1>6 DEF f, S

\* A total of zeros is 0.
LEMMA TotalOfZeros ==
  ASSUME NEW S, IsFiniteSet(S), NEW f, \A x \in S : f[x] = 0
  PROVE  Total(f, S) = 0
<1> DEFINE C == {s \in SUBSET S : Total(f, s) # 0}
<1>1. ASSUME C # {}
      PROVE  FALSE
  <2>1. C \in SUBSET SUBSET S
    OBVIOUS
  <2>2. PICK s \in C : \A t \in C : t \subseteq s => t = s
    <3> HIDE DEF C
    <3> QED
      BY <1>1, <2>1, SmallestSubset
  <2>3. s \in SUBSET S /\ Total(f, s) # 0 /\ IsFiniteSet(s)
    BY FS_Subset
  <2>4. s # {} /\ Total(f, s) = f[Picked(s)] + Total(f, s \ {Picked(s)})
    BY <2>3, TotalUnfolds
  <2>5. Picked(s) \in s
    BY <2>4, PickedIs
  <2>6. s \ {Picked(s)} \notin C
    BY <2>2, <2>5
  <2>7. Total(f, s \ {Picked(s)}) = 0 /\ f[Picked(s)] = 0
    BY <2>3, <2>5, <2>6
  <2> QED
    BY <2>3, <2>4, <2>7
<1>2. S \in SUBSET S /\ C = {}
  BY <1>1
<1> QED
  BY <1>2

\* Changing the value of one element changes the total by as much.
LEMMA TotalChanges ==
  ASSUME NEW S, IsFiniteSet(S), NEW f, NEW g, NEW z \in S,
         \A x \in S : f[x] \in Nat /\ g[x] \in Nat, \A x \in S \ {z} : f[x] = g[x]
  PROVE  Total(g, S) + f[z] = Total(f, S) + g[z]
<1>1. IsFiniteSet(S \ {z})
  BY FS_RemoveElement
<1>2. Total(f, S \ {z}) = Total(g, S \ {z})
  BY <1>1, TotalSame
<1>3. Total(f, S \ {z}) \in Nat
  BY <1>1, TotalInNat
<1>4. Total(f, S) = Total(f, S \ {z}) + f[z] /\ Total(g, S) = Total(g, S \ {z}) + g[z]
  BY TotalWithout
<1> QED
  BY <1>2, <1>3, <1>4

\* A request more adds its usage.
LEMMA UsageOfGrows ==
  ASSUME NEW S, IsFiniteSet(S), NEW r, r \notin S, \A t \in S \cup {r} : t.usage \in Nat
  PROVE  UsageOf(S \cup {r}) = UsageOf(S) + r.usage
<1> DEFINE T == S \cup {r}
           f == [t \in S |-> t.usage]
           g == [t \in T |-> t.usage]
<1>1. IsFiniteSet(T) /\ r \in T /\ T \ {r} = S
  BY FS_AddElement
<1>2. \A t \in T : g[t] = t.usage /\ g[t] \in Nat
  OBVIOUS
<1>3. \A t \in S : g[t] = f[t]
  OBVIOUS
<1>4. UsageOf(T) = Total(g, T) /\ UsageOf(S) = Total(f, S)
  <2> HIDE DEF T
  <2> QED
    BY <1>1, UsageOfIs
<1> HIDE DEF f, g, T
<1>5. Total(g, T) = Total(g, S) + g[r]
  BY <1>1, <1>2, TotalWithout
<1>6. Total(g, S) = Total(f, S)
  BY <1>3, TotalSame
<1> QED
  BY <1>1, <1>2, <1>4, <1>5, <1>6 DEF T

\* One row of a finite book grows by d, and the others stay as they are.
GrowsBy(rows, after, field, row, d) ==
    /\ IsFiniteSet(DOMAIN rows) /\ DOMAIN after = DOMAIN rows /\ row \in DOMAIN rows
    /\ \A md \in DOMAIN rows : rows[md][field] \in Nat /\ after[md][field] \in Nat
    /\ \A md \in DOMAIN rows \ {row} : after[md] = rows[md]
    /\ d \in Nat /\ after[row][field] = rows[row][field] + d

\* A row that grows by d makes the sums from its day or an earlier one on grow by d.
LEMMA SumOfChanges ==
  ASSUME NEW rows, NEW after, NEW field, NEW since, NEW row, NEW d,
         GrowsBy(rows, after, field, row, d)
  PROVE  SumOf(field, after, since)
            = SumOf(field, rows, since) + IF row[2] >= since THEN d ELSE 0
<1> DEFINE A == DOMAIN rows
           S == RowsFrom(rows, since)
           f == [md \in A |-> rows[md][field]]
           g == [md \in A |-> after[md][field]]
<1>0. /\ IsFiniteSet(A) /\ DOMAIN after = A /\ row \in A /\ d \in Nat
      /\ \A md \in A : rows[md][field] \in Nat /\ after[md][field] \in Nat
      /\ \A md \in A \ {row} : after[md] = rows[md]
      /\ after[row][field] = rows[row][field] + d
  BY DEF GrowsBy
<1>1. S = RowsFrom(after, since) /\ S \subseteq A /\ IsFiniteSet(S)
      /\ (row \in S <=> row[2] >= since)
  <2>1. S = RowsFrom(after, since) /\ S \subseteq A /\ (row \in S <=> row[2] >= since)
    BY <1>0 DEF RowsFrom
  <2> QED
    BY <1>0, <2>1, FS_Subset
<1>2. SumOf(field, rows, since) = Total(f, S) /\ SumOf(field, after, since) = Total(g, S)
  <2>1. SumOf(field, rows, since) = Total(f, S)
    BY <1>0, SumOfIs
  <2>2. SumOf(field, after, since) = Total(g, RowsFrom(after, since))
    BY <1>0, SumOfIs
  <2> QED
    BY <1>1, <2>1, <2>2
<1> HIDE DEF S
<1>3. /\ \A md \in S : f[md] \in Nat /\ g[md] \in Nat
      /\ \A md \in S \ {row} : f[md] = g[md]
      /\ row \in S => g[row] = f[row] + d
  BY <1>0, <1>1
<1> HIDE DEF A
<1> HIDE DEF f, g
<1>4. Total(f, S) \in Nat
  BY <1>1, <1>3, TotalInNat
<1>5. CASE row \in S
  <2>1. Total(g, S) + f[row] = Total(f, S) + g[row]
    BY <1>1, <1>3, <1>5, TotalChanges
  <2>2. Total(g, S) \in Nat /\ f[row] \in Nat /\ g[row] = f[row] + d
    BY <1>1, <1>3, <1>5, TotalInNat
  <2> QED
    BY <1>0, <1>1, <1>2, <1>4, <1>5, <2>1, <2>2
<1>6. CASE row \notin S
  <2>1. \A md \in S : f[md] = g[md]
    BY <1>3, <1>6
  <2>2. Total(f, S) = Total(g, S)
    BY <1>1, <2>1, TotalSame
  <2> QED
    BY <1>1, <1>2, <1>4, <1>6, <2>2
<1> QED
  BY <1>5, <1>6

-----------------------------------------------------------------------------
(* The books.  A row counts the requests recorded for its model and day,    *)
(* and nothing is recorded twice: an invocation that was is done.           *)

Rows == (Priced \cup {Bucket}) \X (1 .. Days)
LedgerRow == [requests : Nat, metered : Nat, tokens : Nat, cost : Nat]

BooksInv ==
    /\ ledger \in [Rows -> LedgerRow]
    /\ day \in 1 .. Days
    /\ IsFiniteSet(truth)
    /\ \A t \in truth : /\ t.of \in Invocations /\ meter[t.of].at = "done"
                        /\ t.day \in 1 .. Days /\ t.usage \in Nat
    /\ \A since \in 1 .. Days : SumsAreTrue(since)

LEMMA RowsAreFinite == IsFiniteSet(Rows)
<1>1. IsFiniteSet(Priced \cup {Bucket}) /\ IsFiniteSet(1 .. Days)
  BY MeterAssumption, FS_AddElement, FS_Interval
<1> QED
  BY <1>1, FS_Product DEF Rows

\* Nothing is recorded before the first invocation.
LEMMA BooksInvInit == MeterInit => BooksInv
<1> SUFFICES ASSUME MeterInit PROVE BooksInv
  OBVIOUS
<1>1. ledger = [md \in Rows |-> NoRow] /\ truth = {} /\ day = 1
  BY DEF MeterInit, Rows
<1>2. NoRow \in LedgerRow
  BY DEF NoRow, LedgerRow
<1>3. ledger \in [Rows -> LedgerRow] /\ \A md \in Rows : ledger[md] = NoRow
  BY <1>1, <1>2
<1>4. day \in 1 .. Days
  BY <1>1, MeterAssumption
<1>5. ASSUME NEW since \in 1 .. Days
      PROVE  SumsAreTrue(since)
  <2>1. ASSUME NEW field \in {"requests", "metered", "tokens"}
        PROVE  SumOf(field, ledger, since) = 0
    <3> DEFINE f == [md \in DOMAIN ledger |-> ledger[md][field]]
               S == RowsFrom(ledger, since)
    <3>1. DOMAIN ledger = Rows
      BY <1>3
    <3>2. SumOf(field, ledger, since) = Total(f, S)
      BY <3>1, RowsAreFinite, SumOfIs
    <3>3. S \subseteq Rows /\ IsFiniteSet(S)
      <4>1. S \subseteq Rows
        BY <3>1 DEF RowsFrom
      <4> QED
        BY <4>1, RowsAreFinite, FS_Subset
    <3>4. \A md \in S : f[md] = 0
      <4> TAKE md \in S
      <4>1. md \in Rows /\ f[md] = NoRow[field]
        BY <3>1, <3>3, <1>3
      <4> QED
        BY <4>1 DEF NoRow
    <3> HIDE DEF f, S
    <3> QED
      BY <3>2, <3>3, <3>4, TotalOfZeros
  <2>2. /\ {t \in truth : t.day >= since} = {}
        /\ {t \in {t \in truth : t.day >= since} : t.usage # 0} = {}
    BY <1>1
  <2>3. UsageOf({}) = 0
    <3>1. UsageOf({}) = Total([t \in {} |-> t.usage], {})
      BY FS_EmptySet, UsageOfIs
    <3> QED
      BY <3>1, FS_EmptySet, TotalUnfolds
  <2> QED
    BY <2>1, <2>2, <2>3, FS_EmptySet DEF SumsAreTrue
<1> QED
  BY <1>1, <1>3, <1>4, <1>5, FS_EmptySet DEF BooksInv

\* A recorded request is in the sums from its day or an earlier one on, and in no other.
LEMMA RecordedKeepsSums ==
  ASSUME BooksInv, NEW r, r \notin truth, r.day = day, r.usage \in Nat,
         NEW row \in Rows, row[2] = day, ledger' \in [Rows -> LedgerRow],
         \A md \in Rows \ {row} : ledger'[md] = ledger[md],
         ledger'[row].requests = ledger[row].requests + 1,
         ledger'[row].metered = ledger[row].metered + (IF r.usage = 0 THEN 0 ELSE 1),
         ledger'[row].tokens = ledger[row].tokens + r.usage,
         truth' = truth \cup {r}, NEW since \in 1 .. Days
  PROVE  SumsAreTrue(since)'
<1> DEFINE Since == {t \in truth : t.day >= since}
           Metered == {t \in Since : t.usage # 0}
           After == {t \in truth' : t.day >= since}
           MeteredAfter == {t \in After : t.usage # 0}
<1>1. /\ ledger \in [Rows -> LedgerRow] /\ day \in 1 .. Days /\ IsFiniteSet(truth)
      /\ \A t \in truth : t.usage \in Nat
      /\ SumsAreTrue(since)
  BY DEF BooksInv
<1>2. IsFiniteSet(Since) /\ IsFiniteSet(Metered)
  <2>1. IsFiniteSet(Since)
    BY <1>1, FS_Subset
  <2> QED
    BY <2>1, FS_Subset
<1>3. \A md \in Rows : \A field \in {"requests", "metered", "tokens"} :
          ledger[md][field] \in Nat /\ ledger'[md][field] \in Nat
  BY <1>1 DEF LedgerRow
<1>4. ASSUME NEW field \in {"requests", "metered", "tokens"}, NEW d \in Nat,
             ledger'[row][field] = ledger[row][field] + d
      PROVE  SumOf(field, ledger', since)
                = SumOf(field, ledger, since) + IF day >= since THEN d ELSE 0
  <2>1. DOMAIN ledger = Rows /\ DOMAIN ledger' = Rows
    BY <1>1
  <2>2. \A md \in Rows : ledger[md][field] \in Nat /\ ledger'[md][field] \in Nat
    BY <1>3
  <2>3. SumOf(field, ledger', since)
            = SumOf(field, ledger, since) + IF row[2] >= since THEN d ELSE 0
    <3>1. GrowsBy(ledger, ledger', field, row, d)
      BY <1>4, <2>1, <2>2, RowsAreFinite DEF GrowsBy
    <3> QED
      BY <3>1, SumOfChanges
  <2> QED
    BY <2>3
<1>5. /\ SumOf("requests", ledger, since) = Cardinality(Since)
      /\ SumOf("metered", ledger, since) = Cardinality(Metered)
      /\ SumOf("tokens", ledger, since) = UsageOf(Since)
  BY <1>1 DEF SumsAreTrue
<1>6. /\ SumOf("requests", ledger', since) = Cardinality(After)
      /\ SumOf("metered", ledger', since) = Cardinality(MeteredAfter)
      /\ SumOf("tokens", ledger', since) = UsageOf(After)
  <2>1. CASE day >= since
    <3>1. After = Since \cup {r} /\ r \notin Since /\ r \notin Metered
      BY <2>1
    <3>2. MeteredAfter = IF r.usage = 0 THEN Metered ELSE Metered \cup {r}
      BY <3>1
    <3> HIDE DEF Since, Metered, After, MeteredAfter
    <3>3. SumOf("requests", ledger', since) = Cardinality(After)
      <4>1. SumOf("requests", ledger', since) = SumOf("requests", ledger, since) + 1
        BY <1>4, <2>1
      <4>2. Cardinality(Since \cup {r}) = Cardinality(Since) + 1
        BY <1>2, <3>1, FS_AddElement
      <4> QED
        BY <1>5, <3>1, <4>1, <4>2
    <3>4. SumOf("metered", ledger', since) = Cardinality(MeteredAfter)
      <4>1. CASE r.usage = 0
        <5>1. SumOf("metered", ledger', since) = SumOf("metered", ledger, since) + 0
          BY <1>4, <2>1, <4>1
        <5>2. Cardinality(Metered) \in Nat
          BY <1>2, FS_CardinalityType
        <5> QED
          BY <1>5, <3>2, <4>1, <5>1, <5>2
      <4>2. CASE r.usage # 0
        <5>1. SumOf("metered", ledger', since) = SumOf("metered", ledger, since) + 1
          BY <1>4, <2>1, <4>2
        <5>2. Cardinality(Metered \cup {r}) = Cardinality(Metered) + 1
          BY <1>2, <3>1, FS_AddElement
        <5> QED
          BY <1>5, <3>2, <4>2, <5>1, <5>2
      <4> QED
        BY <4>1, <4>2
    <3>5. SumOf("tokens", ledger', since) = UsageOf(After)
      <4>1. SumOf("tokens", ledger', since) = SumOf("tokens", ledger, since) + r.usage
        BY <1>4, <2>1
      <4>2. \A t \in Since \cup {r} : t.usage \in Nat
        BY <1>1 DEF Since
      <4>3. UsageOf(Since \cup {r}) = UsageOf(Since) + r.usage
        BY <1>2, <3>1, <4>2, UsageOfGrows
      <4> QED
        BY <1>5, <3>1, <4>1, <4>3
    <3> QED
      BY <3>3, <3>4, <3>5
  <2>2. CASE ~(day >= since)
    <3>1. After = Since /\ MeteredAfter = Metered
      BY <2>2
    <3>2. /\ Cardinality(Since) \in Nat /\ Cardinality(Metered) \in Nat
          /\ UsageOf(Since) \in Nat
      <4>1. UsageOf(Since) = Total([t \in Since |-> t.usage], Since)
        BY <1>2, UsageOfIs
      <4>2. \A t \in Since : [u \in Since |-> u.usage][t] \in Nat
        BY <1>1
      <4> HIDE DEF Since
      <4>3. UsageOf(Since) \in Nat
        BY <1>2, <4>1, <4>2, TotalInNat
      <4> QED
        BY <1>2, <4>3, FS_CardinalityType
    <3> HIDE DEF Since, Metered, After, MeteredAfter
    <3>3. /\ SumOf("requests", ledger', since) = SumOf("requests", ledger, since) + 0
          /\ SumOf("metered", ledger', since) = SumOf("metered", ledger, since) + 0
          /\ SumOf("tokens", ledger', since) = SumOf("tokens", ledger, since) + 0
      BY <1>4, <2>2
    <3> QED
      BY <1>5, <3>1, <3>2, <3>3
  <2> QED
    BY <2>1, <2>2
<1> QED
  BY <1>6 DEF SumsAreTrue

\* What is recorded of a response is at most the one usage it can report.
LEMMA UsageIsNat ==
  ASSUME MeterInv, NEW n \in Invocations, Metering(n, "relays")
  PROVE  (IF meter[n].overflowed THEN 0 ELSE Parsed(meter[n].buffer)) \in 0 .. 1
<1>1. PICK r \in Shapes :
          /\ meter[n].relayed \in 0 .. PartsOf(r)
          /\ IF meter[n].overflowed THEN PartsOf(r) > MaxMetered
                                    ELSE IsReceived(meter[n].buffer, r, meter[n].relayed)
  BY DEF MeterInv, RelayOK, Metering
<1>2. r.usage \in 0 .. 1
  BY ShapeIs
<1>3. ~meter[n].overflowed => Parsed(meter[n].buffer) \in {0, r.usage}
  BY <1>1, ParsedIs
<1> QED
  BY <1>2, <1>3

\* The steps that record nothing leave the books as they are.
LEMMA UnrecordedKeepsBooks ==
  ASSUME BooksInv, ledger' = ledger, truth' = truth, day' \in 1 .. Days,
         \A t \in truth : meter'[t.of] = meter[t.of] \/ meter'[t.of].at = "done"
  PROVE  BooksInv'
<1>1. /\ ledger \in [Rows -> LedgerRow] /\ IsFiniteSet(truth)
      /\ \A t \in truth : /\ t.of \in Invocations /\ meter[t.of].at = "done"
                          /\ t.day \in 1 .. Days /\ t.usage \in Nat
      /\ \A since \in 1 .. Days : SumsAreTrue(since)
  BY DEF BooksInv
<1>2. \A t \in truth' : /\ t.of \in Invocations /\ meter'[t.of].at = "done"
                        /\ t.day \in 1 .. Days /\ t.usage \in Nat
  BY <1>1
<1>3. \A since \in 1 .. Days : SumsAreTrue(since)'
  BY <1>1 DEF SumsAreTrue
<1> QED
  BY <1>1, <1>2, <1>3 DEF BooksInv

\* Every step keeps the books.
LEMMA BooksInvStep == MeterInv /\ BooksInv /\ [MeterNext]_meterVars => BooksInv'
<1> SUFFICES ASSUME MeterInv, BooksInv, [MeterNext]_meterVars
             PROVE  BooksInv'
  OBVIOUS
<1>0. /\ meter \in [Invocations -> MeterRecord]
      /\ ledger \in [Rows -> LedgerRow] /\ day \in 1 .. Days /\ IsFiniteSet(truth)
      /\ \A t \in truth : /\ t.of \in Invocations /\ meter[t.of].at = "done"
                          /\ t.day \in 1 .. Days /\ t.usage \in Nat
  BY DEF MeterInv, BooksInv
<1>1. ASSUME NEW n \in Invocations, Invokes(n) \/ RelaysBytes(n)
      PROVE  BooksInv'
  <2>1. /\ ledger' = ledger /\ truth' = truth /\ day' = day
        /\ meter[n].at # "done" /\ \A i \in Invocations \ {n} : meter'[i] = meter[i]
    <3>1. CASE Invokes(n)
      BY <1>0, <3>1 DEF Invokes, Metering
    <3>2. CASE RelaysBytes(n)
      <4>1. PICK k : meter' = [meter EXCEPT ![n] =
                [Fed(meter[n], SubSeq(Sent(n), meter[n].relayed + 1, k)) EXCEPT !.relayed = k]]
        BY <3>2 DEF RelaysBytes
      <4>2. /\ ledger' = ledger /\ truth' = truth /\ day' = day /\ meter[n].at = "relays"
        BY <3>2 DEF RelaysBytes, Metering
      <4> QED
        BY <1>0, <4>1, <4>2
    <3> QED
      BY <1>1, <3>1, <3>2
  <2>2. \A t \in truth : t.of # n /\ meter'[t.of] = meter[t.of]
    BY <1>0, <2>1
  <2> QED
    BY <1>0, <2>1, <2>2, UnrecordedKeepsBooks
<1>2. ASSUME NEW n \in Invocations, StreamEnds(n)
      PROVE  BooksInv'
  <2> DEFINE usage == IF meter[n].overflowed THEN 0 ELSE Parsed(meter[n].buffer)
             m == meter[n].model
             row == <<Catalogued(m), day>>
             r == [of |-> n, day |-> day, usage |-> usage, reported |-> Reply(n).usage,
                   whole |-> /\ meter[n].relayed = Len(Sent(n))
                             /\ Len(Sent(n)) <= MaxMetered
                             /\ Reply(n).status = 200 /\ Reply(n).coding # "br"]
  <2>1. /\ meter[n].at = "relays" /\ day' = day
        /\ meter'[n].at = "done" /\ \A i \in Invocations \ {n} : meter'[i] = meter[i]
        /\ RecordedRow(n, usage) \/ (ledger' = ledger /\ truth' = truth)
    BY <1>0, <1>2 DEF StreamEnds, Metering, IdleMeter
  <2>2. usage \in 0 .. 1
    <3>1. Metering(n, "relays")
      BY <2>1 DEF Metering
    <3> QED
      BY <3>1, UsageIsNat
  <2>3. CASE ledger' = ledger /\ truth' = truth
    <3>1. \A t \in truth : meter'[t.of] = meter[t.of] \/ meter'[t.of].at = "done"
      BY <1>0, <2>1
    <3> QED
      BY <1>0, <2>1, <2>3, <3>1, UnrecordedKeepsBooks
  <2>4. CASE RecordedRow(n, usage)
    <3>1. row \in Rows /\ row[2] = day
      BY <1>0 DEF Rows, Catalogued
    <3> HIDE DEF usage
    <3>2. /\ ledger' = [ledger EXCEPT ![row] =
                 [requests |-> ledger[row].requests + 1,
                  metered |-> ledger[row].metered + (IF usage = 0 THEN 0 ELSE 1),
                  tokens |-> ledger[row].tokens + usage,
                  cost |-> ledger[row].cost + usage * Rate(m)]]
          /\ truth' = truth \cup {r}
      BY <2>4 DEF RecordedRow
    <3>3. r.of = n /\ r.day = day /\ r.usage = usage
      OBVIOUS
    <3>4. r \notin truth
      BY <1>0, <2>1, <3>3
    <3> HIDE DEF r, row, m
    <3>5. usage * Rate(m) \in Nat
      <4>1. (usage = 0 \/ usage = 1) /\ (Rate(m) = 0 \/ Rate(m) = 2)
        BY <2>2 DEF Rate
      <4> QED
        BY <4>1
    <3>6. [requests |-> ledger[row].requests + 1,
           metered |-> ledger[row].metered + (IF usage = 0 THEN 0 ELSE 1),
           tokens |-> ledger[row].tokens + usage,
           cost |-> ledger[row].cost + usage * Rate(m)] \in LedgerRow
      <4>1. /\ ledger[row].requests \in Nat /\ ledger[row].metered \in Nat
            /\ ledger[row].tokens \in Nat /\ ledger[row].cost \in Nat /\ usage \in Nat
        BY <1>0, <2>2, <3>1 DEF LedgerRow
      <4>2. /\ ledger[row].requests + 1 \in Nat
            /\ ledger[row].metered + (IF usage = 0 THEN 0 ELSE 1) \in Nat
            /\ ledger[row].tokens + usage \in Nat
            /\ ledger[row].cost + usage * Rate(m) \in Nat
        BY <4>1, <3>5
      <4> QED
        BY <4>2 DEF LedgerRow
    <3>7. /\ ledger' \in [Rows -> LedgerRow]
          /\ \A md \in Rows \ {row} : ledger'[md] = ledger[md]
          /\ ledger'[row].requests = ledger[row].requests + 1
          /\ ledger'[row].metered = ledger[row].metered + (IF r.usage = 0 THEN 0 ELSE 1)
          /\ ledger'[row].tokens = ledger[row].tokens + r.usage
      BY <1>0, <3>1, <3>2, <3>3, <3>6
    <3>8. r.usage \in Nat
      BY <2>2, <3>3
    <3>9. \A since \in 1 .. Days : SumsAreTrue(since)'
      BY <3>1, <3>2, <3>3, <3>4, <3>7, <3>8, RecordedKeepsSums
    <3>10. IsFiniteSet(truth')
      BY <1>0, <3>2, FS_AddElement
    <3>11. \A t \in truth' : /\ t.of \in Invocations /\ meter'[t.of].at = "done"
                             /\ t.day \in 1 .. Days /\ t.usage \in Nat
      <4> SUFFICES ASSUME NEW t \in truth'
                   PROVE  /\ t.of \in Invocations /\ meter'[t.of].at = "done"
                          /\ t.day \in 1 .. Days /\ t.usage \in Nat
        OBVIOUS
      <4>1. CASE t \in truth
        BY <1>0, <2>1, <4>1
      <4>2. CASE t = r
        BY <1>0, <2>1, <3>3, <3>8, <4>2
      <4> QED
        BY <3>2, <4>1, <4>2
    <3> QED
      BY <1>0, <2>1, <3>7, <3>9, <3>10, <3>11 DEF BooksInv
  <2> QED
    BY <2>1, <2>3, <2>4
<1>3. CASE DayEnds
  <2>1. day' \in 1 .. Days /\ ledger' = ledger /\ truth' = truth /\ meter' = meter
    BY <1>0, <1>3, MeterAssumption DEF DayEnds
  <2> QED
    BY <2>1, UnrecordedKeepsBooks
<1>4. CASE UNCHANGED meterVars
  BY <1>0, <1>4, UnrecordedKeepsBooks DEF meterVars
<1> QED
  BY <1>1, <1>2, <1>3, <1>4 DEF MeterNext

\* The month's sums from any first day on are those of the requests recorded since, each
\* once, and a metered one has the usage the provider reported: for any invocations,
\* models, days and bound of the buffer (response_meter.py, record_bedrock_usage).
THEOREM BooksAreTrue == MeterSpec => []MeteredIsTrue
<1>1. MeterInit => MeterInv /\ BooksInv
  BY MeterInvInit, BooksInvInit
<1>2. MeterInv /\ BooksInv /\ [MeterNext]_meterVars => (MeterInv /\ BooksInv)'
  BY MeterInvStep, BooksInvStep
<1>3. MeterInv /\ BooksInv => MeteredIsTrue
  BY DEF MeterInv, BooksInv, MeteredIsTrue
<1> QED
  BY <1>1, <1>2, <1>3, PTL DEF MeterSpec
================================================================================
