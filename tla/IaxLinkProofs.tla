--------------------------- MODULE IaxLinkProofs ---------------------------
(***************************************************************************)
(* The transport of IaxLink keeps its promises for every number of         *)
(* sequence numbers, retries, frames sent and frames in flight.            *)
(***************************************************************************)
EXTENDS IaxLink, FiniteSetTheorems, TLAPS

(* One number is kept for the final frame until it is used.                *)
Spare(e) == IF bye[e] = NoFinal THEN 1 ELSE 0

NetFrames == [to: Ends, type: {"DATA"}, seq: Nat, ack: Nat]
             \cup [to: Ends, type: {"ACK", "VNAK"}, ack: Nat]
Retried   == [seq: Nat, ack: Nat, tries: -1 .. MaxRetries, final: BOOLEAN]

LinkType ==
    /\ oseq \in [Ends -> Nat] /\ rseq \in [Ends -> Nat]
    /\ iseq \in [Ends -> Nat] /\ aseq \in [Ends -> Nat]
    /\ retry \in [Ends -> SUBSET Retried]
    /\ life \in [Ends -> Lives] /\ bye \in [Ends -> Nat \cup {NoFinal}]
    /\ net \in SUBSET NetFrames /\ IsFiniteSet(net) /\ Cardinality(net) <= MaxNet

(* What was acknowledged was taken, and what was taken was numbered; the   *)
(* window between the first and the last of them never closes.             *)
Counters(e) ==
    /\ rseq[e] <= iseq[Peer(e)] /\ iseq[e] <= oseq[Peer(e)] /\ aseq[e] <= iseq[e]
    /\ oseq[e] + Spare(e) - rseq[e] < M
    /\ oseq[e] + Spare(e) <= MaxSent[e] + 2
    /\ life[e] = "up" => bye[e] = NoFinal
    /\ bye[e] # NoFinal => bye[e] < oseq[e]

(* A frame on schedq: numbered, not acknowledged while it may still be     *)
(* sent, and what it says of the peer's frames is true and not too old.    *)
Waiting(e, f) ==
    /\ f.seq < oseq[e] /\ f.ack <= iseq[e]
    /\ oseq[Peer(e)] + Spare(Peer(e)) - f.ack < M
    /\ f.tries >= 0 => rseq[e] <= f.seq
    /\ ~f.final => f.tries >= 0
    /\ life[e] = "up" => ~f.final

(* The same of a frame in flight. *)
InFlight(f) ==
    /\ f.ack <= iseq[Peer(f.to)] /\ oseq[f.to] - f.ack < M
    /\ f.type = "DATA" => f.seq < oseq[Peer(f.to)] /\ oseq[Peer(f.to)] - f.seq < M

Delivered == got = [e \in Ends |-> [i \in 1 .. iseq[e] |-> i - 1]]

LinkInv ==
    /\ LinkType
    /\ \A e \in Ends : Counters(e) /\ \A f \in retry[e] : Waiting(e, f)
    /\ \A f \in net : InFlight(f)
    /\ Delivered
    /\ NothingForgotten
-----------------------------------------------------------------------------
(* Numbers modulo M. *)

LEMMA ModSmall == ASSUME NEW m \in Nat \ {0}, NEW a \in 0 .. m - 1
                  PROVE  a % m = a
  BY SMTT(10)

LEMMA ModNegative == ASSUME NEW m \in Nat \ {0}, NEW a \in Int, -m < a, a < 0
                     PROVE  a % m = a + m
  BY SMTT(10)

LEMMA ModSplit == ASSUME NEW m \in Nat \ {0}, NEW a \in Int
                  PROVE  /\ (a % m) \in 0 .. m - 1
                         /\ (a \div m) \in Int
                         /\ a = m * (a \div m) + (a % m)
  BY SMTT(10)

LEMMA SmallMultiple == ASSUME NEW m \in Nat \ {0}, NEW j \in Int, m * j < m, -m < m * j
                       PROVE  j = 0
  BY SMTT(10)

(* Numbers that are less than m apart are the same if they wrap to the     *)
(* same byte.                                                              *)
LEMMA ModUnique ==
  ASSUME NEW m \in Nat \ {0}, NEW a \in Int, NEW b \in Int,
         a - b < m, b - a < m, a % m = b % m
  PROVE  a = b
<1> DEFINE p == a \div m
           q == b \div m
<1>1. /\ p \in Int /\ q \in Int /\ (a % m) \in Int
      /\ a = m * p + (a % m) /\ b = m * q + (b % m)
  BY ModSplit
<1> HIDE DEF p, q
<1>2. a - b = m * p - m * q
  BY <1>1, SMTT(10)
<1>3. m * p - m * q = m * (p - q)
  BY <1>1, SMTT(10)
<1>4. p - q = 0
  BY <1>1, <1>2, <1>3, SmallMultiple, SMTT(10)
<1> QED
  BY <1>1, <1>2, <1>3, <1>4, SMTT(10)
-----------------------------------------------------------------------------
(* There are two ends, and each is the peer of the other. *)
LEMMA Peers ==
  ASSUME NEW e \in Ends
  PROVE  /\ Peer(e) \in Ends /\ Peer(e) # e /\ Peer(Peer(e)) = e
         /\ \A d \in Ends : d = e \/ d = Peer(e)
<1>1. PICK x, y \in Ends : x # y /\ Ends = {x, y}
  BY EndsAssumption
<1>2. \A d \in Ends : Peer(d) \in Ends /\ Peer(d) # d
  BY <1>1 DEF Peer
<1> QED
  BY <1>1, <1>2

(* What is in flight after a frame was sent. *)
LEMMA SentFrames ==
  ASSUME NEW n, IsFiniteSet(n), Cardinality(n) <= MaxNet, NEW f, NEW x \in Sent(n, f)
  PROVE  x \subseteq n \cup {f} /\ IsFiniteSet(x) /\ Cardinality(x) <= MaxNet
<1>1. IsFiniteSet(n \cup {f})
  BY FS_AddElement
<1> QED
  BY <1>1 DEF Sent

(* What is left in flight when frames are lost. *)
LEMMA FewerFrames ==
  ASSUME IsFiniteSet(net), Cardinality(net) <= MaxNet, NEW n \in SUBSET net
  PROVE  IsFiniteSet(n) /\ Cardinality(n) <= MaxNet
<1>1. IsFiniteSet(n) /\ Cardinality(n) <= Cardinality(net)
  BY FS_Subset
<1>2. Cardinality(n) \in Nat /\ Cardinality(net) \in Nat
  BY <1>1, FS_CardinalityType
<1> QED
  BY <1>1, <1>2, BoundsAssumption

THEOREM LinkInit == Init => LinkInv
<1> SUFFICES ASSUME Init PROVE LinkInv
  OBVIOUS
<1>1. LinkType
  BY BoundsAssumption, FS_EmptySet DEF Init, LinkType, Lives, Retried, NetFrames
<1>2. \A e \in Ends : Counters(e) /\ \A f \in retry[e] : Waiting(e, f)
  BY BoundsAssumption, Peers DEF Init, Counters, Spare
<1>3. Delivered
  BY DEF Init, Delivered
<1>4. NothingForgotten
  BY DEF Init, NothingForgotten
<1> QED
  BY <1>1, <1>2, <1>3, <1>4 DEF LinkInv, Init
-----------------------------------------------------------------------------
(* What the tests on wrapped numbers come to, given the invariant.         *)

(* A frame's iseqno moves the window's end up to it, unless it is older    *)
(* than the window.                                                        *)
LEMMA AckedValue ==
  ASSUME LinkInv, NEW e \in Ends, NEW f \in net, f.to = e
  PROVE  /\ Acked(e, f) = IF rseq[e] <= f.ack THEN f.ack - rseq[e] ELSE 0
         /\ Acked(e, f) \in Nat
         /\ rseq[e] + Acked(e, f) <= iseq[Peer(e)]
<1>1. /\ rseq[e] \in Nat /\ oseq[e] \in Nat /\ iseq[Peer(e)] \in Nat
      /\ f.ack \in Nat
  BY Peers DEF LinkInv, LinkType, NetFrames
<1>2. /\ rseq[e] <= iseq[Peer(e)] /\ iseq[Peer(e)] <= oseq[e]
      /\ oseq[e] - rseq[e] < M
      /\ f.ack <= iseq[Peer(e)] /\ oseq[e] - f.ack < M
  BY <1>1, Peers, BoundsAssumption DEF LinkInv, LinkType, Counters, Spare, InFlight
<1>3. Ahead(rseq[e], oseq[e]) = oseq[e] - rseq[e]
  BY <1>1, <1>2, ModSmall, BoundsAssumption DEF Ahead
<1>4. CASE rseq[e] <= f.ack
  <2>1. Ahead(rseq[e], f.ack) = f.ack - rseq[e]
    BY <1>1, <1>2, <1>4, ModSmall, BoundsAssumption DEF Ahead
  <2> QED
    BY <1>1, <1>2, <1>3, <1>4, <2>1 DEF Acked, InWindow
<1>5. CASE f.ack < rseq[e]
  <2>1. Ahead(rseq[e], f.ack) = f.ack - rseq[e] + M
    BY <1>1, <1>2, <1>5, ModNegative, BoundsAssumption DEF Ahead
  <2> QED
    BY <1>1, <1>2, <1>3, <1>5, <2>1, BoundsAssumption DEF Acked, InWindow
<1> QED
  BY <1>1, <1>4, <1>5

(* It cancels those frames that the window leaves behind. *)
LEMMA CancelledFrames ==
  ASSUME LinkInv, NEW e \in Ends, NEW f \in net, f.to = e,
         NEW q \in retry[e], q.tries >= 0
  PROVE  q \in Cancelled(e, f) <=> q.seq < rseq[e] + Acked(e, f)
<1>1. rseq[e] \in Nat /\ oseq[e] \in Nat /\ q.seq \in Nat
  BY DEF LinkInv, LinkType, Retried
<1>2. rseq[e] <= q.seq /\ q.seq < oseq[e] /\ oseq[e] - rseq[e] < M
  BY <1>1, BoundsAssumption DEF LinkInv, LinkType, Counters, Spare, Waiting
<1>3. Ahead(rseq[e], q.seq) = q.seq - rseq[e]
  BY <1>1, <1>2, ModSmall, BoundsAssumption DEF Ahead
<1> QED
  BY <1>1, <1>3, AckedValue DEF Cancelled

(* The frame that is in sequence is the next one. *)
LEMMA NextFrame ==
  ASSUME LinkInv, NEW e \in Ends, NEW f \in net, f.to = e,
         f.type = "DATA", InSequence(e, f)
  PROVE  f.seq = iseq[e] /\ iseq[e] < oseq[Peer(e)]
<1> DEFINE p == Peer(e)
<1>1. /\ p \in Ends /\ Peer(p) = e
      /\ rseq[p] \in Nat /\ oseq[p] \in Nat /\ iseq[e] \in Nat /\ f.seq \in Nat
  BY Peers DEF LinkInv, LinkType, NetFrames
<1>2. /\ rseq[p] <= iseq[e] /\ iseq[e] <= oseq[p] /\ oseq[p] - rseq[p] < M
      /\ f.seq < oseq[p] /\ oseq[p] - f.seq < M
  BY <1>1, BoundsAssumption DEF LinkInv, LinkType, Counters, Spare, InFlight
<1>3. f.seq = iseq[e]
  <2> HIDE DEF p
  <2> QED
    BY <1>1, <1>2, ModUnique, BoundsAssumption DEF InSequence
<1> QED
  BY <1>2, <1>3
-----------------------------------------------------------------------------
(* An end numbers a frame: what the steps that do so have in common.  R is *)
(* what schedq holds afterwards.                                           *)
Fresh(e) ==
    /\ oseq[e] + 1 + Spare(e)' - rseq[e] < M
    /\ \A f \in retry[Peer(e)] : oseq[e] + 1 + Spare(e)' - f.ack < M
    /\ oseq[e] + 1 + Spare(e)' <= MaxSent[e] + 2

LEMMA Numbered ==
  ASSUME LinkInv, NEW e \in Ends, Number(e),
         NEW b \in BOOLEAN, NEW R \in SUBSET (retry[e] \cup {Scheduled(e, b)}),
         retry' = [retry EXCEPT ![e] = R],
         NEW l \in Lives, life' = [life EXCEPT ![e] = l],
         bye' \in [Ends -> Nat \cup {NoFinal}], bye'[Peer(e)] = bye[Peer(e)],
         bye'[e] \in {bye[e], oseq[e]}, Fresh(e),
         l = "up" => /\ life[e] = "up" /\ bye'[e] = NoFinal /\ ~b
                     /\ R = retry[e] \cup {Scheduled(e, b)},
         net' \subseteq YoungNet(e) \cup {Data(e, oseq[e], iseq[e])},
         IsFiniteSet(net'), Cardinality(net') <= MaxNet
  PROVE  LinkInv'
<1> DEFINE p == Peer(e)
           new == Scheduled(e, b)
           out == Data(e, oseq[e], iseq[e])
<1>1. /\ p \in Ends /\ p # e /\ Peer(p) = e
      /\ \A d \in Ends : d = e \/ d = p
  BY Peers
<1> HIDE DEF p
<1>2. LinkType
  BY DEF LinkInv
<1>3. /\ oseq' = [oseq EXCEPT ![e] = @ + 1]
      /\ aseq' = [aseq EXCEPT ![e] = iseq[e]]
      /\ rseq' = rseq /\ iseq' = iseq /\ got' = got
  BY DEF Number
<1>4. new \in Retried /\ out \in NetFrames
  BY <1>1, <1>2, BoundsAssumption DEF LinkType, Retried, NetFrames, Scheduled, Data, p
<1>5. LinkType'
  <2>1. oseq' \in [Ends -> Nat] /\ aseq' \in [Ends -> Nat]
    BY <1>2, <1>3 DEF LinkType
  <2>2. retry' \in [Ends -> SUBSET Retried]
    BY <1>2, <1>4 DEF LinkType
  <2>3. net' \in SUBSET NetFrames
    BY <1>2, <1>4 DEF LinkType, YoungNet
  <2>4. life' \in [Ends -> Lives]
    BY <1>2 DEF LinkType
  <2> QED
    BY <1>2, <1>3, <2>1, <2>2, <2>3, <2>4 DEF LinkType
<1>6. ASSUME NEW d \in Ends PROVE Counters(d)'
  <2>1. CASE d = e
    <3>1. bye'[e] # NoFinal => bye'[e] < oseq'[e]
      <4>1. oseq[e] \in Nat /\ oseq'[e] = oseq[e] + 1
        BY <1>2, <1>3 DEF LinkType
      <4>2. CASE bye'[e] = oseq[e]
        BY <4>1, <4>2
      <4>3. CASE bye'[e] = bye[e]
        BY <1>2, <4>1, <4>3 DEF LinkInv, LinkType, Counters
      <4> QED
        BY <4>2, <4>3
    <3>2. life'[e] = l
      BY <1>2 DEF LinkType
    <3> QED
      BY <1>1, <1>2, <1>3, <2>1, <3>1, <3>2, BoundsAssumption
      DEF LinkInv, LinkType, Counters, Fresh, Spare, Lives, p
  <2>2. CASE d = p
    BY <1>1, <1>2, <1>3, <2>2, BoundsAssumption
    DEF LinkInv, LinkType, Counters, Spare, Lives, p
  <2> QED
    BY <1>1, <2>1, <2>2
<1>7. ASSUME NEW d \in Ends, NEW f \in retry'[d] PROVE Waiting(d, f)'
  <2>1. CASE d = e /\ f = new
    <3>1. new.seq = oseq[e] /\ new.ack = iseq[e] /\ new.final = b /\ new.tries = MaxRetries
      BY DEF Scheduled
    <3>2. oseq[p] + Spare(p) - rseq[p] < M /\ rseq[p] <= iseq[e] /\ rseq[e] <= oseq[e]
      BY <1>1, <1>2 DEF LinkInv, LinkType, Counters, Spare, p
    <3> QED
      BY <1>1, <1>2, <1>3, <2>1, <3>1, <3>2, BoundsAssumption
      DEF LinkType, Waiting, Spare, Lives, Retried, p
  <2>2. CASE d = e /\ f \in retry[e]
    BY <1>1, <1>2, <1>3, <2>2, BoundsAssumption
    DEF LinkInv, LinkType, Waiting, Spare, Lives, Retried, p
  <2>3. CASE d = p /\ f \in retry[p]
    BY <1>1, <1>2, <1>3, <2>3, BoundsAssumption
    DEF LinkInv, LinkType, Waiting, Fresh, Spare, Lives, Retried, p
  <2> QED
    BY <1>1, <1>2, <2>1, <2>2, <2>3 DEF LinkType
<1>8. ASSUME NEW f \in net' PROVE InFlight(f)'
  <2>1. CASE f = out
    <3>1. out.to = p /\ out.type = "DATA" /\ out.seq = oseq[e] /\ out.ack = iseq[e]
      BY DEF Data, p
    <3>2. oseq[p] - iseq[e] < M
      BY <1>1, <1>2, BoundsAssumption DEF LinkInv, LinkType, Counters, Spare, p
    <3> QED
      BY <1>1, <1>2, <1>3, <2>1, <3>1, <3>2, BoundsAssumption DEF LinkType, InFlight, p
  <2>2. CASE f \in YoungNet(e)
    <3>1. f \in net /\ InFlight(f) /\ Young(e, f)
      BY <2>2 DEF YoungNet, LinkInv
    <3>2. f.to \in Ends /\ f.ack \in Nat /\ (f.type = "DATA" => f.seq \in Nat)
      BY <1>2, <3>1 DEF LinkType, NetFrames
    <3>3. CASE f.to = e
      BY <1>1, <1>2, <1>3, <3>1, <3>2, <3>3 DEF LinkType, InFlight, Young, p
    <3>4. CASE f.to = p
      <4>1. Peer(f.to) = e /\ f.to # e /\ oseq'[e] = oseq[e] + 1 /\ oseq'[p] = oseq[p]
        BY <1>1, <1>2, <1>3, <3>4 DEF LinkType
      <4> QED
        BY <1>2, <1>3, <3>1, <3>2, <3>4, <4>1 DEF LinkType, InFlight, Young
    <3> QED
      BY <1>1, <3>2, <3>3, <3>4
  <2> QED
    BY <2>1, <2>2
<1>9. Delivered'
  BY <1>3 DEF LinkInv, Delivered
<1>10. NothingForgotten'
  <2> SUFFICES ASSUME NEW d \in Ends, life'[d] = "up"
               PROVE  {f.seq : f \in retry'[d]} = rseq'[d] .. oseq'[d] - 1
    BY DEF NothingForgotten
  <2>1. CASE d = e
    <3>1. {f.seq : f \in retry[e]} = rseq[e] .. oseq[e] - 1
      BY <1>2, <2>1 DEF LinkInv, NothingForgotten, LinkType
    <3>2. {f.seq : f \in retry'[e]} = {f.seq : f \in retry[e]} \cup {oseq[e]}
      <4>1. retry'[e] = retry[e] \cup {new}
        BY <1>2, <2>1 DEF LinkType
      <4>2. new.seq = oseq[e]
        BY DEF Scheduled
      <4> HIDE DEF new
      <4> QED
        BY <4>1, <4>2
    <3>3. rseq[e] <= oseq[e] /\ rseq[e] \in Nat /\ oseq[e] \in Nat
      BY <1>1, <1>2 DEF LinkInv, LinkType, Counters, p
    <3>4. rseq'[e] = rseq[e] /\ oseq'[e] = oseq[e] + 1
      BY <1>2, <1>3 DEF LinkType
    <3>5. {f.seq : f \in retry'[e]} = rseq[e] .. oseq[e]
      <4>1. \A i, j \in Nat : i <= j => (i .. j - 1) \cup {j} = i .. j
        OBVIOUS
      <4> QED
        BY <3>1, <3>2, <3>3, <4>1
    <3> QED
      BY <2>1, <3>3, <3>4, <3>5
  <2>2. CASE d = p
    BY <1>1, <1>2, <1>3, <2>2 DEF LinkInv, NothingForgotten, LinkType
  <2> QED
    BY <1>1, <2>1, <2>2
<1> QED
  BY <1>5, <1>6, <1>7, <1>8, <1>9, <1>10 DEF LinkInv
-----------------------------------------------------------------------------
(* The steps, one lemma each. *)

LEMMA SendStep == ASSUME LinkInv, NEW e \in Ends, Send(e) PROVE LinkInv'
<1>1. /\ Peer(e) \in Ends /\ LinkType
      /\ oseq[e] \in Nat /\ rseq[e] \in Nat /\ iseq[e] \in Nat
  BY Peers DEF LinkInv, LinkType, Send
<1>2. Fresh(e)
  <2>1. oseq[e] + 1 + Spare(e)' - rseq[e] < M
    BY <1>1, BoundsAssumption DEF Send, MayNumber, Spare
  <2>2. ASSUME NEW f \in retry[Peer(e)] PROVE oseq[e] + 1 + Spare(e)' - f.ack < M
    BY <1>1, BoundsAssumption DEF LinkType, Retried, Send, MayNumber, Spare
  <2>3. oseq[e] + 1 + Spare(e)' <= MaxSent[e] + 2
    BY <1>1, BoundsAssumption DEF Send, Room, Spare
  <2> QED
    BY <2>1, <2>2, <2>3 DEF Fresh
<1>3. /\ net' \subseteq YoungNet(e) \cup {Data(e, oseq[e], iseq[e])}
      /\ IsFiniteSet(net') /\ Cardinality(net') <= MaxNet
  <2>1. IsFiniteSet(YoungNet(e)) /\ Cardinality(YoungNet(e)) <= MaxNet
    BY <1>1, FewerFrames DEF LinkType, YoungNet
  <2> QED
    BY <2>1, SentFrames DEF Send
<1>4. life' = [life EXCEPT ![e] = life[e]] /\ life[e] \in Lives
  BY <1>1 DEF LinkType, Send
<1>5. life[e] = "up" => bye'[e] = NoFinal
  BY DEF LinkInv, Counters, Send
<1>6. retry' = [retry EXCEPT ![e] = retry[e] \cup {Scheduled(e, FALSE)}]
  BY DEF Send
<1>7. /\ Number(e) /\ bye' \in [Ends -> Nat \cup {NoFinal}]
      /\ bye'[Peer(e)] = bye[Peer(e)] /\ bye'[e] = bye[e]
  BY <1>1 DEF Send, LinkType
<1> QED
  BY <1>2, <1>3, <1>4, <1>5, <1>6, <1>7, Numbered

(* The last frame takes the number that was kept for it. *)
LEMMA FinalStep ==
  ASSUME LinkInv, NEW e \in Ends, NEW fs \in SUBSET retry[e], life[e] = "up", Final(e, fs)
  PROVE  LinkInv'
<1>1. /\ Peer(e) \in Ends /\ Peer(e) # e /\ LinkType
      /\ oseq[e] \in Nat /\ rseq[e] \in Nat /\ iseq[e] \in Nat
      /\ bye[e] = NoFinal
  BY Peers DEF LinkInv, LinkType, Counters
<1>2. Number(e) /\ bye' = [bye EXCEPT ![e] = oseq[e]]
  BY DEF Final
<1>3. /\ bye' \in [Ends -> Nat \cup {NoFinal}] /\ bye'[Peer(e)] = bye[Peer(e)]
      /\ bye'[e] = oseq[e] /\ bye'[e] # NoFinal
  BY <1>1, <1>2 DEF LinkType, NoFinal
<1>4. Fresh(e)
  <2>1. oseq[e] + 1 + Spare(e)' - rseq[e] < M /\ oseq[e] + 1 + Spare(e)' <= MaxSent[e] + 2
    BY <1>1, <1>3, BoundsAssumption DEF LinkInv, Counters, Spare
  <2>2. ASSUME NEW f \in retry[Peer(e)] PROVE oseq[e] + 1 + Spare(e)' - f.ack < M
    <3>1. f.ack \in Nat /\ oseq[e] + Spare(e) - f.ack < M
      BY <1>1, Peers DEF LinkInv, LinkType, Retried, Waiting
    <3> QED
      BY <1>1, <1>3, <3>1 DEF Spare
  <2> QED
    BY <2>1, <2>2 DEF Fresh
<1>5. /\ IsFiniteSet(YoungNet(e)) /\ Cardinality(YoungNet(e)) <= MaxNet
      /\ IsFiniteSet(Unheard(e, YoungNet(e))) /\ Cardinality(Unheard(e, YoungNet(e))) <= MaxNet
  BY <1>1, FewerFrames DEF LinkType, YoungNet, Unheard
<1>6. CASE /\ life' = [life EXCEPT ![e] = "gone"]
           /\ retry' = [retry EXCEPT ![e] = {}]
           /\ net' \in Sent(Unheard(e, YoungNet(e)), Data(e, oseq[e], iseq[e]))
  <2>1. /\ net' \subseteq YoungNet(e) \cup {Data(e, oseq[e], iseq[e])}
        /\ IsFiniteSet(net') /\ Cardinality(net') <= MaxNet
    BY <1>5, <1>6, SentFrames DEF Unheard
  <2> QED
    BY <1>2, <1>3, <1>4, <1>6, <2>1, Numbered DEF Lives
<1>7. CASE /\ life' = [life EXCEPT ![e] = "final"]
           /\ retry' = [retry EXCEPT ![e] = fs \cup {Scheduled(e, TRUE)}]
           /\ net' = YoungNet(e)
  BY <1>2, <1>3, <1>4, <1>5, <1>7, Numbered DEF Lives
<1> QED
  BY <1>6, <1>7 DEF Final

(* A frame of schedq is sent once more: it is of an age that the peer can  *)
(* still tell.                                                             *)
LEMMA ResendStep ==
  ASSUME LinkInv, NEW e \in Ends, NEW f \in retry[e], Resend(e, f)
  PROVE  LinkInv'
<1> DEFINE p == Peer(e)
           again == [f EXCEPT !.tries = @ - 1]
           out == Data(e, f.seq, f.ack)
<1>1. /\ p \in Ends /\ p # e /\ Peer(p) = e
      /\ \A d \in Ends : d = e \/ d = p
      /\ LinkType
  BY Peers DEF LinkInv
<1> HIDE DEF p
<1>2. /\ f \in Retried /\ f.tries > 0
      /\ rseq[e] <= f.seq /\ f.seq < oseq[e] /\ f.ack <= iseq[e]
      /\ oseq[p] + Spare(p) - f.ack < M
      /\ life[e] = "up" => ~f.final
  BY <1>1 DEF LinkInv, LinkType, Waiting, Resend, Retried, p
<1>3. /\ again \in Retried /\ again.seq = f.seq /\ again.ack = f.ack
      /\ again.final = f.final /\ again.tries >= 0
  BY <1>2, BoundsAssumption DEF Retried
<1>4. out \in NetFrames /\ out.to = p /\ out.type = "DATA" /\ out.seq = f.seq /\ out.ack = f.ack
  BY <1>1, <1>2 DEF Data, NetFrames, Retried, p
<1>5. /\ retry' = [retry EXCEPT ![e] = (@ \ {f}) \cup {again}]
      /\ oseq' = oseq /\ rseq' = rseq /\ iseq' = iseq /\ aseq' = aseq
      /\ life' = life /\ bye' = bye /\ got' = got
      /\ net' \in Sent(net, out)
  BY DEF Resend
<1> HIDE DEF again, out
<1>6. net' \subseteq net \cup {out} /\ IsFiniteSet(net') /\ Cardinality(net') <= MaxNet
  BY <1>1, <1>5, SentFrames DEF LinkType
<1>7. LinkType'
  BY <1>1, <1>3, <1>4, <1>5, <1>6 DEF LinkType
<1>8. \A d \in Ends : Counters(d)'
  BY <1>5 DEF LinkInv, Counters, Spare
<1>9. ASSUME NEW d \in Ends, NEW g \in retry'[d] PROVE Waiting(d, g)'
  <2>1. CASE d = e /\ g = again
    BY <1>1, <1>2, <1>3, <1>5, <2>1 DEF Waiting, Spare, p
  <2>2. CASE g \in retry[d]
    BY <1>5, <2>2 DEF LinkInv, Waiting, Spare
  <2> QED
    BY <1>1, <1>5, <2>1, <2>2 DEF LinkType
<1>10. ASSUME NEW g \in net' PROVE InFlight(g)'
  <2>1. CASE g = out
    <3>1. /\ oseq[p] \in Nat /\ oseq[e] \in Nat /\ rseq[e] \in Nat /\ f.seq \in Nat /\ f.ack \in Nat
      BY <1>1, <1>2 DEF LinkType, Retried
    <3>2. oseq[p] - f.ack < M /\ oseq[e] - f.seq < M
      BY <1>1, <1>2, <3>1, BoundsAssumption DEF LinkInv, Counters, Spare
    <3> QED
      BY <1>1, <1>2, <1>4, <1>5, <2>1, <3>2 DEF InFlight
  <2>2. CASE g \in net
    BY <1>5, <2>2 DEF LinkInv, InFlight
  <2> QED
    BY <1>6, <2>1, <2>2
<1>11. Delivered'
  BY <1>5 DEF LinkInv, Delivered
<1>12. NothingForgotten'
  <2>1. \A d \in Ends : {g.seq : g \in retry'[d]} = {g.seq : g \in retry[d]}
    BY <1>1, <1>3, <1>5 DEF LinkType
  <2> QED
    BY <1>5, <2>1 DEF LinkInv, NothingForgotten
<1> QED
  BY <1>7, <1>8, <1>9, <1>10, <1>11, <1>12 DEF LinkInv

(* A frame of a call that is over is given up, and the session stays. *)
LEMMA DroppedStep ==
  ASSUME LinkInv, NEW e \in Ends, NEW f \in retry[e], life[e] = "final",
         retry' = [retry EXCEPT ![e] = @ \ {f}],
         UNCHANGED <<oseq, rseq, iseq, aseq, life, bye, got, net>>
  PROVE  LinkInv'
<1>1. LinkType'
  BY DEF LinkInv, LinkType
<1>2. \A d \in Ends : retry'[d] \subseteq retry[d] /\ (d # e => retry'[d] = retry[d])
  BY DEF LinkInv, LinkType
<1>3. \A d \in Ends : Counters(d)' /\ \A g \in retry'[d] : Waiting(d, g)'
  BY <1>2 DEF LinkInv, Counters, Waiting, Spare
<1>4. (\A g \in net : InFlight(g))' /\ Delivered'
  BY DEF LinkInv, InFlight, Delivered
<1>5. NothingForgotten'
  BY <1>2 DEF LinkInv, NothingForgotten
<1> QED
  BY <1>1, <1>3, <1>4, <1>5 DEF LinkInv

LEMMA GoneStep == ASSUME LinkInv, NEW e \in Ends, Gone(e) PROVE LinkInv'
<1>1. /\ life' = [life EXCEPT ![e] = "gone"] /\ retry' = [retry EXCEPT ![e] = {}]
      /\ net' \subseteq net
      /\ oseq' = oseq /\ rseq' = rseq /\ iseq' = iseq /\ aseq' = aseq
      /\ bye' = bye /\ got' = got
  BY DEF Gone, Unheard
<1>2. LinkType'
  <2>1. IsFiniteSet(net') /\ Cardinality(net') <= MaxNet
    BY <1>1, FewerFrames DEF LinkInv, LinkType
  <2> QED
    BY <1>1, <2>1 DEF LinkInv, LinkType, Lives
<1>3. \A d \in Ends : /\ retry'[d] \subseteq retry[d]
                      /\ life'[d] = "up" => life[d] = "up" /\ retry'[d] = retry[d]
  BY <1>1 DEF LinkInv, LinkType
<1>4. \A d \in Ends : Counters(d)' /\ \A g \in retry'[d] : Waiting(d, g)'
  BY <1>1, <1>3 DEF LinkInv, Counters, Waiting, Spare
<1>5. (\A g \in net : InFlight(g))' /\ Delivered'
  BY <1>1 DEF LinkInv, InFlight, Delivered
<1>6. NothingForgotten'
  BY <1>1, <1>3 DEF LinkInv, NothingForgotten
<1> QED
  BY <1>2, <1>4, <1>5, <1>6 DEF LinkInv

(* The frames handed over, and one more. *)
LEMMA AppendNumber ==
  ASSUME NEW k \in Nat
  PROVE  Append([i \in 1 .. k |-> i - 1], k) = [i \in 1 .. k + 1 |-> i - 1]
  OBVIOUS

(* A frame that was received moves the counters of the end by what it      *)
(* acknowledges and by the frame it brings, if that is the next one.       *)
Moves(e) ==
    /\ iseq' \in [Ends -> Nat] /\ iseq'[Peer(e)] = iseq[Peer(e)]
    /\ iseq'[e] \in {iseq[e], iseq[e] + 1} /\ iseq'[e] <= oseq[Peer(e)]
    /\ Delivered'
    /\ aseq' \in [Ends -> Nat] /\ aseq'[Peer(e)] = aseq[Peer(e)]
    /\ aseq'[e] \in {aseq[e], iseq'[e]}
    /\ \E type \in {"ACK", "VNAK"} :
         net' \subseteq net \cup {[to |-> Peer(e), type |-> type, ack |-> iseq'[e]]}
    /\ IsFiniteSet(net') /\ Cardinality(net') <= MaxNet

LEMMA ReceiveMoves ==
  ASSUME LinkInv, NEW e \in Ends, NEW f \in net, Receive(e, f)
  PROVE  Moves(e)
<1>1. /\ LinkType /\ f.to = e /\ iseq[e] \in Nat /\ aseq[e] \in Nat
      /\ Peer(e) \in Ends /\ iseq[e] <= oseq[Peer(e)] /\ oseq[Peer(e)] \in Nat
  BY Peers DEF LinkInv, LinkType, Counters, Receive
<1>2. PICK n \in {net, net \ {f}} : Take(e, f, n) \/ OutOfOrder(e, f, n) \/ Answer(e, f, n)
  BY DEF Receive
<1>3. n \subseteq net /\ IsFiniteSet(n) /\ Cardinality(n) <= MaxNet
  BY <1>1, <1>2, FewerFrames DEF LinkType
<1>4. ASSUME NEW i \in Nat, NEW type \in {"ACK", "VNAK"}, Reply(e, type, i, n)
      PROVE  /\ aseq' = [aseq EXCEPT ![e] = i]
             /\ net' \subseteq net \cup {[to |-> Peer(e), type |-> type, ack |-> i]}
             /\ IsFiniteSet(net') /\ Cardinality(net') <= MaxNet
  BY <1>3, <1>4, SentFrames DEF Reply
<1>5. ASSUME Silent(n)
      PROVE  aseq' = aseq /\ net' \subseteq net /\ IsFiniteSet(net') /\ Cardinality(net') <= MaxNet
  BY <1>3, <1>5 DEF Silent
<1>6. CASE Take(e, f, n)
  <2>1. f.seq = iseq[e] /\ iseq[e] < oseq[Peer(e)]
    BY <1>1, <1>6, NextFrame DEF Take
  <2>2. iseq' = [iseq EXCEPT ![e] = @ + 1] /\ got' = [got EXCEPT ![e] = Append(@, iseq[e])]
    BY <1>6, <2>1 DEF Take
  <2>3. /\ iseq' \in [Ends -> Nat] /\ iseq'[Peer(e)] = iseq[Peer(e)]
        /\ iseq'[e] = iseq[e] + 1 /\ iseq'[e] <= oseq[Peer(e)]
    BY <1>1, <2>1, <2>2, Peers DEF LinkType
  <2>4. Delivered'
    BY <1>1, <2>2, AppendNumber DEF LinkInv, LinkType, Delivered
  <2>5. CASE Reply(e, "ACK", iseq[e] + 1, n)
    <3>1. /\ aseq' = [aseq EXCEPT ![e] = iseq'[e]]
          /\ net' \subseteq net \cup {[to |-> Peer(e), type |-> "ACK", ack |-> iseq'[e]]}
          /\ IsFiniteSet(net') /\ Cardinality(net') <= MaxNet
      BY <1>1, <1>4, <2>3, <2>5
    <3>2. /\ aseq' \in [Ends -> Nat] /\ aseq'[Peer(e)] = aseq[Peer(e)]
          /\ aseq'[e] = iseq'[e]
      BY <1>1, <2>3, <3>1, Peers DEF LinkType
    <3> QED
      BY <2>3, <2>4, <3>1, <3>2 DEF Moves
  <2>6. CASE Silent(n)
    BY <1>1, <1>5, <2>3, <2>4, <2>6 DEF Moves, LinkType
  <2> QED
    BY <1>6, <2>5, <2>6 DEF Take
<1>7. ASSUME iseq' = iseq, got' = got,
             \/ Silent(n)
             \/ \E type \in {"ACK", "VNAK"} : Reply(e, type, iseq[e], n)
      PROVE  Moves(e)
  <2>1. /\ Delivered' /\ iseq' \in [Ends -> Nat]
        /\ iseq'[e] = iseq[e] /\ iseq'[e] <= oseq[Peer(e)]
    BY <1>1, <1>7 DEF LinkType, LinkInv, Delivered
  <2>2. CASE Silent(n)
    BY <1>1, <1>5, <1>7, <2>1, <2>2 DEF Moves, LinkType
  <2>3. ASSUME NEW type \in {"ACK", "VNAK"}, Reply(e, type, iseq[e], n)
        PROVE  Moves(e)
    <3>1. /\ aseq' = [aseq EXCEPT ![e] = iseq[e]]
          /\ net' \subseteq net \cup {[to |-> Peer(e), type |-> type, ack |-> iseq'[e]]}
          /\ IsFiniteSet(net') /\ Cardinality(net') <= MaxNet
      BY <1>1, <1>4, <2>1, <2>3
    <3>2. /\ aseq' \in [Ends -> Nat] /\ aseq'[Peer(e)] = aseq[Peer(e)]
          /\ aseq'[e] = iseq'[e]
      BY <1>1, <2>1, <3>1, Peers DEF LinkType
    <3> QED
      BY <1>7, <2>1, <2>3, <3>1, <3>2 DEF Moves
  <2> QED
    BY <1>7, <2>2, <2>3
<1>8. CASE OutOfOrder(e, f, n)
  BY <1>7, <1>8 DEF OutOfOrder
<1>9. CASE Answer(e, f, n)
  BY <1>7, <1>9 DEF Answer
<1> QED
  BY <1>2, <1>6, <1>8, <1>9

LEMMA ReceiveStep ==
  ASSUME LinkInv, NEW e \in Ends, NEW f \in net, Receive(e, f)
  PROVE  LinkInv'
<1> DEFINE p == Peer(e)
           seen == rseq[e] + Acked(e, f)
<1>1. /\ p \in Ends /\ p # e /\ Peer(p) = e
      /\ \A d \in Ends : d = e \/ d = p
      /\ LinkType /\ f.to = e
  BY Peers DEF LinkInv, Receive
<1>2. seen \in Nat /\ rseq[e] <= seen /\ seen <= iseq[p]
  BY <1>1, AckedValue DEF LinkType
<1>3. Moves(e)
  BY ReceiveMoves
<1>4. /\ rseq' = [rseq EXCEPT ![e] = seen]
      /\ retry' = [retry EXCEPT ![e] = (@ \ Cancelled(e, f))
                     \cup {[q EXCEPT !.tries = -1] : q \in {r \in Cancelled(e, f) : r.final}}]
      /\ oseq' = oseq /\ life' = life /\ bye' = bye
  BY DEF Receive, Acknowledge
<1>5. \A q \in retry[e] : q.tries >= 0 => (q \in Cancelled(e, f) <=> q.seq < seen)
  BY <1>1, CancelledFrames
<1>6. Cancelled(e, f) \subseteq retry[e]
  BY DEF Cancelled
<1> HIDE DEF p, seen
<1>7. ASSUME NEW q \in retry'[e]
      PROVE  \/ /\ q \in retry[e] /\ q \notin Cancelled(e, f)
             \/ \E r \in retry[e] : r.final /\ q = [r EXCEPT !.tries = -1]
  BY <1>1, <1>4, <1>6 DEF LinkType
<1>8. retry'[p] = retry[p] /\ rseq'[p] = rseq[p] /\ rseq'[e] = seen
  BY <1>1, <1>4 DEF LinkType
<1>9. LinkType'
  <2>1. rseq' \in [Ends -> Nat]
    BY <1>1, <1>2, <1>4 DEF LinkType
  <2>2. retry' \in [Ends -> SUBSET Retried]
    <3>1. retry'[e] \subseteq Retried
      <4>1. \A r \in Retried : [r EXCEPT !.tries = -1] \in Retried
        BY BoundsAssumption DEF Retried
      <4> QED
        BY <1>1, <1>7, <4>1 DEF LinkType
    <3> QED
      BY <1>1, <1>4, <3>1 DEF LinkType
  <2>3. net' \subseteq NetFrames
    BY <1>1, <1>3 DEF LinkType, Moves, NetFrames, p
  <2> QED
    BY <1>1, <1>3, <1>4, <2>1, <2>2, <2>3 DEF LinkType, Moves
<1>10. /\ iseq[e] \in Nat /\ iseq[p] \in Nat /\ iseq'[e] \in Nat /\ iseq'[p] = iseq[p]
       /\ iseq[e] <= iseq'[e] /\ iseq'[e] <= oseq[p]
       /\ oseq[e] \in Nat /\ oseq[p] \in Nat /\ rseq[e] \in Nat /\ rseq[p] \in Nat
  BY <1>1, <1>3 DEF LinkType, Moves, p
<1>11. ASSUME NEW d \in Ends PROVE Counters(d)'
  <2>1. CASE d = e
    <3>1. aseq'[e] <= iseq'[e]
      BY <1>1, <1>3, <1>10 DEF LinkInv, LinkType, Counters, Moves
    <3>2. oseq[e] + Spare(e) - seen < M
      BY <1>1, <1>2, <1>10, BoundsAssumption DEF LinkInv, LinkType, Counters, Spare
    <3> QED
      BY <1>1, <1>2, <1>4, <1>8, <1>10, <2>1, <3>1, <3>2 DEF LinkInv, Counters, Spare, p
  <2>2. CASE d = p
    <3>1. aseq'[p] = aseq[p]
      BY <1>3 DEF Moves, p
    <3> QED
      BY <1>1, <1>4, <1>8, <1>10, <2>2, <3>1 DEF LinkInv, Counters, Spare
  <2> QED
    BY <1>1, <2>1, <2>2
<1>12. ASSUME NEW d \in Ends, NEW q \in retry'[d] PROVE Waiting(d, q)'
  <2>1. CASE d = e
    <3>1. CASE q \in retry[e] /\ q \notin Cancelled(e, f)
      <4>1. Waiting(e, q) /\ q.seq \in Nat /\ q.ack \in Nat
        BY <1>1, <3>1 DEF LinkInv, LinkType, Retried
      <4>2. q.tries >= 0 => seen <= q.seq
        BY <1>2, <1>5, <3>1, <4>1
      <4> QED
        BY <1>1, <1>4, <1>8, <1>10, <2>1, <4>1, <4>2 DEF Waiting, Spare, p
    <3>2. ASSUME NEW r \in retry[e], r.final, q = [r EXCEPT !.tries = -1]
          PROVE  Waiting(d, q)'
      <4>1. Waiting(e, r) /\ r \in Retried
        BY <1>1 DEF LinkInv, LinkType
      <4>2. q.seq = r.seq /\ q.ack = r.ack /\ q.final = r.final /\ q.tries = -1
            /\ r.seq \in Nat /\ r.ack \in Nat
        BY <3>2, <4>1 DEF Retried
      <4> QED
        BY <1>1, <1>4, <1>10, <2>1, <3>2, <4>1, <4>2 DEF Waiting, Spare, p
    <3> QED
      BY <1>7, <2>1, <3>1, <3>2
  <2>2. CASE d = p
    BY <1>1, <1>4, <1>8, <1>10, <2>2 DEF LinkInv, Waiting, Spare
  <2> QED
    BY <1>1, <2>1, <2>2
<1>13. ASSUME NEW g \in net' PROVE InFlight(g)'
  <2>1. CASE g \in net
    <3>1. g.to \in Ends /\ g.ack \in Nat /\ InFlight(g)
      BY <1>1, <2>1 DEF LinkInv, LinkType, NetFrames
    <3>2. \A d \in Ends : iseq[d] \in Nat /\ iseq'[d] \in Nat /\ iseq[d] <= iseq'[d]
      BY <1>1, <1>10
    <3>3. g.ack <= iseq'[Peer(g.to)]
      BY <1>1, <3>1, <3>2, Peers DEF InFlight
    <3> QED
      BY <1>4, <3>1, <3>3 DEF InFlight
  <2>2. ASSUME NEW type \in {"ACK", "VNAK"}, g = [to |-> p, type |-> type, ack |-> iseq'[e]]
        PROVE  InFlight(g)'
    <3>1. oseq[p] - iseq'[e] < M
      BY <1>1, <1>10, BoundsAssumption DEF LinkInv, Counters, Spare
    <3> QED
      BY <1>1, <1>4, <2>2, <3>1, <1>10 DEF InFlight
  <2> QED
    BY <1>3, <2>1, <2>2 DEF Moves, p
<1>14. Delivered'
  BY <1>3 DEF Moves
<1>15. NothingForgotten'
  <2> SUFFICES ASSUME NEW d \in Ends, life'[d] = "up"
               PROVE  {q.seq : q \in retry'[d]} = rseq'[d] .. oseq'[d] - 1
    BY DEF NothingForgotten
  <2>1. CASE d = e
    <3>1. \A q \in retry[e] : ~q.final /\ q.tries >= 0 /\ q.seq \in Nat
      BY <1>1, <1>4, <2>1 DEF LinkInv, LinkType, Retried, Waiting
    <3>2. retry'[e] = {q \in retry[e] : seen <= q.seq}
      <4>1. retry'[e] = retry[e] \ Cancelled(e, f)
        BY <1>1, <1>4, <1>6, <3>1 DEF LinkType
      <4> QED
        BY <1>2, <1>5, <3>1, <4>1
    <3>3. {q.seq : q \in retry[e]} = rseq[e] .. oseq[e] - 1
      BY <1>1, <1>4, <2>1 DEF LinkInv, NothingForgotten
    <3>4. {q.seq : q \in retry'[e]} = {i \in rseq[e] .. oseq[e] - 1 : seen <= i}
      BY <3>2, <3>3
    <3>5. {i \in rseq[e] .. oseq[e] - 1 : seen <= i} = seen .. oseq[e] - 1
      BY <1>2, <1>10
    <3> QED
      BY <1>4, <1>8, <2>1, <3>4, <3>5
  <2>2. CASE d = p
    BY <1>1, <1>4, <1>8, <2>2 DEF LinkInv, NothingForgotten
  <2> QED
    BY <1>1, <2>1, <2>2
<1> QED
  BY <1>9, <1>11, <1>12, <1>13, <1>14, <1>15 DEF LinkInv
-----------------------------------------------------------------------------
(* Every step keeps the invariant. *)
THEOREM LinkNext == LinkInv /\ [Next]_vars => LinkInv'
<1> SUFFICES ASSUME LinkInv, [Next]_vars PROVE LinkInv'
  OBVIOUS
<1>1. ASSUME NEW e \in Ends, Send(e) PROVE LinkInv'
  BY <1>1, SendStep
<1>2. ASSUME NEW e \in Ends, Close(e) PROVE LinkInv'
  BY <1>2, FinalStep DEF Close
<1>3. ASSUME NEW e \in Ends, NEW f \in retry[e], Resend(e, f) PROVE LinkInv'
  BY <1>3, ResendStep
<1>4. ASSUME NEW e \in Ends, NEW f \in retry[e], Spent(e, f) PROVE LinkInv'
  <2>1. CASE life[e] = "up" /\ Final(e, retry[e] \ {f})
    BY <2>1, FinalStep
  <2>2. CASE /\ life[e] = "final"
             /\ retry' = [retry EXCEPT ![e] = @ \ {f}]
             /\ UNCHANGED <<oseq, rseq, iseq, aseq, life, bye, got, net>>
    BY <2>2, DroppedStep
  <2> QED
    BY <1>4, <2>1, <2>2 DEF Spent
<1>5. ASSUME NEW e \in Ends, NEW f \in retry[e], FinalDone(e, f) PROVE LinkInv'
  BY <1>5, GoneStep DEF FinalDone
<1>6. ASSUME NEW e \in Ends, Hear(e) PROVE LinkInv'
  BY <1>6, GoneStep DEF Hear
<1>7. ASSUME NEW e \in Ends, NEW f \in net, Receive(e, f) PROVE LinkInv'
  BY <1>7, ReceiveStep
<1>8. CASE UNCHANGED vars
  BY <1>8 DEF vars, ends, LinkInv, LinkType, Counters, Waiting, InFlight, Spare,
              Delivered, NothingForgotten
<1> QED
  BY <1>1, <1>2, <1>3, <1>4, <1>5, <1>6, <1>7, <1>8 DEF Next, Timer

(* The invariant holds in every state of every run. *)
THEOREM LinkAlways == Spec => []LinkInv
  BY LinkInit, LinkNext, PTL DEF Spec

(* What an end hands over are its peer's frames, in order and once each:   *)
(* iax_header_to_event's tests on one byte tell them apart.                *)
THEOREM InOrderAlways == Spec => []InOrder
<1>1. LinkInv => InOrder
  BY DEF LinkInv, Delivered, InOrder
<1> QED
  BY <1>1, LinkAlways, PTL

(* No end takes a frame for acknowledged that its peer has not taken: the  *)
(* window test of iax_header_to_event believes no stale iseqno.            *)
THEOREM AckSoundAlways == Spec => []AckSound
<1>1. LinkInv => AckSound
  BY DEF LinkInv, Counters, AckSound
<1> QED
  BY <1>1, LinkAlways, PTL

(* While the call is up, schedq holds the frames not acknowledged and no   *)
(* others.                                                                 *)
THEOREM NothingForgottenAlways == Spec => []NothingForgotten
<1>1. LinkInv => NothingForgotten
  BY DEF LinkInv
<1> QED
  BY <1>1, LinkAlways, PTL

(* The numbers stay in the range that TLC's run gives them.                *)
LEMMA InRange ==
  ASSUME NEW e \in Ends
  PROVE  0 .. MaxSent[e] + 2 \subseteq Numbers
  BY DEF Numbers

LEMMA LinkTypeOK == LinkInv => TypeOK
<1> SUFFICES ASSUME LinkInv PROVE TypeOK
  OBVIOUS
<1>1. LinkType
  BY DEF LinkInv
<1>2. \A e \in Ends : /\ oseq[e] \in 0 .. MaxSent[e] + 2
                      /\ iseq[Peer(e)] \in 0 .. MaxSent[e] + 2
                      /\ rseq[e] \in 0 .. MaxSent[e] + 2
                      /\ aseq[Peer(e)] \in 0 .. MaxSent[e] + 2
  BY <1>1, BoundsAssumption, Peers DEF LinkInv, LinkType, Counters, Spare
<1>3. \A e \in Ends : {oseq[e], rseq[e], iseq[e], aseq[e]} \subseteq Numbers
  BY <1>2, InRange, Peers
<1>4. {oseq, rseq, iseq, aseq} \subseteq [Ends -> Numbers]
  BY <1>1, <1>3 DEF LinkType
<1>5. \A e \in Ends, i \in Nat : i <= oseq[e] => i \in Numbers
  BY <1>1, <1>2, InRange, BoundsAssumption DEF LinkType
<1>6. \A e \in Ends, i \in Nat : i <= iseq[e] => i \in Numbers
  BY <1>1, <1>2, InRange, Peers, BoundsAssumption DEF LinkType
<1>7. retry \in [Ends -> SUBSET Pending]
  <2>1. ASSUME NEW e \in Ends, NEW f \in retry[e] PROVE f \in Pending
    <3>1. f \in Retried /\ f.seq < oseq[e] /\ f.ack <= iseq[e]
      BY <1>1 DEF LinkInv, LinkType, Waiting
    <3>2. f.seq \in Numbers /\ f.ack \in Numbers
      BY <1>1, <1>5, <1>6, <3>1 DEF Retried, LinkType
    <3> QED
      BY <3>1, <3>2 DEF Retried, Pending
  <2> QED
    BY <1>1, <2>1 DEF LinkType
<1>8. net \subseteq Frames
  <2>1. ASSUME NEW f \in net PROVE f \in Frames
    <3>1. /\ f \in NetFrames /\ f.to \in Ends /\ f.ack \in Nat
          /\ f.ack <= iseq[Peer(f.to)]
          /\ f.type = "DATA" => f.seq \in Nat /\ f.seq < oseq[Peer(f.to)]
      BY <1>1 DEF LinkInv, LinkType, InFlight, NetFrames
    <3>2. f.ack \in Numbers /\ (f.type = "DATA" => f.seq \in Numbers)
      BY <1>1, <1>5, <1>6, <3>1, Peers DEF LinkType
    <3> QED
      BY <3>1, <3>2 DEF NetFrames, Frames
  <2> QED
    BY <2>1
<1>9. bye \in [Ends -> Numbers \cup {NoFinal}]
  <2>1. ASSUME NEW e \in Ends, bye[e] # NoFinal PROVE bye[e] \in Numbers
    <3>1. bye[e] \in Nat /\ bye[e] < oseq[e] /\ oseq[e] \in Nat
      BY <1>1, <2>1 DEF LinkInv, LinkType, Counters
    <3> QED
      BY <1>5, <3>1
  <2> QED
    BY <1>1, <2>1 DEF LinkType
<1> QED
  BY <1>1, <1>4, <1>7, <1>8, <1>9 DEF LinkInv, LinkType, Delivered, TypeOK

(* Types, and numbers and frames within their bounds. *)
THEOREM LinkTypeCorrect == Spec => []TypeOK
  BY LinkTypeOK, LinkAlways, PTL
-----------------------------------------------------------------------------
(* The transport implements the queue of ReliableFifo.                     *)

THEOREM FifoStart == Init => Fifo!FifoInit
  BY DEF Init, Fifo!FifoInit

(* Numbering a frame sends it, a final frame leaves as well when it could  *)
(* be sent; taking the next one delivers it; the rest is hidden.           *)
THEOREM FifoStep == LinkInv /\ [Next]_vars => [Fifo!FifoNext]_Fifo!fifoVars
<1> SUFFICES ASSUME LinkInv, [Next]_vars PROVE [Fifo!FifoNext]_Fifo!fifoVars
  OBVIOUS
<1> DEFINE open == [e \in Ends |-> life[e] # "gone"]
<1>1. LinkType
  BY DEF LinkInv
<1>2. ASSUME NEW e \in Ends, Send(e) PROVE Fifo!Send(e)
  BY <1>1, <1>2 DEF Send, Number, Fifo!Send
<1>3. ASSUME NEW e \in Ends, NEW fs, life[e] = "up", Final(e, fs)
      PROVE  Fifo!Send(e) \/ Fifo!Leave(e)
  <2>1. oseq' = [oseq EXCEPT ![e] = @ + 1] /\ got' = got
    BY <1>3 DEF Final, Number
  <2>2. CASE life' = [life EXCEPT ![e] = "gone"]
    <3>1. open' = [open EXCEPT ![e] = FALSE]
      BY <1>1, <2>2 DEF LinkType
    <3> QED
      BY <1>3, <2>1, <3>1 DEF Fifo!Leave
  <2>3. CASE life' = [life EXCEPT ![e] = "final"]
    <3>1. open' = open
      BY <1>1, <1>3, <2>3 DEF LinkType
    <3> QED
      BY <1>3, <2>1, <3>1 DEF Fifo!Send
  <2> QED
    BY <1>3, <2>2, <2>3 DEF Final
<1>4. ASSUME NEW e \in Ends, Gone(e)
      PROVE  Fifo!Leave(e) \/ UNCHANGED Fifo!fifoVars
  <2>1. oseq' = oseq /\ got' = got /\ life' = [life EXCEPT ![e] = "gone"]
    BY <1>4 DEF Gone
  <2>2. open' = [open EXCEPT ![e] = FALSE]
    BY <1>1, <2>1 DEF LinkType
  <2>3. CASE life[e] = "gone"
    <3>1. open' = open
      BY <1>1, <2>1, <2>3 DEF LinkType
    <3> QED
      BY <2>1, <3>1 DEF Fifo!fifoVars
  <2>4. CASE life[e] # "gone"
    BY <2>1, <2>2, <2>4 DEF Fifo!Leave
  <2> QED
    BY <2>3, <2>4
<1>5. ASSUME NEW e \in Ends, NEW f \in net, Receive(e, f)
      PROVE  Fifo!Deliver(e) \/ UNCHANGED Fifo!fifoVars
  <2>1. oseq' = oseq /\ life' = life /\ life[e] # "gone" /\ f.to = e
    BY <1>5 DEF Receive
  <2>2. CASE got' = got
    BY <2>1, <2>2 DEF Fifo!fifoVars
  <2>3. CASE f.type = "DATA" /\ InSequence(e, f) /\ got' = [got EXCEPT ![e] = Append(@, f.seq)]
    <3>1. f.seq = iseq[e] /\ iseq[e] < oseq[Peer(e)]
      BY <2>1, <2>3, NextFrame
    <3>2. Len(got[e]) = iseq[e]
      BY <1>1 DEF LinkInv, LinkType, Delivered
    <3> QED
      BY <2>1, <2>3, <3>1, <3>2 DEF Fifo!Deliver
  <2> QED
    BY <1>5, <2>2, <2>3 DEF Receive, Take, OutOfOrder, Answer
<1>6. ASSUME NEW e \in Ends, NEW f \in retry[e], Resend(e, f) \/ Spent(e, f) \/ FinalDone(e, f)
      PROVE  [Fifo!FifoNext]_Fifo!fifoVars
  <2>1. CASE Resend(e, f)
    BY <2>1 DEF Resend, Fifo!fifoVars
  <2>2. CASE Spent(e, f)
    BY <1>3, <2>2 DEF Spent, Fifo!fifoVars, Fifo!FifoNext
  <2>3. CASE FinalDone(e, f)
    BY <1>4, <2>3 DEF FinalDone, Fifo!FifoNext
  <2> QED
    BY <1>6, <2>1, <2>2, <2>3
<1>7. CASE UNCHANGED vars
  BY <1>7 DEF vars, ends, Fifo!fifoVars
<1> QED
  BY <1>2, <1>3, <1>4, <1>5, <1>6, <1>7 DEF Next, Timer, Close, Hear, Fifo!FifoNext

(* iax.c's full frames are a queue in each direction, whatever the network *)
(* loses, repeats or overtakes.                                            *)
THEOREM LinkImplementsFifo == Spec => FifoSafety
  BY FifoStart, FifoStep, LinkAlways, PTL DEF Spec, FifoSafety, Fifo!FifoSafety
=============================================================================
