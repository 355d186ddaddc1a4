------------------------------ MODULE IaxLink ------------------------------
(***************************************************************************)
(* The reliable transport of libiax2 (iax.c): the full frames of one       *)
(* session between its two ends, over a network that loses, duplicates and *)
(* reorders them.  Both ends run iax.c and both have the session, their    *)
(* sequence numbers at zero, as after the NEW or a transfer.               *)
(*                                                                         *)
(* The sequence numbers are one byte in the code.  Here they are counted   *)
(* without wrapping, so that the properties can speak of frames, and every *)
(* decision of the code is taken on their values modulo M.                 *)
(***************************************************************************)
EXTENDS Integers, Sequences, FiniteSets

CONSTANTS Ends,         \* the two ends
          M,            \* how many sequence numbers there are (256)
          MaxRetries,   \* maxretries (10)
          MaxSent,      \* bound on the frames each end numbers, but its last
          MaxNet        \* bound on the frames in flight

ASSUME EndsAssumption == \E x, y \in Ends : x # y /\ Ends = {x, y}
ASSUME BoundsAssumption == /\ M \in Nat \ {0, 1}
                           /\ MaxRetries \in Nat /\ MaxNet \in Nat
                           /\ MaxSent \in [Ends -> Nat]

Peer(e) == CHOOSE p \in Ends : p # e

VARIABLES
    oseq,   \* oseqno: how many frames the end has numbered
    rseq,   \* rseqno: how many of them it knows the peer has received
    iseq,   \* iseqno: how many frames of the peer it has taken
    aseq,   \* aseqno: the iseqno it has last told the peer
    retry,  \* the end's frames on schedq: what was sent, and the tries left
    life,   \* the session object of the end (see Lives)
    bye,    \* the number of its final frame (HANGUP, REJECT), or NoFinal
    got,    \* history: the frames the end has handed to its application
    net     \* the frames in flight

ends == <<oseq, rseq, iseq, aseq, retry, life, bye, got>>
vars == <<ends, net>>

(* up: the application has the call.  final: it hung up, but the frame     *)
(* that says so could not be sent, and the session waits for its retries.  *)
(* gone: destroyed.                                                        *)
Lives == {"up", "final", "gone"}

NoFinal == -1
Numbers == UNION {0 .. MaxSent[e] + 2 : e \in Ends}
Frames == [to: Ends, type: {"DATA"}, seq: Numbers, ack: Numbers]
          \cup [to: Ends, type: {"ACK", "VNAK"}, ack: Numbers]
Pending == [seq: Numbers, ack: Numbers, tries: -1 .. MaxRetries, final: BOOLEAN]

TypeOK ==
    /\ {oseq, rseq, iseq, aseq} \subseteq [Ends -> Numbers]
    /\ retry \in [Ends -> SUBSET Pending]
    /\ life \in [Ends -> Lives]
    /\ bye \in [Ends -> Numbers \cup {NoFinal}]
    /\ DOMAIN got = Ends
    /\ net \subseteq Frames /\ Cardinality(net) <= MaxNet

Init ==
    /\ oseq = [e \in Ends |-> 0]
    /\ rseq = oseq /\ iseq = oseq /\ aseq = oseq
    /\ retry = [e \in Ends |-> {}]
    /\ life = [e \in Ends |-> "up"]
    /\ bye = [e \in Ends |-> NoFinal]
    /\ got = [e \in Ends |-> <<>>]
    /\ net = {}
-----------------------------------------------------------------------------
(* The network.  A frame sent may be lost at once, or be received as often *)
(* as one likes until it leaves the network.                               *)
Sent(n, f) == {n} \cup {x \in {n \cup {f}} : Cardinality(x) <= MaxNet}

Data(e, seq, ack) == [to |-> Peer(e), type |-> "DATA", seq |-> seq, ack |-> ack]

(* Numbers that wrap can only be told apart while frames do not outlive M  *)
(* later ones.  iax.c takes it for granted; here a frame in flight that    *)
(* would be that old when e numbers its next frame is lost, and e does not *)
(* number one while a frame still being retried would become that old, nor *)
(* with M - 2 unacknowledged: one number is kept for the final frame.      *)
Young(e, f) == IF f.to = e THEN oseq[e] + 1 - f.ack < M
               ELSE f.type = "DATA" => oseq[e] + 1 - f.seq < M
YoungNet(e) == {f \in net : Young(e, f)}
MayNumber(e) ==
    /\ oseq[e] + 2 - rseq[e] < M
    /\ \A f \in retry[Peer(e)] : oseq[e] + 2 - f.ack < M

(* One frame more is allowed to an end whose peer is gone. *)
Room(e) == oseq[e] < MaxSent[e] + (IF life[Peer(e)] = "gone" THEN 1 ELSE 0)

(* A frame for a session that is gone is dropped.                          *)
Unheard(e, n) == {f \in n : f.to # e}
-----------------------------------------------------------------------------
(* iax_send of a full frame: numbered, with the iseqno of the moment.      *)
Number(e) ==
    /\ oseq' = [oseq EXCEPT ![e] = @ + 1]
    /\ aseq' = [aseq EXCEPT ![e] = iseq[e]]
    /\ UNCHANGED <<rseq, iseq, got>>
Scheduled(e, final) == [seq |-> oseq[e], ack |-> iseq[e],
                        tries |-> MaxRetries, final |-> final]

(* Mutant: send_ping does not ask whether the session still exists. *)
Send_gone(e) ==
    /\ Room(e) /\ MayNumber(e)
    /\ Number(e)
    /\ retry' = [retry EXCEPT ![e] = @ \cup {Scheduled(e, FALSE)}]
    /\ net' \in Sent(YoungNet(e), Data(e, oseq[e], iseq[e]))
    /\ UNCHANGED <<life, bye>>

(* A command of the application, a voice frame with a full header, or the  *)
(* session's ping, which a rejected call still sends.                      *)
Send(e) ==
    /\ life[e] # "gone"
    /\ Room(e) /\ MayNumber(e)
    /\ Number(e)
    /\ retry' = [retry EXCEPT ![e] = @ \cup {Scheduled(e, FALSE)}]
    /\ net' \in Sent(YoungNet(e), Data(e, oseq[e], iseq[e]))
    /\ UNCHANGED <<life, bye>>

(* send_command_final, schedq holding the frames fs of e: once the frame   *)
(* is sent the session is destroyed, and nothing is retried.               *)
Final(e, fs) ==
    /\ Number(e)
    /\ bye' = [bye EXCEPT ![e] = oseq[e]]
    /\ \/ /\ life' = [life EXCEPT ![e] = "gone"]
          /\ retry' = [retry EXCEPT ![e] = {}]
          /\ net' \in Sent(Unheard(e, YoungNet(e)), Data(e, oseq[e], iseq[e]))
       \/ /\ life' = [life EXCEPT ![e] = "final"]
          /\ retry' = [retry EXCEPT ![e] = fs \cup {Scheduled(e, TRUE)}]
          /\ net' = YoungNet(e)

(* iax_hangup, iax_reject. *)
Close(e) ==
    /\ life[e] = "up"
    /\ MayNumber(e)
    /\ Final(e, retry[e])
-----------------------------------------------------------------------------
(* Mutant: the retries left are not tested. *)
Resend_untested(e, f) ==
    /\ retry' = [retry EXCEPT ![e] = (@ \ {f}) \cup {[f EXCEPT !.tries = @ - 1]}]
    /\ net' \in Sent(net, Data(e, f.seq, f.ack))
    /\ UNCHANGED <<oseq, rseq, iseq, aseq, life, bye, got>>

(* Mutant: the retries left are not counted down. *)
Resend_forever(e, f) ==
    /\ f.tries > 0
    /\ net' \in Sent(net, Data(e, f.seq, f.ack))
    /\ UNCHANGED <<oseq, rseq, iseq, aseq, retry, life, bye, got>>

(* iax_get_event: the frames of schedq whose time has come.                *)
Resend(e, f) ==
    /\ f.tries > 0
    /\ retry' = [retry EXCEPT ![e] = (@ \ {f}) \cup {[f EXCEPT !.tries = @ - 1]}]
    /\ net' \in Sent(net, Data(e, f.seq, f.ack))
    /\ UNCHANGED <<oseq, rseq, iseq, aseq, life, bye, got>>

(* Mutant: the frame is given up without a TIMEOUT. *)
Spent_silent(e, f) ==
    /\ f.tries = 0 /\ ~f.final
    /\ retry' = [retry EXCEPT ![e] = @ \ {f}]
    /\ UNCHANGED <<oseq, rseq, iseq, aseq, life, bye, got, net>>

(* The retries are spent: TIMEOUT goes to the application, which hangs up, *)
(* unless it has done so before.                                           *)
Spent(e, f) ==
    /\ f.tries = 0 /\ ~f.final
    /\ \/ /\ life[e] = "up"
          /\ Final(e, retry[e] \ {f})
       \/ /\ life[e] = "final"
          /\ retry' = [retry EXCEPT ![e] = @ \ {f}]
          /\ UNCHANGED <<oseq, rseq, iseq, aseq, life, bye, got, net>>

(* destroy_session. *)
Gone(e) ==
    /\ life' = [life EXCEPT ![e] = "gone"]
    /\ retry' = [retry EXCEPT ![e] = {}]
    /\ net' = Unheard(e, net)
    /\ UNCHANGED <<oseq, rseq, iseq, aseq, bye, got>>

(* A final frame that was acknowledged, or whose retries are spent. *)
FinalDone(e, f) ==
    /\ f.final /\ f.tries <= 0
    /\ Gone(e)

Timer(e) == \E f \in retry[e] : Resend(e, f) \/ Spent(e, f) \/ FinalDone(e, f)
-----------------------------------------------------------------------------
(* iax_header_to_event.                                                    *)
Ahead(a, b) == (b - a) % M

(* Mutant: an iseqno is believed without asking whether it is in the window. *)
InWindow_any(e, f) == TRUE

(* The frame's iseqno acknowledges everything before it, provided that it  *)
(* is in the window.                                                       *)
InWindow(e, f) == Ahead(rseq[e], f.ack) <= Ahead(rseq[e], oseq[e])
Acked(e, f) == IF InWindow(e, f) THEN Ahead(rseq[e], f.ack) ELSE 0
(* Mutant: the loop over the numbers goes one too far. *)
Cancelled_oneMore(e, f) ==
    {p \in retry[e] : Acked(e, f) > 0 /\ Ahead(rseq[e], p.seq) <= Acked(e, f)}

Cancelled(e, f) == {p \in retry[e] : Ahead(rseq[e], p.seq) < Acked(e, f)}

(* What is cancelled is not sent again; the session is destroyed when a    *)
(* final frame that is cancelled comes up on schedq.                       *)
Acknowledge(e, f) ==
    /\ rseq' = [rseq EXCEPT ![e] = @ + Acked(e, f)]
    /\ retry' = [retry EXCEPT ![e] = (@ \ Cancelled(e, f))
                   \cup {[p EXCEPT !.tries = -1] : p \in {q \in Cancelled(e, f) : q.final}}]

(* Mutant: only what was seen before is refused. *)
InSequence_notSeen(e, f) == f.seq % M >= iseq[e] % M

InSequence(e, f) == f.seq % M = iseq[e] % M

(* send_command_immediate: sent once, the number i told to the peer. *)
Reply(e, type, i, n) ==
    /\ aseq' = [aseq EXCEPT ![e] = i]
    /\ net' \in Sent(n, [to |-> Peer(e), type |-> type, ack |-> i])
Silent(n) == net' = n /\ UNCHANGED aseq

(* The next frame of the peer.  It is handed over and acknowledged; a      *)
(* frame of a kind iax.c does not know is not acknowledged.                *)
Take(e, f, n) ==
    /\ f.type = "DATA" /\ InSequence(e, f)
    /\ iseq' = [iseq EXCEPT ![e] = @ + 1]
    /\ got' = [got EXCEPT ![e] = Append(@, f.seq)]
    /\ \/ aseq[e] % M # (iseq[e] + 1) % M /\ Reply(e, "ACK", iseq[e] + 1, n)
       \/ Silent(n)

(* A frame taken before, by its number, or one that has overtaken others.  *)
OutOfOrder(e, f, n) ==
    /\ f.type = "DATA" /\ ~InSequence(e, f)
    /\ Reply(e, IF iseq[e] % M > f.seq % M THEN "ACK" ELSE "VNAK", iseq[e], n)
    /\ UNCHANGED <<iseq, got>>

(* An ACK or a VNAK says nothing but its iseqno. *)
Answer(e, f, n) ==
    /\ f.type # "DATA"
    /\ IF aseq[e] % M # iseq[e] % M THEN Reply(e, "ACK", iseq[e], n) ELSE Silent(n)
    /\ UNCHANGED <<iseq, got>>

Receive(e, f) ==
    /\ f.to = e /\ life[e] # "gone"
    /\ Acknowledge(e, f)
    /\ \E n \in {net, net \ {f}} : Take(e, f, n) \/ OutOfOrder(e, f, n) \/ Answer(e, f, n)
    /\ UNCHANGED <<oseq, life, bye>>

(* The peer's final frame comes out of the jitter buffer: the session is   *)
(* destroyed.                                                              *)
Hear(e) ==
    /\ life[e] # "gone"
    /\ \E i \in DOMAIN got[e] : got[e][i] = bye[Peer(e)]
    /\ Gone(e)
-----------------------------------------------------------------------------
Next == \E e \in Ends : \/ Send(e) \/ Close(e) \/ Timer(e) \/ Hear(e)
                         \/ \E f \in net : Receive(e, f)

(* The processing thread comes round every few milliseconds and empties    *)
(* schedq of what is due: a call that is up sends its pings, timers fire,  *)
(* and the events come out of the jitter buffer.  The network promises     *)
(* nothing.                                                                *)
Fairness == \A e \in Ends : /\ WF_vars(Timer(e))
                            /\ WF_vars(life[e] = "up" /\ Send(e))
                            /\ WF_vars(Hear(e))

Spec == Init /\ [][Next]_vars
FairSpec == Spec /\ Fairness
-----------------------------------------------------------------------------
(* What an end hands to its application are the frames of its peer, each   *)
(* once and in the order they were numbered, however the network mixes     *)
(* old, retried and acknowledging frames, and across the wrap at M.        *)
InOrder == \A e \in Ends : got[e] = [i \in 1 .. iseq[e] |-> i - 1]

(* An end takes a frame for acknowledged only if the peer has taken it.    *)
AckSound == \A e \in Ends : rseq[e] <= iseq[Peer(e)]

(* A frame that is not acknowledged is still on schedq, so that it is      *)
(* retried or its loss is reported; a frame acknowledged is not.           *)
NothingForgotten ==
    \A e \in Ends : life[e] = "up" =>
        {f.seq : f \in retry[e]} = rseq[e] .. oseq[e] - 1

(* No call stays half open: when one end is gone the other one goes too,   *)
(* even if the HANGUP, which is never sent twice, is lost.                 *)
NotHalfOpen ==
    \A e \in Ends : life[e] = "gone" ~> life[Peer(e)] = "gone"

Fifo == INSTANCE ReliableFifo WITH
            sent <- oseq, delivered <- got, open <- [e \in Ends |-> life[e] # "gone"]
(* The transport implements the queue it stands for: it delivers in order  *)
(* and once (safety), and everything while both ends stay (liveness).      *)
FifoSafety == Fifo!FifoSafety
FifoLiveness == \A e \in Ends : \A k \in 0 .. MaxSent[Peer(e)] : Fifo!HandedOver(e, k)
=============================================================================
