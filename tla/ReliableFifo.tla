---------------------------- MODULE ReliableFifo ----------------------------
(***************************************************************************)
(* What the two ends of a call may expect of libiax2's full frames: each   *)
(* end is handed the frames of the other once each and in order, whatever  *)
(* the network does; and while both ends keep the session, every frame is  *)
(* handed over in the end.  A frame is named by its place in the sequence. *)
(***************************************************************************)
EXTENDS Integers, Sequences

CONSTANTS Ends,         \* the two ends of the session
          Peer(_)       \* the other end

VARIABLES sent,         \* how many frames each end has numbered
          delivered,    \* the frames handed over to each end
          open          \* whether each end still has the session

fifoVars == <<sent, delivered, open>>

FifoInit ==
    /\ sent = [e \in Ends |-> 0]
    /\ delivered = [e \in Ends |-> <<>>]
    /\ open = [e \in Ends |-> TRUE]

Send(e) ==
    /\ open[e]
    /\ sent' = [sent EXCEPT ![e] = @ + 1]
    /\ UNCHANGED <<delivered, open>>

Deliver(e) ==
    /\ open[e]
    /\ Len(delivered[e]) < sent[Peer(e)]
    /\ delivered' = [delivered EXCEPT ![e] = Append(@, Len(@))]
    /\ UNCHANGED <<sent, open>>

(* An end leaves; its last frame, if it sends one, is not sure to arrive.  *)
Leave(e) ==
    /\ open[e]
    /\ open' = [open EXCEPT ![e] = FALSE]
    /\ sent' \in {sent, [sent EXCEPT ![e] = @ + 1]}
    /\ UNCHANGED delivered

FifoNext == \E e \in Ends : Send(e) \/ Deliver(e) \/ Leave(e)

(* A frame sent is handed over, or one of the ends leaves.                 *)
HandedOver(e, k) ==
    sent[Peer(e)] > k ~> Len(delivered[e]) > k \/ ~open[e] \/ ~open[Peer(e)]

FifoSafety == FifoInit /\ [][FifoNext]_fifoVars
=============================================================================
