---------------------------- MODULE MiniFrames ----------------------------
(***************************************************************************)
(* The times of voice frames.  A mini frame carries the low 16 bits of its *)
(* timestamp; the receiver takes the others from the newest one it knows,  *)
(* last_ts, and corrects the result where the low bits have wrapped around *)
(* in between (iax.c).  JitterBuf files frames by the sender's time: the   *)
(* theorems say when that is what comes out here.                          *)
(***************************************************************************)
EXTENDS Integers

CONSTANTS WRAP,     \* 16#10000: what the low bits count up to
          BIG       \* 50000: a jump that is taken for a wrap

ASSUME WrapAssumption == /\ WRAP \in Nat \ {0} /\ BIG \in Nat
                         /\ BIG < WRAP /\ WRAP <= 2 * BIG

(* ts & 0xFFFF0000 and ts & 0xFFFF. *)
High(ts) == ts - (ts % WRAP)
Low(ts)  == ts % WRAP

(* iax_send: voice of the format sent last goes in a mini frame, unless    *)
(* the high bits have changed since the last frame.                        *)
SendsMini(ts, lastsent) == High(ts) = High(lastsent)

(* iax_miniheader_to_event. *)
Completed(low, last_ts) == High(last_ts) + low

unwrap_timestamp(ts, last) ==
    IF High(ts) # High(last) THEN ts
    ELSE IF ts - last < -BIG THEN High(last) + WRAP + Low(ts)
    ELSE IF ts - last > BIG  THEN High(last) - WRAP + Low(ts)
    ELSE ts

(* What a mini frame's time is taken for, and schedule_delivery's last_ts. *)
Filed(low, last_ts) == unwrap_timestamp(Completed(low, last_ts), last_ts)
Newer(ts, last_ts)  == IF ts > last_ts THEN ts ELSE last_ts
=============================================================================
