------------------------------- MODULE Slots -------------------------------
(***************************************************************************)
(* The slot arithmetic of the DPoS engine (consensus/dpos/dpos.go,         *)
(* PrevSlot and NextSlot), which checkDeadline and Seal use to find the    *)
(* slot a node may mint in, next to the scheduler's definitions of spec    *)
(* 4.C.  Times are Unix seconds (int64) and the block interval a positive  *)
(* uint64; Go's integer division truncates toward zero, which is what      *)
(* GoQuo models.  Overflow of now + blockInterval - 1 would need times     *)
(* near 2^63 and is not modelled.                                          *)
(***************************************************************************)
EXTENDS Integers

\* Go's int64 quotient a / b for b > 0: truncation toward zero.
GoQuo(a, b) == IF a >= 0 THEN a \div b ELSE -((-a) \div b)

\* PrevSlot(now, blockInterval) = (now-1)/blockInterval*blockInterval
PrevSlot(now, blockInterval) ==
    GoQuo(now - 1, blockInterval) * blockInterval

\* NextSlot(now, blockInterval) = (now+blockInterval-1)/blockInterval*blockInterval
NextSlot(now, blockInterval) ==
    GoQuo(now + blockInterval - 1, blockInterval) * blockInterval

---------------------------------------------------------------------------
(* The scheduler's definitions (spec 4.C), with floor and ceiling.  In     *)
(* TLA+, a \div b is the floor of a / b for b > 0.                         *)
RefSlotOf(t, i) == t \div i
RefPrevSlot(t, i) == ((t - 1) \div i) * i
RefNextSlot(t, i) == -((-t) \div i) * i

=============================================================================
