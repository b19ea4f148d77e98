---------------------------- MODULE SlotsProofs ----------------------------
(***************************************************************************)
(* PrevSlot and NextSlot (dpos.go 530-536) compute spec 4.C's prev_slot   *)
(* and next_slot, and satisfy spec 8's scheduler idempotence, for every   *)
(* positive time and block interval.  The argument is the characterisation *)
(* of integer division: a \div b is the one q with q*b <= a < q*b + b.     *)
(***************************************************************************)
EXTENDS Slots, TLAPS

(* Division by a positive interval brackets its dividend.                  *)
LEMMA DivBounds ==
    ASSUME NEW a \in Int, NEW b \in Nat \ {0}
    PROVE  /\ a \div b \in Int
           /\ (a \div b) * b <= a
           /\ a < (a \div b) * b + b
BY SMT

(* The quotient is the only integer that brackets the dividend.            *)
LEMMA DivUnique ==
    ASSUME NEW a \in Int, NEW b \in Nat \ {0}, NEW q \in Int,
           q * b <= a, a < q * b + b
    PROVE  a \div b = q
BY SMT

(* For a positive time the dividend of PrevSlot is not negative, so Go's   *)
(* truncation and the spec's floor agree.                                  *)
LEMMA PrevSlotSpec ==
    ASSUME NEW t \in Nat \ {0}, NEW i \in Nat \ {0}
    PROVE  PrevSlot(t, i) = RefPrevSlot(t, i)
BY DEF PrevSlot, RefPrevSlot, GoQuo

(* NextSlot's rounding up by adding blockInterval - 1 is the ceiling.      *)
LEMMA NextSlotSpec ==
    ASSUME NEW t \in Nat \ {0}, NEW i \in Nat \ {0}
    PROVE  NextSlot(t, i) = RefNextSlot(t, i)
<1> DEFINE r == (-t) \div i
<1>1. r \in Int /\ r * i <= -t /\ -t < r * i + i
  BY DivBounds
<1>2. (-r) * i <= t + i - 1 /\ t + i - 1 < (-r) * i + i
  BY <1>1, SMT
<1>3. (t + i - 1) \div i = -r
  <2>1. t + i - 1 \in Int /\ -r \in Int
    BY <1>1, SMT
  <2> QED
    BY <1>2, <2>1, DivUnique, Zenon
<1> QED
  BY <1>3 DEF NextSlot, RefNextSlot, GoQuo

(* The slot arithmetic checkDeadline and Seal use is the scheduler's of    *)
(* spec 4.C for every positive time and interval.                          *)
THEOREM SlotsMatchSpec ==
    \A t, i \in Nat \ {0} :
        /\ PrevSlot(t, i) = RefPrevSlot(t, i)
        /\ NextSlot(t, i) = RefNextSlot(t, i)
BY PrevSlotSpec, NextSlotSpec

(* Scheduler idempotence (spec 8, property 5) for PrevSlot and NextSlot:   *)
(* the slot after the previous slot is the next slot, and an unaligned     *)
(* time lies between the two, which checkDeadline's two tests rely on.    *)
THEOREM SchedulerIdempotent ==
    ASSUME NEW t \in Nat \ {0}, NEW i \in Nat \ {0}
    PROVE  /\ NextSlot(PrevSlot(t, i) + 1, i) = NextSlot(t, i)
           /\ t % i # 0 => PrevSlot(t, i) <= t /\ t < NextSlot(t, i)
<1> DEFINE p == (t - 1) \div i
<1>1. p \in Int /\ p * i <= t - 1 /\ t - 1 < p * i + i
  BY DivBounds
<1>2. PrevSlot(t, i) = p * i
  BY DEF PrevSlot, GoQuo
<1>3. (p * i + 1 + i - 1) \div i = p + 1
  BY <1>1, DivUnique, SMT
<1>4. (t + i - 1) \div i = p + 1
  <2>1. (p + 1) * i <= t + i - 1 /\ t + i - 1 < (p + 1) * i + i
    BY <1>1, SMT
  <2>2. t + i - 1 \in Int /\ p + 1 \in Int
    BY <1>1, SMT
  <2> QED
    BY <2>1, <2>2, DivUnique, Zenon
<1>5. p * i >= 0
  BY <1>1, SMT
<1>6. NextSlot(t, i) = (p + 1) * i
  BY <1>4 DEF NextSlot, GoQuo
<1>7. NextSlot(PrevSlot(t, i) + 1, i) = (p + 1) * i
  BY <1>2, <1>3, <1>5 DEF NextSlot, GoQuo
<1>8. t % i # 0 => t # (p + 1) * i
  BY <1>1, SMT
<1> QED
  BY <1>1, <1>2, <1>6, <1>7, <1>8, SMT

=============================================================================
