------------------------------- MODULE SeqNum -------------------------------
(***************************************************************************)
(* The cyclic sequence numbers of the reliable channels                    *)
(* (src/src/network/mtp/internal.h).  The program computes them in u16:    *)
(* SEQNUM_MAX is 65535 and MAX_RELIABLE_WINDOW_SIZE is 0x8000, half the    *)
(* number of sequence numbers.  The ratio of the two is what the           *)
(* comparison operators rely on, so the half is the parameter here.        *)
(***************************************************************************)
EXTENDS Integers

CONSTANT
    MaxWindow       \* MAX_RELIABLE_WINDOW_SIZE, 0x8000 in the program

ASSUME MaxWindowAssumption == MaxWindow \in Nat \ {0}

SeqnumCount == 2 * MaxWindow                  \* SEQNUM_MAX + 1
Seqnum == 0 .. SeqnumCount - 1                \* the values of a u16
HalfRange == MaxWindow - 1               \* SEQNUM_MAX / 2, rounded down

(* x % (SEQNUM_MAX + 1), and the truncation to u16, of a sum of two u16.   *)
Wrap(x) == IF x >= SeqnumCount THEN x - SeqnumCount ELSE x

Plus(a, n) == Wrap(a + n)                \* a + n in u16, n a u16
Minus(a, n) == IF a >= n THEN a - n ELSE a - n + SeqnumCount

(***************************************************************************)
(* seqnum_higher: is totest ahead of base?                                 *)
(***************************************************************************)
seqnum_higher(totest, base) ==
    IF totest > base
    THEN totest - base <= HalfRange
    ELSE base - totest > HalfRange

(***************************************************************************)
(* seqnum_in_window: is seqnum one of the window_size numbers from next?   *)
(***************************************************************************)
seqnum_in_window(seqnum, next, window_size) ==
    LET window_end == Wrap(next + window_size)
    IN  IF next < window_end
        THEN next <= seqnum /\ seqnum < window_end
        ELSE seqnum < window_end \/ next <= seqnum

(***************************************************************************)
(* How handlePacketType_Reliable tells arriving packets apart, n being     *)
(* next_incoming_seqnum.  A packet in the window is acknowledged and       *)
(* processed, one of the past is acknowledged again, one of the future is  *)
(* ignored.                                                                *)
(***************************************************************************)
InWindow(s, n) == seqnum_in_window(s, n, MaxWindow)
IsFuture(s, n) == ~InWindow(s, n) /\ seqnum_higher(s, n)
IsOld(s, n) == ~InWindow(s, n) /\ seqnum_higher(n, s)

-----------------------------------------------------------------------------
(* The reference: how many increments lead from a to b.                    *)
Distance(a, b) == Minus(b, a)

HigherIsShorterWay(s, next) ==
    seqnum_higher(s, next) <=>
        \/ 0 < Distance(next, s) /\ Distance(next, s) < MaxWindow
        \/ Distance(next, s) = MaxWindow /\ s < next
WindowIsDistance(s, next, size) ==
    seqnum_in_window(s, next, size) <=> Distance(next, s) < size
Classified(s, next) ==
    /\ InWindow(s, next) \/ IsFuture(s, next) \/ IsOld(s, next)
    /\ ~(IsFuture(s, next) /\ IsOld(s, next))
    /\ IsOld(s, next) => Distance(s, next) \in 1 .. MaxWindow
    /\ IsFuture(s, next) => Distance(next, s) = MaxWindow
=============================================================================
