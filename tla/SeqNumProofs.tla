---------------------------- MODULE SeqNumProofs ----------------------------
(* The comparison of cyclic sequence numbers, for every size of the number *)
(* space.                                                                  *)
EXTENDS SeqNum, TLAPS

(* Sums and differences of u16 values are u16 values.                      *)
LEMMA ArithmeticType ==
    ASSUME NEW a \in Seqnum, NEW n \in 0 .. MaxWindow
    PROVE  Plus(a, n) \in Seqnum /\ Minus(a, n) \in Seqnum
BY MaxWindowAssumption DEF Seqnum, SeqnumCount, Plus, Minus, Wrap

(* seqnum_higher compares by the shorter way around.                       *)
LEMMA HigherLemma ==
    ASSUME NEW s \in Seqnum, NEW next \in Seqnum
    PROVE  HigherIsShorterWay(s, next)
BY MaxWindowAssumption DEF Seqnum, SeqnumCount, HigherIsShorterWay, seqnum_higher,
   HalfRange, Distance, Minus

(* seqnum_in_window is a distance, wrapped or not.                         *)
LEMMA WindowLemma ==
    ASSUME NEW s \in Seqnum, NEW next \in Seqnum, NEW size \in 1 .. MaxWindow
    PROVE  WindowIsDistance(s, next, size)
BY MaxWindowAssumption DEF Seqnum, SeqnumCount, WindowIsDistance, seqnum_in_window,
   Wrap, Distance, Minus

(* The three cases of the receive handler.                                 *)
LEMMA ClassificationLemma ==
    ASSUME NEW s \in Seqnum, NEW next \in Seqnum
    PROVE  Classified(s, next)
BY MaxWindowAssumption DEF Seqnum, SeqnumCount, Classified, InWindow, IsFuture, IsOld,
   seqnum_in_window, seqnum_higher, HalfRange, Wrap, Distance, Minus

(* A number taken and put back is the number it was.                       *)
LEMMA PlusMinus ==
    ASSUME NEW a \in Seqnum, NEW n \in 0 .. MaxWindow
    PROVE  Minus(Plus(a, n), n) = a
BY MaxWindowAssumption DEF Seqnum, SeqnumCount, Plus, Minus, Wrap
=============================================================================
