---------------------------- MODULE MCHandshake ----------------------------
(* Two clients that the same id is handed to, or one with a choice of two. *)
EXTENDS Handshake, TLC

CONSTANTS ann, bob, i2, i3

Both == {ann, bob}
Alone == {ann}
TwoIds == {i2, i3}
OneId == {i2}
Symmetry == Permutations(Both)
=============================================================================
