------------------------ MODULE MCDeadLetterErasure ------------------------
(* Two letters of the erased organization and two of another, one of each  *)
(* off the contract, in pages of one.                                      *)
EXTENDS DeadLetterErasure, TLC

CONSTANTS m1, m2, m3, m4, b1, b2

FourMessages == {m1, m2, m3, m4}
TwoOurs == {m1, m2}
TwoBodies == {b1, b2}
OneOfEach == {m2, m4}
Symmetry == Permutations(TwoBodies)
=============================================================================
