-------------------------------- MODULE MCCode --------------------------------
(***************************************************************************)
(* CodeCache on two pages of a word each: one with the exception vectors, run  *)
(* through both KSEG aliases and the TLB, and one that the TLB may show in its *)
(* place.  Any opcode may stand for any other.                              *)
(***************************************************************************)
EXTENDS CodeCache, TLC

MCJumpTargets == {Kseg0("v"), Kseg1("v"), Kseg0("w"), Mapped}
MCSymmetry == Permutations(Opcodes)
=============================================================================
