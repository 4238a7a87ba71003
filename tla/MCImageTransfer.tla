-------------------------- MODULE MCImageTransfer --------------------------
(* ImageTransfer on a small instance: peers are interchangeable.           *)
EXTENDS ImageTransfer, TLC
MCSymmetry == Permutations(Peers)
=============================================================================
