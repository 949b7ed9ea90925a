---------------------------- MODULE MCSampling ----------------------------
(***************************************************************************)
(* Instances of Sampling for TLC; see sensors.cfg for the values.  PCI     *)
(* addresses are interchangeable.                                          *)
(***************************************************************************)
EXTENDS Sampling, TLC

PathSymmetry == Permutations(PciPaths)

=============================================================================
