------------------------------ MODULE MCSimPod ------------------------------
(***************************************************************************)
(* Lists of up to MaxPhases phases for SimPod, of the given lengths.       *)
(***************************************************************************)
EXTENDS SimPod

CONSTANTS MaxPhases, InlineLengths, FileLengths

Lists(lengths) == UNION {[1..n -> lengths] : n \in 0..MaxPhases}
MCInlineSpecs == Lists(InlineLengths)
MCFileSpecs == Lists(FileLengths)
=============================================================================
