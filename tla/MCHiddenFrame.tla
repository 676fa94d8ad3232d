---------------------------- MODULE MCHiddenFrame ----------------------------
(***************************************************************************)
(* Every action function with up to three parameters and two acts of up to *)
(* two arguments, for TLC to run HiddenFrame on.                           *)
(***************************************************************************)
EXTENDS HiddenFrame, SequencesExt

UpToThreeParams == BoundedSeq(Qualifiers, 3)
UpToTwoActs == BoundedSeq(BoundedSeq({"frm", "local"}, 2), 2)
==============================================================================
