---------------------------- MODULE AddressInputs ----------------------------
(***************************************************************************)
(* What an allocation pass may be given, for the pass (AddressRange) and   *)
(* for the promise that it implements (AddressMap).                        *)
(***************************************************************************)
EXTENDS Placement

CONSTANTS
    InputRanges,    \* the ranges a pass may be asked to allocate in
    InputItems      \* the sequences of items it may be given

ASSUME InputRangesAssumption == InputRanges \subseteq Ranges
ASSUME InputItemsAssumption ==
    \A s \in InputItems : s \in Seq(Items) /\ HasUniqueNames(s)
=============================================================================
