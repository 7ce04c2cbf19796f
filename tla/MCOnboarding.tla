--------------------------- MODULE MCOnboarding ---------------------------
(***************************************************************************)
(* Onboarding for TLC: runs that ask for the same org id, each with a      *)
(* numeric policy, then a membership policy of two values.                 *)
(***************************************************************************)
EXTENDS Onboarding

MCNames   == {"acme"}
MCName    == [o \in Runs |-> "acme"]
MCMembers == [o \in Runs |-> << << >>, <<"V1", "V2">> >>]
=============================================================================
