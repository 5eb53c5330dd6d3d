---------------------------- MODULE MCDeployment ----------------------------
(***************************************************************************)
(* Instances of Deployment for TLC.                                        *)
(***************************************************************************)
EXTENDS Deployment

CONSTANTS c1, d1, d2, f1, f2, t1

SameFiles == [c \in Client |-> File]
NoEmptyFile == [c \in Client |-> {}]
NoneOrZero == {None, 0}
=============================================================================
