--------------------------- MODULE MCUploadClient ---------------------------
(***************************************************************************)
(* Instances of UploadClient for TLC.                                      *)
(***************************************************************************)
EXTENDS UploadClient, TLC

CONSTANTS c1, c2, f1, f2

\* Handlers are interchangeable.
Symmetry == Permutations(Task)

SameFiles == [c \in Client |-> File]
NoEmptyFile == [c \in Client |-> {}]

\* A file that both clients have, and one without bytes that c2 has.
TwoBuilds == [c \in Client |-> IF c = c2 THEN {f1, f2} ELSE {f1}]
SecondEmpty == [c \in Client |-> IF c = c2 THEN {f2} ELSE {}]
=============================================================================
