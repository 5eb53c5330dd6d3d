-------------------------- MODULE MCDomainStorage --------------------------
(***************************************************************************)
(* Instances of DomainStorage for TLC.                                     *)
(***************************************************************************)
EXTENDS DomainStorage, TLC

\* Handlers are interchangeable.
Symmetry == Permutations(Task)

\* max_reserve absent, 0 and 1.
AnyReserve == {None, 0, 1}
=============================================================================
