-------------------------- MODULE MCAuditPublisher --------------------------
(***************************************************************************)
(* A small instance of AuditPublisher: three Publish calls that overlap    *)
(* each other and Close, and a buffer of two.                              *)
(***************************************************************************)
EXTENDS AuditPublisher, TLC

CONSTANTS e1, e2, e3

MCEvents == {e1, e2, e3}

Symmetry == Permutations(MCEvents)
=============================================================================
