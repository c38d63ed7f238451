---------------------------- MODULE MCLifecycle -----------------------------
(***************************************************************************)
(* Three connections.                                                      *)
(***************************************************************************)
EXTENDS Lifecycle

CONSTANTS c1, c2, c3

ThreeConns == {c1, c2, c3}
=============================================================================
