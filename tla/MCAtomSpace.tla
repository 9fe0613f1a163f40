---------------------------- MODULE MCAtomSpace ----------------------------
(* Model-checking instance of AtomSpace: two types, two names, so that a   *)
(* name can be shared by a Node and a Link, and at most four atoms.        *)
EXTENDS AtomSpace

CONSTANTS t1, t2, T1, T2, n1, n2
=============================================================================
