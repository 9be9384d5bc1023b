----------------------------- MODULE MCRegistry -----------------------------
(* Two people want one name with different passwords, one of them empty, a *)
(* third another name.                                                     *)
EXTENDS Registry
CONSTANTS n1, n2, p1, none
MCPosted == {<<n1, p1>>, <<n1, none>>, <<n2, p1>>}
=============================================================================
