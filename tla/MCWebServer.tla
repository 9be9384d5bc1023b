---------------------------- MODULE MCWebServer ----------------------------
(* WebServer for TLC: descriptors, timers and workers are interchangeable. *)
EXTENDS WebServer, TLC

Symmetry == Permutations(Fds) \cup Permutations(Timers) \cup Permutations(Workers)

(* The allocator returns any address that is free, ... *)
AnyUnused(T) == Timers \ T

(* ... or always the same one: the states then differ less in names alone, *)
(* which symmetry cannot be used for beside liveness.                      *)
OneUnused(T) == {t \in Timers \ T : t = CHOOSE u \in Timers \ T : TRUE}
=============================================================================
