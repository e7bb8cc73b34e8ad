-------------------------- MODULE MCComponentRegistry --------------------------
(* Instances of ComponentRegistry for TLC.  No property names a key, component,
   coordinator or coroutine. *)
EXTENDS ComponentRegistry, TLC

Interchangeable ==
    Permutations(Key) \cup Permutations(Component) \cup Permutations(Coord) \cup Permutations(Caller)
================================================================================
