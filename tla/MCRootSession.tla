----------------------------- MODULE MCRootSession -----------------------------
(* Instances of RootSession for TLC.  Identities are interchangeable. *)
EXTENDS RootSession, TLC

Interchangeable ==
    Permutations(Key) \cup Permutations(Serial) \cup Permutations(Coord)
        \cup Permutations(Task) \cup Permutations(Caller)
================================================================================
