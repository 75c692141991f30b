-------------------------- MODULE MC_SliceProperties --------------------------
(* SliceProperties with three jobs of a user, two with a device, one sharing
   its CPU. *)
EXTENDS SliceProperties, TLC

CONSTANTS a, b, c, c1, c2, d1, d2

JobResources ==
    (a :> [cpus |-> {c1}, devices |-> {d1}])
        @@ (b :> [cpus |-> {c2}, devices |-> {d2}])
        @@ (c :> [cpus |-> {c2}, devices |-> {}])
===============================================================================
