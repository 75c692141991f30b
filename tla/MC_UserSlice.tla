----------------------------- MODULE MC_UserSlice -----------------------------
(* Instances of UserSlice for TLC. *)
EXTENDS UserSlice, TLC

CONSTANTS u1, u2, j1, j2, j3, s1, s2, r1, r2, r3

\* Two jobs and two sessions of one user.
OneUser            == {u1}
OneUserJobUser     == j1 :> u1 @@ j2 :> u1
OneUserJobR        == j1 :> {r1} @@ j2 :> {r2}
OneUserSessionUser == [s \in Sessions |-> u1]

\* Two jobs of u1, and one of u2 that needs what the first of them used.
TwoUsers           == {u1, u2}
TwoUserJobUser     == j1 :> u1 @@ j2 :> u1 @@ j3 :> u2
TwoUserJobR        == j1 :> {r1} @@ j2 :> {r2} @@ j3 :> {r1}
TwoUserSessionUser == s1 :> u1 @@ s2 :> u2

\* What the properties about marker and slice need: see the theorems.
Prompt   == FaultKinds \ {"late_start", "late_end"}
Readable == FaultKinds \ {"unreadable"}
AsTold   == Prompt \ {"unreadable", "stop_error", "revert_error"}

===============================================================================
