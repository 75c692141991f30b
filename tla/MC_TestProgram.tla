---------------------------- MODULE MC_TestProgram ----------------------------
(* An instance of TestProgram for TLC: two tests of the class whose tests share
   a lock, one of the others, in the order of the classes' names. *)
EXTENDS TestProgram

LoadedTests ==
    <<"linger", "kill", "plain", "helper", "jobs", "jobs", "mapper">>

===============================================================================
