---------------------------- MODULE MC_SliceCleanup ----------------------------
(* One teardown and one waiting prolog; the CONSTANTs are numbers, given in  *)
(* the .cfg files.                                                           *)
EXTENDS SliceCleanup

===============================================================================
