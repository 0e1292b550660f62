------------------------------ MODULE MCLauncher ------------------------------
(* Small instances of Launcher: two Sobol' groups that may be given up, or one  *)
(* whose server dies and is started again.                                     *)
EXTENDS Launcher, TLC
=============================================================================
