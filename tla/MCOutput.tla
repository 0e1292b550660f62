------------------------------ MODULE MCOutput ------------------------------
(* Small instances of Redistribution and Output.                              *)
EXTENDS Output, TLC

\* a statistic with one file per time step, and one with two
MCLoops == <<1, 2>>
=============================================================================
