----------------------------- MODULE MCReporter -----------------------------
(***************************************************************************)
(* The reporter beside the solver on the graphs of MCApdfsSolver.          *)
(***************************************************************************)
EXTENDS Reporter, MCApdfsSolver
=============================================================================
