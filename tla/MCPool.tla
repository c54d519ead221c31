------------------------------- MODULE MCPool -------------------------------
(* Pool for TLC, with the mutants its properties must reject.              *)
EXTENDS Pool
=============================================================================
