------------------------------ MODULE MCWorkload ------------------------------
(* An instance of Workload small enough for TLC: the tables are as they are, *)
(* the draws thinned and the rounds few.                                     *)
EXTENDS Workload, TLC
===============================================================================
