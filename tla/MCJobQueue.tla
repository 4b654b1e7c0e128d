------------------------------ MODULE MCJobQueue ------------------------------
(* Two jobs, two workers and two crashes are enough for takeovers and late  *)
(* marks of both; MCJobQueue.cfg gives the constants.                       *)
EXTENDS JobQueue
===============================================================================
