---------------------------- MODULE MCHostScripts ----------------------------
(* The scripts of the Host, on small instances for TLC.                    *)
EXTENDS HostScripts

Completed(job, exit, acceptance) ==
  [job |-> job, status |-> "completed", inner_exit_code |-> exit,
   acceptance |-> acceptance, processes |-> FALSE]
SomeResults ==
  {Completed("own", "zero", "passed"), Completed("own", "null", "passed"),
   Completed("own", "zero", "unverified"), Completed("other", "zero", "passed"),
   [Completed("own", "null", "unverified") EXCEPT !.status = "running", !.processes = TRUE]}
=============================================================================
