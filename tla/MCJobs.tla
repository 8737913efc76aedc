------------------------------- MODULE MCJobs -------------------------------
(* Jobs on small instances; the workloads are in the configurations.        *)
EXTENDS Jobs
=============================================================================
