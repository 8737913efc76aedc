---------------------------- MODULE MCSupervisor ----------------------------
(* Supervisor on small instances; the workloads are in the configurations.  *)
EXTENDS Supervisor

BothNames == {"syscall", "terminal"}
MainScreen == {FALSE}
EitherScreen == BOOLEAN
=============================================================================
