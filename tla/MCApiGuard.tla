------------------------------ MODULE MCApiGuard ------------------------------
(* The instance of ApiGuard that TLC checks: threads and addresses are      *)
(* model values of the configuration.                                       *)
EXTENDS ApiGuard
=============================================================================
