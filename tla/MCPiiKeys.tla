------------------------------ MODULE MCPiiKeys ------------------------------
(* A small instance of PiiKeys. *)
EXTENDS PiiKeys

CONSTANTS k1, kDefault, i1, i2, d1, d2

\* The key is injected; a developer's .env has it; a deployment forgot it.
MCEnvironments ==
  {[production |-> TRUE, os |-> k1, file |-> Unset],
   [production |-> FALSE, os |-> Unset, file |-> k1],
   [production |-> TRUE, os |-> Unset, file |-> k1]}
=============================================================================
