---------------------- MODULE MCSandboxExecution ----------------------
(* Small instances of SandboxExecution for TLC: every constant is given in *)
(* the configurations.                                                     *)
EXTENDS SandboxExecution
=============================================================================
