------------------------------ MODULE MCRedact ------------------------------
(* Instance of Redact for TLC. *)
EXTENDS Redact

MCRoles == {"admin", "auditor"}
=============================================================================
