----------------------------- MODULE MCAuditLog -----------------------------
(* A small instance of the audit writer for TLC. *)
EXTENDS AuditLog
=============================================================================
