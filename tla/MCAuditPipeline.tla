-------------------------- MODULE MCAuditPipeline ---------------------------
(***************************************************************************)
(* A small instance of AuditPipeline: two requests, a buffer of one, and   *)
(* PostgreSQL rejects the event that arrives first.                        *)
(***************************************************************************)
EXTENDS AuditPipeline

CONSTANTS e1, e2

MCEvents == {e1, e2}
MCRefused == {1}
=============================================================================
