--------------------------- MODULE MCAuditWriter ----------------------------
(***************************************************************************)
(* A small instance of AuditWriter: five messages, one of them malformed   *)
(* and one that Postgres rejects.                                          *)
(***************************************************************************)
EXTENDS AuditWriter

MCMessages == 1 .. 5
MCMalformed == {2}
MCUnstorable == {3}
None == {}
=============================================================================
