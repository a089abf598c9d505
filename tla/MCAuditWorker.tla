--------------------------- MODULE MCAuditWorker ----------------------------
(***************************************************************************)
(* A small instance of AuditWorker: at the head of the queue an event that *)
(* Postgres rejects, behind it one that does not decode and a good one;    *)
(* the last two carry the routing keys of blocked calls.                   *)
(***************************************************************************)
EXTENDS AuditWorker

MCMessages == 1 .. 3
MCUnstorable == {1}
MCMalformed == {2}
MCBlocked == {2, 3}
MCGarbled == {2}
=============================================================================
