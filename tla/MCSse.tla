------------------------------- MODULE MCSse -------------------------------
(* Small instances of the hub and its SSE clients for TLC. *)
EXTENDS SseClients
=============================================================================
