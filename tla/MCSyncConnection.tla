---------------------------- MODULE MCSyncConnection ----------------------------
(* A browser whose user works in one tab or in two. *)
EXTENDS SyncConnection
=================================================================================
