---------------------------- MODULE MCSyncScheduler ----------------------------
(* Two tabs of a browser; in the first the user also runs syncs by hand. *)
EXTENDS SyncScheduler
===============================================================================
