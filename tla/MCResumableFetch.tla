--------------------------- MODULE MCResumableFetch ---------------------------
EXTENDS ResumableFetch

(* A file of three blocks becomes one of two, which fits in a chunk. *)
Lengths == <<3, 2>>
===============================================================================
