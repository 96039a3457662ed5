----------------------------- MODULE MCStatus -----------------------------
(* Three callers, and a cache that lasts for two ticks. *)
EXTENDS Status
=============================================================================
