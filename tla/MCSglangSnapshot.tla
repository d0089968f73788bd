-------------------------- MODULE MCSglangSnapshot --------------------------
(* Two replicas: one to write a checkpoint, one to start from it.          *)
EXTENDS SglangSnapshot
=============================================================================
