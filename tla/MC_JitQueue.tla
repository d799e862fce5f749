---- MODULE MC_JitQueue ----
(* Instance of JitQueue for TLC. *)
EXTENDS JitQueue
====
