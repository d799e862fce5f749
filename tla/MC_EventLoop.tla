----------------------------- MODULE MC_EventLoop -----------------------------
(* EventLoop with the bounds of eloop.cfg and eloop_exit.cfg. *)
EXTENDS EventLoop
=============================================================================
