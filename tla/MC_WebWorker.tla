------------------------------ MODULE MC_WebWorker ------------------------------
(* WebWorker with two workers, of which a poll looks at the newest one. *)
EXTENDS WebWorker
=============================================================================
