----------------------------- MODULE MCConsumer -----------------------------
(***************************************************************************)
(* Consumer with the code's own constants: five attempts, a backoff of    *)
(* 100 ms doubling up to 30 s, auto-reconnect and the keyboard on.  Two   *)
(* queued bytes let a read leave data behind.                              *)
(***************************************************************************)
EXTENDS Consumer
=============================================================================
