---------------------------- MODULE MCPublisher ----------------------------
(***************************************************************************)
(* Publisher on a small instance.  Frame sizes keep the order of the real  *)
(* ones (heartbeat 20 < trade 32 < quote 44 bytes) scaled to 2 < 3 < 4;    *)
(* the slow threshold is one quote's worth, and the kernel grants either   *)
(* a buffer no larger than the threshold (so sends would block or be       *)
(* partial before the threshold is reached, as with the usual system cap   *)
(* on SO_SNDBUF) or twice the threshold (so the threshold check fires      *)
(* first).                                                                 *)
(***************************************************************************)
EXTENDS Publisher

CONSTANTS f1, f2, s1, s2

MCFds == {f1, f2}
MCSymbols == {s1, s2}
=============================================================================
