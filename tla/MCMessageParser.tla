-------------------------- MODULE MCMessageParser --------------------------
(* MessageParser with frame sizes scaled down, keeping their order        *)
(* (header < heartbeat < trade < quote) and the ratios the buffer logic   *)
(* depends on (a receive fills the initial buffer, the cap is four times  *)
(* it).  SeqMod is small so that the sequence number wraps.               *)
EXTENDS MessageParser
=============================================================================
