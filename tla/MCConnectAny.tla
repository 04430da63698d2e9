---------------------------- MODULE MCConnectAny ----------------------------
(* Up to three addresses: the second starts at 2, the third at 4, and the  *)
(* budget is 5.                                                            *)
EXTENDS ConnectAny

MCOutcomes == {"ok", "hang", "ConnectionRefused", "NetworkDown"}
=============================================================================
