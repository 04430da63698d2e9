----------------------------- MODULE MCSession -----------------------------
(* A session under every configuration of authentication methods.          *)
EXTENDS Session

MCConfigs == SUBSET {"NoAuth", "UserPass"}
=============================================================================
