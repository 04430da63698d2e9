--------------------------- MODULE MCUdpAssociate ---------------------------
(* The client and another socket of its host, and one destination.         *)
EXTENDS UdpAssociate, TLC

CONSTANTS client, sibling, target, home, away

MCAddrs == {client, sibling, target}
MCIps == {home, away}
MCIpOf == client :> home @@ sibling :> home @@ target :> away
MCDeclared == {home, AnyHost}
=============================================================================
