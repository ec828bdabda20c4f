---------------------------- MODULE MCUpgradeEngine ----------------------------
(* Two ensembles, one with a conductor and a peer, one with a peer.        *)
EXTENDS UpgradeEngine

CONSTANTS e1, e2

MCSessions == {<<e1, "conductor">>, <<e1, "peer">>, <<e2, "peer">>}
=============================================================================
