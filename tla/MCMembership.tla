---------------------------- MODULE MCMembership ----------------------------
(***************************************************************************)
(* The Subject s, the introducer i and one more member o.  Each of the two  *)
(* protocols comes with one of the two ways to treat suspicion, so that all *)
(* four settings of the merge and of the timeouts are in play.              *)
(***************************************************************************)
EXTENDS Membership

CONSTANTS s, i, o

GossipSuspect == <<"gossip", "suspect">>
PingNoSuspect == <<"ping", "nosuspect">>

DetectModes == {GossipSuspect, PingNoSuspect}
GossipModes == {GossipSuspect}
=============================================================================
