---------------------------- MODULE MCDashboard ----------------------------
(* A devnet endpoint, the default, and a local one. *)
EXTENDS Dashboard

MCUrls == {"devnet", "localhost"}
MCLinks == {None, "localhost"}
MCDefault == "devnet"
MCLocalUrls == {"localhost"}
MCDevnetUrls == {"devnet"}

=============================================================================
