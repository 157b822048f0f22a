----------------------------- MODULE MCDiscovery -----------------------------
(***************************************************************************)
(* Small instances of Discovery for TLC.                                   *)
(***************************************************************************)
EXTENDS Discovery

CONSTANTS gc, other

OneSender    == {gc}
OtherServers == {gc, other}
=============================================================================
