---------------------------- MODULE MCTeamClient ----------------------------
(***************************************************************************)
(* Small instances of TeamClient for TLC.                                  *)
(***************************************************************************)
EXTENDS TeamClient

CONSTANTS s1, s2

TwoServers == {s1, s2}
OneServer  == {s1}
=============================================================================
