---------------------------- MODULE MCSupervisor ----------------------------
(***************************************************************************)
(* An instance of Supervisor for TLC: every dependency graph over three    *)
(* services and a name that is none of them.                               *)
(***************************************************************************)
EXTENDS Supervisor

CONSTANTS s1, s2, s3, other

ThreeServices == {s1, s2, s3}
List == <<s1, s2, s3>>
NotListed == {other}
=============================================================================
