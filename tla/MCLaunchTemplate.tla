--------------------------- MODULE MCLaunchTemplate ---------------------------
(***************************************************************************)
(* Two launches that share two launch templates, one of which an earlier   *)
(* process may have left.                                                  *)
(***************************************************************************)
EXTENDS LaunchTemplate

MCNeeds == [l \in Launches |-> {"n1", "n2"}]
=============================================================================
