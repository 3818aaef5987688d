--------------------------- MODULE MCJenkinsClient --------------------------
(* Instances of JenkinsClient for TLC. *)
EXTENDS JenkinsClient
=============================================================================
