--------------------------- MODULE MCPolicyReload ---------------------------
(* Instances of PolicyReload for TLC. *)
EXTENDS PolicyReload

\* Two bundles with one number, omitted limits, a limit raised above the
\* ceiling and a force lifted again.
MCBundles ==
    {[seq |-> 1, force |-> TRUE,  max |-> 1, rate |-> 2],
     [seq |-> 2, force |-> FALSE, max |-> 3, rate |-> 0],
     [seq |-> 2, force |-> TRUE,  max |-> 0, rate |-> 1]}
=============================================================================
