---------------------------- MODULE MCDeployment ----------------------------
(* Small instances of Deployment for TLC: the schemas of the releases.     *)
EXTENDS Deployment, TLC

CONSTANTS r1, r2, r3

\* Versions 1 and 2 open each other's database; version 3 opens its own only.
MCWrites == (r1 :> 1) @@ (r2 :> 2) @@ (r3 :> 3)
MCReads == (r1 :> {1, 2}) @@ (r2 :> {1, 2}) @@ (r3 :> {3})

\* The second release opens databases of the first, not the reverse.
ForwardWrites == (r1 :> 1) @@ (r2 :> 2)
ForwardReads == (r1 :> {1}) @@ (r2 :> {1, 2})
=============================================================================
