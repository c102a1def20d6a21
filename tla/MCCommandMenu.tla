---------------------------- MODULE MCCommandMenu ----------------------------
EXTENDS CommandMenu, TLC

CONSTANTS r1, r2

\* A rolling deploy: a replica of the old build and one with a migration more.
RollingBuild == (r1 :> 2) @@ (r2 :> 3)
=============================================================================
