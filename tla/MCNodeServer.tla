---------------------------- MODULE MCNodeServer ----------------------------
(* Small clusters for NodeServer: node d can hold the data volume; r cannot, *)
(* except in NodeRetries.                                                    *)
EXTENDS NodeServer, TLC

CONSTANTS d, r, p1, p2, ip1, ip2, t1, t2

MCNodes == {d, r}
MCDataNodes == {d}
LocalAndRemote == (p1 :> d) @@ (p2 :> r)
MCUids == 1..4

MCPlugins == <<"csi", "local-volume", "projected", "secret">>

\* The server pod has an in-tree or a CSI data volume, and a legacy token
\* secret or the projected token of newer clusters.
InTreeDirs == {{"local-volume", "secret"}}
ProjectedDirs == {{"csi", "projected"}}
CsiDirs == {{"csi", "secret"}} \cup ProjectedDirs

ThreadSymmetry == Permutations(Threads)
=============================================================================
