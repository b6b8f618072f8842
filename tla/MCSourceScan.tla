---------------------------- MODULE MCSourceScan ----------------------------
(* The volume plugins a server pod can meet, in lexical order. *)
EXTENDS SourceScan

MCPlugins == <<"cephfs", "configmap", "csi", "downward-api", "empty-dir",
               "local-volume", "projected", "rbd", "secret">>
=============================================================================
