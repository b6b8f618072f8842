---------------------------- MODULE MCGrpcServer ----------------------------
(* The old and the new plugin container of one node. *)
EXTENDS GrpcServer

\* unix:///csi/csi.sock, tcp://:10000, UNIX:///csi/csi.sock, unix://
MCEndpoints ==
  {[scheme |-> "unix", lower |-> TRUE, rest |-> TRUE],
   [scheme |-> "tcp", lower |-> TRUE, rest |-> TRUE],
   [scheme |-> "unix", lower |-> FALSE, rest |-> TRUE],
   [scheme |-> "unix", lower |-> TRUE, rest |-> FALSE]}
=============================================================================
