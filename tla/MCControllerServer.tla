------------------------- MODULE MCControllerServer -------------------------
(* Two good claims, one of which names its data class, in one of two         *)
(* spellings of the key, and a bad one.                                      *)
EXTENDS ControllerServer, TLC

CONSTANTS t1, t2

byDefault == <<"pvc-", "a">>
explicit == <<"pvc-", "b">>
bad == <<"pvc-", "c">>

Named(class) == [key |-> "datastorageclass", value |-> class]

MCVolumes == {byDefault, explicit, bad}
MCParameters ==
  (byDefault :> {[key |-> "nfsserverimage", value |-> "image"]})
    @@ (explicit :> {Named("fast"), Named("")})
    @@ (bad :> {[key |-> "server", value |-> "host"]})
MCNamespace == <<"apps">>
MCClasses == <<"fast", "local-path">>
=============================================================================
