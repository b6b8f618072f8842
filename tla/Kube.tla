-------------------------------- MODULE Kube --------------------------------
(***************************************************************************)
(* The API objects of ONE exported volume, and what the cluster does to    *)
(* them.  The driver reads and writes these objects through its clientset; *)
(* nothing in this module is code of the repository: it is modelled from   *)
(* how pkg/nfsexport uses it, and from the StatefulSet, the Service and    *)
(* the owner references the driver creates.                                *)
(*                                                                         *)
(* The names are the code's: the data PVC, the StatefulSet and the Service *)
(* are all called volumeID, the server pod is volumeID-0.                  *)
(***************************************************************************)
EXTENDS Naturals, Sequences, FiniteSets

CONSTANTS
  Pods,       \* the application pods that use the NFS PVC
  Nodes,      \* the cluster's nodes
  NodeOf,     \* the node each application pod is scheduled to
  DataNodes,  \* the nodes the data volume can be attached to
  Uids,       \* UIDs of successive incarnations of the server pod
  PodVolumeDirs,  \* the volume directories a server pod may have: a set of
                  \* directory names for each kind of server pod
  IPs,        \* cluster IPs of successive incarnations of the Service
  None,       \* no UID, no IP, no node
  EnvOps      \* what users do: "graceful", "forced" pod deletions,
              \* "deletePV", "deleteDataPVC"

ASSUME NodeOfAssumption == NodeOf \in [Pods -> Nodes]
ASSUME DataNodesAssumption == DataNodes \subseteq Nodes
ASSUME NoneAssumption == None \notin Uids \cup IPs \cup Nodes

VARIABLES
  dataPVC,  \* the data PVC exists
  pv,       \* the PV of the NFS PVC (and with it the claim) exists
  sts,      \* the StatefulSet exists
  svc,      \* the cluster IP of the Service, None if there is no Service
  nfsPod,   \* the server pod
  appPod    \* the application pods, as the API server lists them

kubeVars == <<dataPVC, pv, sts, svc, nfsPod, appPod>>

NoPod ==
  [uid |-> None, node |-> None, phase |-> "Absent", owned |-> FALSE, dirs |-> {}]

Phases == {"Absent", "Pending", "Running", "Failed"}

KubeTypeOK ==
  /\ dataPVC \in BOOLEAN
  /\ pv \in BOOLEAN
  /\ sts \in BOOLEAN
  /\ svc \in IPs \cup {None}
  /\ nfsPod \in [uid : Uids \cup {None}, node : DataNodes \cup {None},
                 phase : Phases, owned : BOOLEAN, dirs : PodVolumeDirs \cup {{}}]
  /\ appPod \in [Pods -> {"unborn", "active", "terminating", "gone"}]

\* The volume has been provisioned: CreateVolume has made the data PVC.
KubeInit ==
  /\ dataPVC = TRUE
  /\ pv = TRUE
  /\ sts = FALSE
  /\ svc = None
  /\ nfsPod = NoPod
  /\ appPod = [p \in Pods |-> "unborn"]

\* The pods the API server returns when the claim's namespace is listed.
Listed == {p \in Pods : appPod[p] \in {"active", "terminating"}}

-----------------------------------------------------------------------------
(* The server pod. *)

\* The Service routes to the server pod (the selector of the Service matches
\* the label of the pod template), and the server answers.
ServerUp(ip) == ip # None /\ svc = ip /\ nfsPod.phase = "Running"

\* The kubelet of node n keeps a directory for the server pod with UID u, and
\* has its volumes mounted there while it runs.
PodDirExists(n, u) ==
  /\ u # None /\ nfsPod.uid = u /\ nfsPod.node = n
  /\ nfsPod.phase \in {"Running", "Failed"}

PodVolumesMounted(n, u) == PodDirExists(n, u) /\ nfsPod.phase = "Running"

\* The StatefulSet controller creates volumeID-0.  `held` are the UIDs that
\* somebody still remembers; a new pod never gets one of those.
StsCreatesPod(held) ==
  /\ sts /\ dataPVC /\ nfsPod.phase = "Absent"
  /\ Uids \ held # {}
  /\ \E n \in DataNodes, dirs \in PodVolumeDirs :
       nfsPod' = [uid |-> CHOOSE u \in Uids : u \notin held, node |-> n,
                  phase |-> "Pending", owned |-> TRUE, dirs |-> dirs]
  /\ UNCHANGED <<dataPVC, pv, sts, svc, appPod>>

PodRuns ==
  /\ nfsPod.phase = "Pending"
  /\ nfsPod' = [nfsPod EXCEPT !.phase = "Running"]
  /\ UNCHANGED <<dataPVC, pv, sts, svc, appPod>>

\* The pod is evicted, or its node fails.
PodFails ==
  /\ nfsPod.phase \in {"Pending", "Running"}
  /\ nfsPod' = [nfsPod EXCEPT !.phase = "Failed"]
  /\ UNCHANGED <<dataPVC, pv, sts, svc, appPod>>

\* The garbage collector removes a pod whose StatefulSet is gone; the
\* StatefulSet controller removes a failed one, to create it again.
PodRemoved ==
  /\ nfsPod.phase # "Absent"
  /\ ~ nfsPod.owned \/ nfsPod.phase = "Failed"
  /\ nfsPod' = NoPod
  /\ UNCHANGED <<dataPVC, pv, sts, svc, appPod>>

\* The StatefulSet and the Service name the data PVC as their owner.
CollectGarbage ==
  /\ ~ dataPVC
  /\ sts \/ svc # None
  /\ sts' = FALSE
  /\ svc' = None
  /\ nfsPod' = [nfsPod EXCEPT !.owned = FALSE]
  /\ UNCHANGED <<dataPVC, pv, appPod>>

-----------------------------------------------------------------------------
(* The users. *)

\* A pod that uses the claim can be created as long as the claim exists.
StartPod(p) ==
  /\ pv /\ appPod[p] = "unborn"
  /\ appPod' = [appPod EXCEPT ![p] = "active"]
  /\ UNCHANGED <<dataPVC, pv, sts, svc, nfsPod>>

\* An ordinary deletion: the pod stays in the API until its volumes are
\* unmounted.
DeletePod(p) ==
  /\ "graceful" \in EnvOps /\ appPod[p] = "active"
  /\ appPod' = [appPod EXCEPT ![p] = "terminating"]
  /\ UNCHANGED <<dataPVC, pv, sts, svc, nfsPod>>

\* With a grace period of zero (as in example/deployment-*.yaml) the pod
\* leaves the API at once; the kubelet finds out later.
ForceDeletePod(p) ==
  /\ "forced" \in EnvOps /\ appPod[p] \in {"active", "terminating"}
  /\ appPod' = [appPod EXCEPT ![p] = "gone"]
  /\ UNCHANGED <<dataPVC, pv, sts, svc, nfsPod>>

\* The NFS PVC is deleted, and its PV with it.  A claim in use is protected.
DeletePV ==
  /\ "deletePV" \in EnvOps /\ pv /\ Listed = {}
  /\ pv' = FALSE
  /\ UNCHANGED <<dataPVC, sts, svc, nfsPod, appPod>>

\* The data PVC is deleted; it is protected while the server pod uses it.
DeleteDataPVC ==
  /\ "deleteDataPVC" \in EnvOps /\ dataPVC /\ nfsPod.phase = "Absent"
  /\ dataPVC' = FALSE
  /\ UNCHANGED <<pv, sts, svc, nfsPod, appPod>>
=============================================================================
